----------------------- MODULE ProtectedShutdownProofs -----------------------
(* The safety of ProtectedShutdown for every number of processes and         *)
(* workers.  The argument: only the holder of the guard can have work        *)
(* (GuardInv); a thread closes the handle only after admission is closed and *)
(* it has found the process idle, and idleness is stable from then on        *)
(* (ReleaseInv); a running child is never out of sight (ChildInv).           *)
EXTENDS ProtectedShutdown, TLAPS

USE HostAssumption

\* Before anything was started the invariant holds.
LEMMA InitIInv == Init => IInv
  BY DEF Init, TypeOK, ChildInv, GuardInv, ReleaseInv, KeeperInv, Keeping,
       LooksAgain, IInv, Idle, Registered, Stopping

\* Starting a process preserves the invariant.
LEMMA StartKeepsIInv ==
  ASSUME IInv, NEW h \in Hosts,
         Acquire(h) \/ AlreadyRunning(h) \/ StartHttp(h) \/ Healthy(h)
  PROVE  IInv'
  <1>1. CASE Acquire(h)
    <2>1. TypeOK'
      BY <1>1 DEF Acquire, MainGoto, operations, IInv, TypeOK, Stopping
    <2>2. ChildInv'
      BY <1>1 DEF Acquire, MainGoto, operations, IInv, TypeOK, ChildInv
    <2>3. GuardInv'
      BY <1>1 DEF Acquire, MainGoto, operations, IInv, TypeOK, GuardInv,
           ReleaseInv, Idle, Registered, Stopping
    <2>4. ReleaseInv'
      BY <1>1 DEF Acquire, MainGoto, operations, IInv, TypeOK, GuardInv,
           ReleaseInv, Idle, Registered, Stopping
    <2>5. KeeperInv'
      BY <1>1 DEF Acquire, MainGoto, operations, IInv, TypeOK, GuardInv,
           ReleaseInv, KeeperInv, Keeping, LooksAgain, Idle, Registered,
           Stopping
    <2>. QED  BY <2>1, <2>2, <2>3, <2>4, <2>5 DEF IInv
  <1>2. CASE AlreadyRunning(h)
    <2>1. TypeOK'
      BY <1>2 DEF AlreadyRunning, MainGoto, operations, IInv, TypeOK, Stopping
    <2>2. ChildInv'
      BY <1>2 DEF AlreadyRunning, MainGoto, operations, IInv, TypeOK, ChildInv
    <2>3. GuardInv'
      BY <1>2 DEF AlreadyRunning, MainGoto, operations, IInv, TypeOK,
           GuardInv, ReleaseInv, Idle, Registered, Stopping
    <2>4. ReleaseInv'
      BY <1>2 DEF AlreadyRunning, MainGoto, operations, IInv, TypeOK,
           GuardInv, ReleaseInv, Idle, Registered, Stopping
    <2>5. KeeperInv'
      BY <1>2 DEF AlreadyRunning, MainGoto, operations, IInv, TypeOK,
           GuardInv, ReleaseInv, KeeperInv, Keeping, LooksAgain, Idle,
           Registered, Stopping
    <2>. QED  BY <2>1, <2>2, <2>3, <2>4, <2>5 DEF IInv
  <1>3. CASE StartHttp(h)
    <2>1. TypeOK'
      BY <1>3 DEF StartHttp, operations, IInv, TypeOK, Stopping
    <2>2. ChildInv'
      BY <1>3 DEF StartHttp, operations, IInv, TypeOK, ChildInv
    <2>3. GuardInv'
      BY <1>3 DEF StartHttp, operations, IInv, TypeOK, GuardInv, ReleaseInv,
           Idle, Registered, Stopping
    <2>4. ReleaseInv'
      BY <1>3 DEF StartHttp, operations, IInv, TypeOK, GuardInv, ReleaseInv,
           Idle, Registered, Stopping
    <2>5. KeeperInv'
      BY <1>3 DEF StartHttp, operations, IInv, TypeOK, GuardInv, ReleaseInv,
           KeeperInv, Keeping, LooksAgain, Idle, Registered, Stopping
    <2>. QED  BY <2>1, <2>2, <2>3, <2>4, <2>5 DEF IInv
  <1>4. CASE Healthy(h)
    <2>1. TypeOK'
      BY <1>4 DEF Healthy, MainGoto, operations, IInv, TypeOK, Stopping
    <2>2. ChildInv'
      BY <1>4 DEF Healthy, MainGoto, operations, IInv, TypeOK, ChildInv
    <2>3. GuardInv'
      BY <1>4 DEF Healthy, MainGoto, operations, IInv, TypeOK, GuardInv,
           ReleaseInv, Idle, Registered, Stopping
    <2>4. ReleaseInv'
      BY <1>4 DEF Healthy, MainGoto, operations, IInv, TypeOK, GuardInv,
           ReleaseInv, Idle, Registered, Stopping
    <2>5. KeeperInv'
      BY <1>4 DEF Healthy, MainGoto, operations, IInv, TypeOK, GuardInv,
           ReleaseInv, KeeperInv, Keeping, LooksAgain, Idle, Registered,
           Stopping
    <2>. QED  BY <2>1, <2>2, <2>3, <2>4, <2>5 DEF IInv
  <1>. QED  BY <1>1, <1>2, <1>3, <1>4

\* The main thread's stop preserves the invariant.
LEMMA StopKeepsIInv ==
  ASSUME IInv, NEW h \in Hosts,
         Stop(h) \/ Joined(h) \/ WaitEnds(h) \/ TimesOut(h) \/ Retain(h)
              \/ GiveUp(h)
  PROVE  IInv'
  <1>1. CASE Stop(h)
    <2>1. TypeOK'
      BY <1>1 DEF Stop, MainGoto, operations, IInv, TypeOK, Stopping
    <2>2. ChildInv'
      BY <1>1 DEF Stop, MainGoto, operations, IInv, TypeOK, ChildInv
    <2>3. GuardInv'
      BY <1>1 DEF Stop, MainGoto, operations, IInv, TypeOK, GuardInv,
           ReleaseInv, Idle, Registered, Stopping
    <2>4. ReleaseInv'
      BY <1>1 DEF Stop, MainGoto, operations, IInv, TypeOK, GuardInv,
           ReleaseInv, Idle, Registered, Stopping
    <2>5. KeeperInv'
      BY <1>1 DEF Stop, MainGoto, operations, IInv, TypeOK, GuardInv,
           ReleaseInv, KeeperInv, Keeping, LooksAgain, Idle, Registered,
           Stopping
    <2>. QED  BY <2>1, <2>2, <2>3, <2>4, <2>5 DEF IInv
  <1>2. CASE Joined(h)
    <2>1. TypeOK'
      BY <1>2 DEF Joined, MainGoto, operations, IInv, TypeOK, Stopping
    <2>2. ChildInv'
      BY <1>2 DEF Joined, MainGoto, operations, IInv, TypeOK, ChildInv
    <2>3. GuardInv'
      BY <1>2 DEF Joined, MainGoto, operations, IInv, TypeOK, GuardInv,
           ReleaseInv, Idle, Registered, Stopping
    <2>4. ReleaseInv'
      BY <1>2 DEF Joined, MainGoto, operations, IInv, TypeOK, GuardInv,
           ReleaseInv, Idle, Registered, Stopping
    <2>5. KeeperInv'
      BY <1>2 DEF Joined, MainGoto, operations, IInv, TypeOK, GuardInv,
           ReleaseInv, KeeperInv, Keeping, LooksAgain, Idle, Registered,
           Stopping
    <2>. QED  BY <2>1, <2>2, <2>3, <2>4, <2>5 DEF IInv
  <1>3. CASE WaitEnds(h)
    <2>1. TypeOK'
      BY <1>3 DEF WaitEnds, MainGoto, operations, IInv, TypeOK, Stopping
    <2>2. ChildInv'
      BY <1>3 DEF WaitEnds, MainGoto, operations, IInv, TypeOK, ChildInv
    <2>3. GuardInv'
      BY <1>3 DEF WaitEnds, MainGoto, operations, IInv, TypeOK, GuardInv,
           ReleaseInv, Idle, Registered, Stopping
    <2>4. ReleaseInv'
      BY <1>3 DEF WaitEnds, MainGoto, operations, IInv, TypeOK, GuardInv,
           ReleaseInv, Idle, Registered, Stopping
    <2>5. KeeperInv'
      BY <1>3 DEF WaitEnds, MainGoto, operations, IInv, TypeOK, GuardInv,
           ReleaseInv, KeeperInv, Keeping, LooksAgain, Idle, Registered,
           Stopping
    <2>. QED  BY <2>1, <2>2, <2>3, <2>4, <2>5 DEF IInv
  <1>4. CASE TimesOut(h)
    <2>1. TypeOK'
      BY <1>4 DEF TimesOut, MainGoto, operations, IInv, TypeOK, Stopping
    <2>2. ChildInv'
      BY <1>4 DEF TimesOut, MainGoto, operations, IInv, TypeOK, ChildInv
    <2>3. GuardInv'
      BY <1>4 DEF TimesOut, MainGoto, operations, IInv, TypeOK, GuardInv,
           ReleaseInv, Idle, Registered, Stopping
    <2>4. ReleaseInv'
      BY <1>4 DEF TimesOut, MainGoto, operations, IInv, TypeOK, GuardInv,
           ReleaseInv, Idle, Registered, Stopping
    <2>5. KeeperInv'
      BY <1>4 DEF TimesOut, MainGoto, operations, IInv, TypeOK, GuardInv,
           ReleaseInv, KeeperInv, Keeping, LooksAgain, Idle, Registered,
           Stopping
    <2>. QED  BY <2>1, <2>2, <2>3, <2>4, <2>5 DEF IInv
  <1>5. CASE Retain(h)
    <2>1. TypeOK'
      <3>1. main' \in [Hosts -> Stopping \cup {"off", "starting", "up",
                          "raised", "exited", "crashed"}]
        BY <1>5 DEF Retain, MainGoto, IInv, TypeOK
      <3>2. CASE waiter[h] = "none" /\ guard = h
        BY <1>5, <3>1, <3>2
           DEF Retain, WaiterGoto, operations, IInv, TypeOK
      <3>3. CASE ~(waiter[h] = "none" /\ guard = h)
        BY <1>5, <3>1, <3>3 DEF Retain, operations, IInv, TypeOK
      <3>. QED  BY <3>2, <3>3
    <2>2. ChildInv'
      BY <1>5 DEF Retain, MainGoto, WaiterGoto, operations, IInv, TypeOK,
           ChildInv
    <2>3. GuardInv'
      BY <1>5 DEF Retain, MainGoto, WaiterGoto, operations, IInv, TypeOK,
           GuardInv, ReleaseInv, Idle, Registered, Stopping
    <2>4. ReleaseInv'
      BY <1>5 DEF Retain, MainGoto, WaiterGoto, operations, IInv, TypeOK,
           GuardInv, ReleaseInv, Idle, Registered, Stopping
    <2>5. KeeperInv'
      BY <1>5 DEF Retain, MainGoto, WaiterGoto, operations, IInv, TypeOK,
           GuardInv, ReleaseInv, KeeperInv, Keeping, LooksAgain, Idle,
           Registered, Stopping
    <2>. QED  BY <2>1, <2>2, <2>3, <2>4, <2>5 DEF IInv
  <1>6. CASE GiveUp(h)
    <2>1. TypeOK'
      BY <1>6 DEF GiveUp, MainGoto, operations, IInv, TypeOK, Stopping
    <2>2. ChildInv'
      BY <1>6 DEF GiveUp, MainGoto, operations, IInv, TypeOK, ChildInv
    <2>3. GuardInv'
      BY <1>6 DEF GiveUp, MainGoto, operations, IInv, TypeOK, GuardInv,
           ReleaseInv, Idle, Registered, Stopping
    <2>4. ReleaseInv'
      BY <1>6 DEF GiveUp, MainGoto, operations, IInv, TypeOK, GuardInv,
           ReleaseInv, Idle, Registered, Stopping
    <2>5. KeeperInv'
      BY <1>6 DEF GiveUp, MainGoto, operations, IInv, TypeOK, GuardInv,
           ReleaseInv, KeeperInv, Keeping, LooksAgain, Idle, Registered,
           Stopping
    <2>. QED  BY <2>1, <2>2, <2>3, <2>4, <2>5 DEF IInv
  <1>. QED  BY <1>1, <1>2, <1>3, <1>4, <1>5, <1>6

\* The release of the guard, by either thread, preserves the invariant.
LEMMA ReleaseKeepsIInv ==
  ASSUME IInv, NEW h \in Hosts,
         MainReleases(h) \/ MainFrees(h) \/ WaiterJoined(h) \/
              WaiterIdle(h) \/ WaiterReleases(h) \/ WaiterFrees(h)
  PROVE  IInv'
  <1>1. CASE MainReleases(h)
    <2>1. TypeOK'
      BY <1>1 DEF MainReleases, MainGoto, LooksAgain, operations, IInv,
           TypeOK, Stopping
    <2>2. ChildInv'
      BY <1>1 DEF MainReleases, MainGoto, LooksAgain, operations, IInv,
           TypeOK, ChildInv
    <2>3. GuardInv'
      BY <1>1 DEF MainReleases, MainGoto, LooksAgain, operations, IInv,
           TypeOK, GuardInv, ReleaseInv, Idle, Registered, Stopping
    <2>4. ReleaseInv'
      BY <1>1 DEF MainReleases, MainGoto, LooksAgain, operations, IInv,
           TypeOK, GuardInv, ReleaseInv, Idle, Registered, Stopping
    <2>5. KeeperInv'
      BY <1>1 DEF MainReleases, MainGoto, operations, IInv, TypeOK, GuardInv,
           ReleaseInv, KeeperInv, Keeping, LooksAgain, Idle, Registered,
           Stopping
    <2>. QED  BY <2>1, <2>2, <2>3, <2>4, <2>5 DEF IInv
  <1>2. CASE MainFrees(h)
    <2>1. TypeOK'
      BY <1>2 DEF MainFrees, MainGoto, CloseHandle, operations, IInv, TypeOK,
           Stopping
    <2>2. ChildInv'
      BY <1>2 DEF MainFrees, MainGoto, CloseHandle, operations, IInv, TypeOK,
           ChildInv
    <2>3. GuardInv'
      BY <1>2 DEF MainFrees, MainGoto, CloseHandle, operations, IInv, TypeOK,
           GuardInv, ReleaseInv, Idle, Registered, Stopping
    <2>4. ReleaseInv'
      BY <1>2 DEF MainFrees, MainGoto, CloseHandle, operations, IInv, TypeOK,
           GuardInv, ReleaseInv, Idle, Registered, Stopping
    <2>5. KeeperInv'
      BY <1>2 DEF MainFrees, MainGoto, CloseHandle, operations, IInv, TypeOK,
           GuardInv, ReleaseInv, KeeperInv, Keeping, LooksAgain, Idle,
           Registered, Stopping
    <2>. QED  BY <2>1, <2>2, <2>3, <2>4, <2>5 DEF IInv
  <1>3. CASE WaiterJoined(h)
    <2>1. TypeOK'
      BY <1>3 DEF WaiterJoined, WaiterGoto, operations, IInv, TypeOK, Stopping
    <2>2. ChildInv'
      BY <1>3 DEF WaiterJoined, WaiterGoto, operations, IInv, TypeOK, ChildInv
    <2>3. GuardInv'
      BY <1>3 DEF WaiterJoined, WaiterGoto, operations, IInv, TypeOK,
           GuardInv, ReleaseInv, Idle, Registered, Stopping
    <2>4. ReleaseInv'
      BY <1>3 DEF WaiterJoined, WaiterGoto, operations, IInv, TypeOK,
           GuardInv, ReleaseInv, Idle, Registered, Stopping
    <2>5. KeeperInv'
      BY <1>3 DEF WaiterJoined, WaiterGoto, operations, IInv, TypeOK,
           GuardInv, ReleaseInv, KeeperInv, Keeping, LooksAgain, Idle,
           Registered, Stopping
    <2>. QED  BY <2>1, <2>2, <2>3, <2>4, <2>5 DEF IInv
  <1>4. CASE WaiterIdle(h)
    <2>1. TypeOK'
      BY <1>4 DEF WaiterIdle, WaiterGoto, operations, IInv, TypeOK, Stopping
    <2>2. ChildInv'
      BY <1>4 DEF WaiterIdle, WaiterGoto, operations, IInv, TypeOK, ChildInv
    <2>3. GuardInv'
      BY <1>4 DEF WaiterIdle, WaiterGoto, operations, IInv, TypeOK, GuardInv,
           ReleaseInv, Idle, Registered, Stopping
    <2>4. ReleaseInv'
      BY <1>4 DEF WaiterIdle, WaiterGoto, operations, IInv, TypeOK, GuardInv,
           ReleaseInv, Idle, Registered, Stopping
    <2>5. KeeperInv'
      BY <1>4 DEF WaiterIdle, WaiterGoto, operations, IInv, TypeOK, GuardInv,
           ReleaseInv, KeeperInv, Keeping, LooksAgain, Idle, Registered,
           Stopping
    <2>. QED  BY <2>1, <2>2, <2>3, <2>4, <2>5 DEF IInv
  <1>5. CASE WaiterReleases(h)
    <2>1. TypeOK'
      BY <1>5 DEF WaiterReleases, WaiterGoto, LooksAgain, operations, IInv,
           TypeOK, Stopping
    <2>2. ChildInv'
      BY <1>5 DEF WaiterReleases, WaiterGoto, LooksAgain, operations, IInv,
           TypeOK, ChildInv
    <2>3. GuardInv'
      BY <1>5 DEF WaiterReleases, WaiterGoto, LooksAgain, operations, IInv,
           TypeOK, GuardInv, ReleaseInv, Idle, Registered, Stopping
    <2>4. ReleaseInv'
      BY <1>5 DEF WaiterReleases, WaiterGoto, LooksAgain, operations, IInv,
           TypeOK, GuardInv, ReleaseInv, Idle, Registered, Stopping
    <2>5. KeeperInv'
      BY <1>5 DEF WaiterReleases, WaiterGoto, operations, IInv, TypeOK,
           GuardInv, ReleaseInv, KeeperInv, Keeping, LooksAgain, Idle,
           Registered, Stopping
    <2>. QED  BY <2>1, <2>2, <2>3, <2>4, <2>5 DEF IInv
  <1>6. CASE WaiterFrees(h)
    <2>1. TypeOK'
      BY <1>6 DEF WaiterFrees, WaiterGoto, CloseHandle, operations, IInv,
           TypeOK, Stopping
    <2>2. ChildInv'
      BY <1>6 DEF WaiterFrees, WaiterGoto, CloseHandle, operations, IInv,
           TypeOK, ChildInv
    <2>3. GuardInv'
      BY <1>6 DEF WaiterFrees, WaiterGoto, CloseHandle, operations, IInv,
           TypeOK, GuardInv, ReleaseInv, Idle, Registered, Stopping
    <2>4. ReleaseInv'
      BY <1>6 DEF WaiterFrees, WaiterGoto, CloseHandle, operations, IInv,
           TypeOK, GuardInv, ReleaseInv, Idle, Registered, Stopping
    <2>5. KeeperInv'
      BY <1>6 DEF WaiterFrees, WaiterGoto, CloseHandle, operations, IInv,
           TypeOK, GuardInv, ReleaseInv, KeeperInv, Keeping, LooksAgain, Idle,
           Registered, Stopping
    <2>. QED  BY <2>1, <2>2, <2>3, <2>4, <2>5 DEF IInv
  <1>. QED  BY <1>1, <1>2, <1>3, <1>4, <1>5, <1>6

\* The end of the HTTP thread and of the process preserves the invariant.
LEMMA ServerKeepsIInv ==
  ASSUME IInv, NEW h \in Hosts,
         LifespanEnds(h) \/ ServerFails(h) \/ Crash(h)
  PROVE  IInv'
  <1>1. CASE LifespanEnds(h)
    <2>1. TypeOK'
      BY <1>1 DEF LifespanEnds, operations, IInv, TypeOK, Stopping
    <2>2. ChildInv'
      BY <1>1 DEF LifespanEnds, operations, IInv, TypeOK, ChildInv
    <2>3. GuardInv'
      BY <1>1 DEF LifespanEnds, operations, IInv, TypeOK, GuardInv,
           ReleaseInv, Idle, Registered, Stopping
    <2>4. ReleaseInv'
      BY <1>1 DEF LifespanEnds, operations, IInv, TypeOK, GuardInv,
           ReleaseInv, Idle, Registered, Stopping
    <2>5. KeeperInv'
      BY <1>1 DEF LifespanEnds, operations, IInv, TypeOK, GuardInv,
           ReleaseInv, KeeperInv, Keeping, LooksAgain, Idle, Registered,
           Stopping
    <2>. QED  BY <2>1, <2>2, <2>3, <2>4, <2>5 DEF IInv
  <1>2. CASE ServerFails(h)
    <2>1. TypeOK'
      BY <1>2 DEF ServerFails, operations, IInv, TypeOK, Stopping
    <2>2. ChildInv'
      BY <1>2 DEF ServerFails, operations, IInv, TypeOK, ChildInv
    <2>3. GuardInv'
      BY <1>2 DEF ServerFails, operations, IInv, TypeOK, GuardInv, ReleaseInv,
           Idle, Registered, Stopping
    <2>4. ReleaseInv'
      BY <1>2 DEF ServerFails, operations, IInv, TypeOK, GuardInv, ReleaseInv,
           Idle, Registered, Stopping
    <2>5. KeeperInv'
      BY <1>2 DEF ServerFails, operations, IInv, TypeOK, GuardInv, ReleaseInv,
           KeeperInv, Keeping, LooksAgain, Idle, Registered, Stopping
    <2>. QED  BY <2>1, <2>2, <2>3, <2>4, <2>5 DEF IInv
  <1>3. CASE Crash(h)
    <2>1. TypeOK'
      BY <1>3 DEF Crash, MainGoto, WaiterGoto, CloseHandle, operations, IInv,
           TypeOK, Stopping
    <2>2. ChildInv'
      BY <1>3 DEF Crash, MainGoto, WaiterGoto, CloseHandle, operations, IInv,
           TypeOK, ChildInv
    <2>3. GuardInv'
      BY <1>3 DEF Crash, MainGoto, WaiterGoto, CloseHandle, operations, IInv,
           TypeOK, GuardInv, ReleaseInv, Idle, Registered, Stopping
    <2>4. ReleaseInv'
      BY <1>3 DEF Crash, MainGoto, WaiterGoto, CloseHandle, operations, IInv,
           TypeOK, GuardInv, ReleaseInv, Idle, Registered, Stopping
    <2>5. KeeperInv'
      BY <1>3 DEF Crash, MainGoto, WaiterGoto, CloseHandle, operations, IInv,
           TypeOK, GuardInv, ReleaseInv, KeeperInv, Keeping, LooksAgain, Idle,
           Registered, Stopping
    <2>. QED  BY <2>1, <2>2, <2>3, <2>4, <2>5 DEF IInv
  <1>. QED  BY <1>1, <1>2, <1>3

\* So does every step of a protected worker and of its child.
LEMMA WorkKeepsIInv ==
  ASSUME IInv, NEW h \in Hosts, NEW w \in Workers,
         Enter(h, w) \/ Spawn(h, w) \/ Own(h, w)
         \/ Exit(h, w) \/ ChildExits(h, w) \/ Reap(h, w)
  PROVE  IInv'
  <1>1. CASE Enter(h, w)
    <2>1. TypeOK'
      BY <1>1 DEF Enter, WorkerGoto, operations, IInv, TypeOK, Stopping
    <2>2. ChildInv'
      BY <1>1 DEF Enter, WorkerGoto, operations, IInv, TypeOK, ChildInv
    <2>3. GuardInv'
      BY <1>1 DEF Enter, WorkerGoto, operations, IInv, TypeOK, GuardInv,
           ReleaseInv, Idle, Registered, Stopping
    <2>4. ReleaseInv'
      BY <1>1 DEF Enter, WorkerGoto, operations, IInv, TypeOK, GuardInv,
           ReleaseInv, Idle, Registered, Stopping
    <2>5. KeeperInv'
      BY <1>1 DEF Enter, WorkerGoto, operations, IInv, TypeOK, GuardInv,
           ReleaseInv, KeeperInv, Keeping, LooksAgain, Idle, Registered,
           Stopping
    <2>. QED  BY <2>1, <2>2, <2>3, <2>4, <2>5 DEF IInv
  <1>2. CASE Spawn(h, w)
    <2>1. TypeOK'
      BY <1>2 DEF Spawn, WorkerGoto, operations, IInv, TypeOK, Stopping
    <2>2. ChildInv'
      BY <1>2 DEF Spawn, WorkerGoto, operations, IInv, TypeOK, ChildInv
    <2>3. GuardInv'
      BY <1>2 DEF Spawn, WorkerGoto, operations, IInv, TypeOK, GuardInv,
           ReleaseInv, Idle, Registered, Stopping
    <2>4. ReleaseInv'
      BY <1>2 DEF Spawn, WorkerGoto, operations, IInv, TypeOK, GuardInv,
           ReleaseInv, Idle, Registered, Stopping
    <2>5. KeeperInv'
      BY <1>2 DEF Spawn, WorkerGoto, operations, IInv, TypeOK, GuardInv,
           ReleaseInv, KeeperInv, Keeping, LooksAgain, Idle, Registered,
           Stopping
    <2>. QED  BY <2>1, <2>2, <2>3, <2>4, <2>5 DEF IInv
  <1>3. CASE Own(h, w)
    <2>1. TypeOK'
      BY <1>3 DEF Own, WorkerGoto, operations, IInv, TypeOK, Stopping
    <2>2. ChildInv'
      BY <1>3 DEF Own, WorkerGoto, operations, IInv, TypeOK, ChildInv
    <2>3. GuardInv'
      BY <1>3 DEF Own, WorkerGoto, operations, IInv, TypeOK, GuardInv,
           ReleaseInv, Idle, Registered, Stopping
    <2>4. ReleaseInv'
      BY <1>3 DEF Own, WorkerGoto, operations, IInv, TypeOK, GuardInv,
           ReleaseInv, Idle, Registered, Stopping
    <2>5. KeeperInv'
      BY <1>3 DEF Own, WorkerGoto, operations, IInv, TypeOK, GuardInv,
           ReleaseInv, KeeperInv, Keeping, LooksAgain, Idle, Registered,
           Stopping
    <2>. QED  BY <2>1, <2>2, <2>3, <2>4, <2>5 DEF IInv
  <1>4. CASE Exit(h, w)
    <2>1. TypeOK'
      BY <1>4 DEF Exit, WorkerGoto, operations, IInv, TypeOK, Stopping
    <2>2. ChildInv'
      BY <1>4 DEF Exit, WorkerGoto, operations, IInv, TypeOK, ChildInv
    <2>3. GuardInv'
      BY <1>4 DEF Exit, WorkerGoto, operations, IInv, TypeOK, GuardInv,
           ReleaseInv, Idle, Registered, Stopping
    <2>4. ReleaseInv'
      BY <1>4 DEF Exit, WorkerGoto, operations, IInv, TypeOK, GuardInv,
           ReleaseInv, Idle, Registered, Stopping
    <2>5. KeeperInv'
      BY <1>4 DEF Exit, WorkerGoto, operations, IInv, TypeOK, GuardInv,
           ReleaseInv, KeeperInv, Keeping, LooksAgain, Idle, Registered,
           Stopping
    <2>. QED  BY <2>1, <2>2, <2>3, <2>4, <2>5 DEF IInv
  <1>5. CASE ChildExits(h, w)
    <2>1. TypeOK'
      BY <1>5 DEF ChildExits, operations, IInv, TypeOK, Stopping
    <2>2. ChildInv'
      BY <1>5 DEF ChildExits, operations, IInv, TypeOK, ChildInv
    <2>3. GuardInv'
      BY <1>5 DEF ChildExits, operations, IInv, TypeOK, GuardInv, ReleaseInv,
           Idle, Registered, Stopping
    <2>4. ReleaseInv'
      BY <1>5 DEF ChildExits, operations, IInv, TypeOK, GuardInv, ReleaseInv,
           Idle, Registered, Stopping
    <2>5. KeeperInv'
      BY <1>5 DEF ChildExits, operations, IInv, TypeOK, GuardInv, ReleaseInv,
           KeeperInv, Keeping, LooksAgain, Idle, Registered, Stopping
    <2>. QED  BY <2>1, <2>2, <2>3, <2>4, <2>5 DEF IInv
  <1>6. CASE Reap(h, w)
    <2>1. TypeOK'
      BY <1>6 DEF Reap, operations, IInv, TypeOK, Stopping
    <2>2. ChildInv'
      BY <1>6 DEF Reap, operations, IInv, TypeOK, ChildInv
    <2>3. GuardInv'
      BY <1>6 DEF Reap, operations, IInv, TypeOK, GuardInv, ReleaseInv, Idle,
           Registered, Stopping
    <2>4. ReleaseInv'
      BY <1>6 DEF Reap, operations, IInv, TypeOK, GuardInv, ReleaseInv, Idle,
           Registered, Stopping
    <2>5. KeeperInv'
      BY <1>6 DEF Reap, operations, IInv, TypeOK, GuardInv, ReleaseInv,
           KeeperInv, Keeping, LooksAgain, Idle, Registered, Stopping
    <2>. QED  BY <2>1, <2>2, <2>3, <2>4, <2>5 DEF IInv
  <1>. QED  BY <1>1, <1>2, <1>3, <1>4, <1>5, <1>6

\* The invariant behind the guard holds in every reachable state.
THEOREM Invariance == Spec => []IInv
  <1>1. IInv /\ UNCHANGED vars => IInv'
    BY DEF vars, operations, TypeOK, ChildInv, GuardInv, ReleaseInv,
         KeeperInv, Keeping, LooksAgain, IInv, Idle, Registered, Stopping
  <1>2. IInv /\ Next => IInv'
    <2>. SUFFICES ASSUME IInv, NEW h \in Hosts,
                         \/ Starting(h) \/ Stop(h) \/ StopStep(h) \/ GiveUp(h)
                         \/ WaiterStep(h) \/ LifespanEnds(h)
                         \/ ServerFails(h) \/ Crash(h)
                         \/ \E w \in Workers :
                              \/ Enter(h, w) \/ Spawn(h, w) \/ WorkStep(h, w)
                              \/ ChildExits(h, w) \/ Reap(h, w)
                  PROVE  IInv'
      BY DEF Next
    <2>. QED
      BY StartKeepsIInv, StopKeepsIInv, ReleaseKeepsIInv, ServerKeepsIInv,
         WorkKeepsIInv DEF Starting, StopStep, WaiterStep, WorkStep
  <1>. QED  BY InitIInv, <1>1, <1>2, PTL DEF Spec

\* Another process stays blocked until this one's HTTP thread, protected
\* workers and children are over (DesktopHost, ProtectedOperations).
THEOREM InstancesExclude == Spec => []NoOverlap
  <1>1. ASSUME IInv, NEW h \in Hosts, Busy(h)
        PROVE  guard = h
    BY <1>1 DEF Busy, IInv, TypeOK, ChildInv, GuardInv, Idle, Registered
  <1>2. IInv => NoOverlap
    BY <1>1 DEF NoOverlap
  <1>. QED  BY Invariance, <1>2, PTL

\* The engine is disposed of only when no protected worker is left (lifespan,
\* _release_instance).
THEOREM DisposalWaits == Spec => []StorageOutlivesWork
  <1>1. IInv => StorageOutlivesWork
    BY DEF IInv, ReleaseInv, StorageOutlivesWork
  <1>. QED  BY Invariance, <1>1, PTL

\* The safety half of GuardIsReleased: whichever wait timed out and whatever
\* thread ended first, a process that holds the guard serves, is stopping in
\* its main thread, or has a waiter that will look for the end of its work
\* (_retain_guard); a guard nobody will ever release does not exist.
THEOREM GuardHasKeeper ==
    Spec => [](\A h \in Hosts : guard = h =>
                  \/ main[h] \in {"starting", "up"} \cup Stopping
                  \/ waiter[h] \in Keeping)
  <1>1. IInv => \A h \in Hosts : guard = h =>
                  \/ main[h] \in {"starting", "up"} \cup Stopping
                  \/ waiter[h] \in Keeping
    BY DEF IInv, KeeperInv
  <1>. QED  BY Invariance, <1>1, PTL

\* The second look of _release_instance never finds work: a thread that came
\* that far closes the handle.
THEOREM SecondLookIsIdle ==
    Spec => [](\A h \in Hosts :
                 main[h] = "releasing" \/ waiter[h] = "releasing" => LooksAgain(h))
  <1>1. IInv => \A h \in Hosts :
                  main[h] = "releasing" \/ waiter[h] = "releasing" => LooksAgain(h)
    BY DEF IInv, KeeperInv
  <1>. QED  BY Invariance, <1>1, PTL

-----------------------------------------------------------------------------
(* ProtectedShutdown implements InstanceContract *)

Stage == [h \in Hosts |-> StageOf(h)]
Working == {h \in Hosts : Busy(h)}

\* What a step of one process leaves alone.
OthersKeep(h) ==
    \A g \in Hosts \ {h} :
        /\ main'[g] = main[g] /\ http'[g] = http[g]
        /\ accepting'[g] = accepting[g]
        /\ worker'[g] = worker[g] /\ alive'[g] = alive[g]

\* The other processes are seen as before.
LEMMA OthersSeen ==
  ASSUME NEW h \in Hosts, OthersKeep(h)
  PROVE  \A g \in Hosts \ {h} :
            /\ StageOf(g)' = StageOf(g)
            /\ Busy(g)' <=> Busy(g)
  BY DEF OthersKeep, StageOf, Busy, Registered

\* A process whose stage and work are seen as before, or that is not seen to
\* work any more.
LEMMA StageKept ==
  ASSUME NEW h \in Hosts, OthersKeep(h), StageOf(h)' = StageOf(h)
  PROVE  UNCHANGED Stage
  BY OthersSeen DEF Stage

LEMMA StageTurns ==
  ASSUME NEW h \in Hosts, OthersKeep(h)
  PROVE  Stage' = [Stage EXCEPT ![h] = StageOf(h)']
  BY OthersSeen DEF Stage

LEMMA WorkingShrinks ==
  ASSUME NEW h \in Hosts, OthersKeep(h), Busy(h)' => Busy(h)
  PROVE  Working' \in {Working, Working \ {h}}
  <1>1. CASE Busy(h)' <=> Busy(h)
    BY <1>1, OthersSeen DEF Working
  <1>2. CASE Busy(h) /\ ~Busy(h)'
    <2>1. Working' = Working \ {h}
      BY <1>2, OthersSeen DEF Working
    <2>. QED  BY <2>1
  <1>. QED  BY <1>1, <1>2

LEMMA WorkingGrows ==
  ASSUME NEW h \in Hosts, OthersKeep(h), Busy(h)'
  PROVE  Working' = Working \cup {h}
  BY OthersSeen DEF Working

\* The guard is taken, or found taken.
LEMMA StartRefines ==
  ASSUME IInv, NEW h \in Hosts, Acquire(h) \/ AlreadyRunning(h)
  PROVE  Contract!Start(h) \/ Contract!TurnAway(h)
  <1>1. OthersKeep(h) /\ StageOf(h) = "new"
    BY DEF Acquire, AlreadyRunning, MainGoto, operations, IInv, TypeOK,
       OthersKeep, StageOf
  <1>2. guard # h /\ http[h] = "none"
    BY DEF Acquire, AlreadyRunning, IInv, TypeOK, KeeperInv, Keeping,
       ReleaseInv, Stopping
  <1>3. Busy(h)' <=> Busy(h)
    BY DEF Acquire, AlreadyRunning, MainGoto, operations, IInv, TypeOK, Busy,
       Registered
  <1>4. UNCHANGED Working
    BY <1>1, <1>3, OthersSeen DEF Working
  <1>5. CASE Acquire(h)
    <2>1. StageOf(h)' = "open"
      BY <1>2, <1>5 DEF Acquire, MainGoto, operations, IInv, TypeOK,
         KeeperInv, StageOf
    <2>2. Stage[h] = "new" /\ Stage' = [Stage EXCEPT ![h] = "open"]
      BY <1>1, <2>1, StageTurns DEF Stage
    <2>. QED
      BY <1>4, <1>5, <2>2 DEF Acquire, Stage, Working, Contract!Start,
         Contract!Turn
  <1>6. CASE AlreadyRunning(h)
    <2>1. StageOf(h)' = "closed"
      BY <1>6 DEF AlreadyRunning, MainGoto, IInv, TypeOK, StageOf
    <2>2. Stage[h] = "new" /\ Stage' = [Stage EXCEPT ![h] = "closed"]
      BY <1>1, <2>1, StageTurns DEF Stage
    <2>. QED
      BY <1>4, <1>6, <2>2 DEF AlreadyRunning, Stage, Working,
         Contract!TurnAway, Contract!Turn
  <1>. QED  BY <1>5, <1>6

\* The server starts or a worker enters: an open owner is at work.
LEMMA BeginRefines ==
  ASSUME IInv, NEW h \in Hosts, StartHttp(h) \/ \E w \in Workers : Enter(h, w)
  PROVE  Contract!Begin(h)
  <1>1. OthersKeep(h)
    BY DEF StartHttp, Enter, WorkerGoto, operations, IInv, TypeOK, OthersKeep
  <1>2. guard = h /\ main[h] \notin {"off", "crashed"} /\ accepting[h]
    BY DEF StartHttp, Enter, IInv, TypeOK, GuardInv, ReleaseInv, KeeperInv,
       Stopping
  <1>3. UNCHANGED <<guard, main, accepting>>
    BY DEF StartHttp, Enter, operations
  <1>4. StageOf(h) = "open" /\ StageOf(h)' = StageOf(h)
    BY <1>2, <1>3 DEF StageOf
  <1>5. Busy(h)'
    BY <1>2, <1>3 DEF StartHttp, Enter, WorkerGoto, IInv, TypeOK, Busy,
       Registered
  <1>6. Stage[h] = "open" /\ UNCHANGED Stage /\ Working' = Working \cup {h}
    BY <1>1, <1>4, <1>5, StageKept, WorkingGrows DEF Stage
  <1>. QED
    BY <1>2, <1>3, <1>6 DEF Stage, Working, Contract!Begin

\* Steps of the server, the workers and the children that begin no work.
LEMMA RestRefines ==
  ASSUME IInv, NEW h \in Hosts,
         \/ ServerFails(h)
         \/ \E w \in Workers :
              Spawn(h, w) \/ Own(h, w) \/ Exit(h, w) \/ ChildExits(h, w) \/ Reap(h, w)
  PROVE  Contract!Rest(h) \/ UNCHANGED Contract!contract
  <1>1. OthersKeep(h) /\ UNCHANGED <<guard, main, accepting>>
    BY DEF ServerFails, Spawn, Own, Exit, ChildExits, Reap, WorkerGoto,
       operations, IInv, TypeOK, OthersKeep
  <1>2. StageOf(h)' = StageOf(h)
    BY <1>1 DEF StageOf
  <1>3. Busy(h)' => Busy(h)
    BY DEF ServerFails, Spawn, Own, Exit, ChildExits, Reap, WorkerGoto,
       operations, IInv, TypeOK, Busy, Registered
  <1>4. UNCHANGED Stage /\ Working' \in {Working, Working \ {h}}
    BY <1>1, <1>2, <1>3, StageKept, WorkingShrinks
  <1>. QED
    BY <1>1, <1>4 DEF Stage, Working, Contract!Rest, Contract!contract

\* Admission closes: stop(), or the end of the lifespan.
LEMMA CloseRefines ==
  ASSUME IInv, NEW h \in Hosts, Stop(h) \/ LifespanEnds(h)
  PROVE  \/ Contract!Close(h) \/ Contract!Rest(h)
         \/ UNCHANGED Contract!contract
  <1>1. OthersKeep(h) /\ UNCHANGED guard
    BY DEF Stop, LifespanEnds, MainGoto, IInv, TypeOK, OthersKeep
  <1>2. main[h] \notin {"off", "crashed"} \/ (main[h] = "crashed" /\ UNCHANGED main)
    BY DEF Stop, LifespanEnds, IInv, TypeOK, ReleaseInv
  <1>3. Busy(h)' => Busy(h)
    BY DEF Stop, LifespanEnds, MainGoto, IInv, TypeOK, Busy, Registered
  <1>4. Working' \in {Working, Working \ {h}}
    BY <1>1, <1>3, WorkingShrinks
  <1>5. \/ StageOf(h)' = StageOf(h)
        \/ StageOf(h) = "open" /\ StageOf(h)' = "closed"
    BY <1>2 DEF Stop, LifespanEnds, MainGoto, IInv, TypeOK, StageOf
  <1>6. CASE StageOf(h)' = StageOf(h)
    <2>1. UNCHANGED Stage
      BY <1>1, <1>6, StageKept
    <2>. QED
      BY <1>1, <1>4, <2>1 DEF Stage, Working, Contract!Rest, Contract!contract
  <1>7. CASE StageOf(h) = "open" /\ StageOf(h)' = "closed"
    <2>1. Stage[h] = "open" /\ Stage' = [Stage EXCEPT ![h] = "closed"]
      BY <1>1, <1>7, StageTurns DEF Stage
    <2>. QED
      BY <1>1, <1>4, <2>1 DEF Stage, Working, Contract!Close, Contract!Turn
  <1>. QED  BY <1>5, <1>6, <1>7

\* The waits of both threads are not seen.
LEMMA WaitsStutter ==
  ASSUME IInv, NEW h \in Hosts,
         \/ Healthy(h) \/ Joined(h) \/ WaitEnds(h) \/ TimesOut(h) \/ Retain(h)
         \/ GiveUp(h) \/ MainReleases(h) \/ WaiterJoined(h) \/ WaiterIdle(h)
         \/ WaiterReleases(h)
  PROVE  UNCHANGED Contract!contract
  <1>1. /\ OthersKeep(h)
        /\ UNCHANGED <<guard, http, accepting, worker, alive>>
    BY DEF Healthy, Joined, WaitEnds, TimesOut, Retain, GiveUp, MainReleases,
       WaiterJoined, WaiterIdle, WaiterReleases, MainGoto, operations, IInv,
       TypeOK, OthersKeep
  <1>2. \/ main'[h] = main[h]
        \/ main[h] \notin {"off", "crashed"} /\ main'[h] \notin {"off", "crashed"}
    BY DEF Healthy, Joined, WaitEnds, TimesOut, Retain, GiveUp, MainReleases,
       WaiterJoined, WaiterIdle, WaiterReleases, MainGoto, IInv, TypeOK
  <1>3. StageOf(h)' = StageOf(h) /\ (Busy(h)' <=> Busy(h))
    BY <1>1, <1>2 DEF StageOf, Busy, Registered
  <1>4. UNCHANGED Stage /\ UNCHANGED Working
    BY <1>1, <1>3, StageKept, OthersSeen DEF Working
  <1>. QED
    BY <1>1, <1>4 DEF Stage, Working, Contract!contract

\* Closing the handle releases the guard of a process that is closed and idle.
LEMMA FreeRefines ==
  ASSUME IInv, NEW h \in Hosts, MainFrees(h) \/ WaiterFrees(h)
  PROVE  Contract!Release(h) \/ UNCHANGED Contract!contract
  <1>1. /\ OthersKeep(h)
        /\ UNCHANGED <<http, accepting, worker, alive>>
    BY DEF MainFrees, WaiterFrees, MainGoto, operations, IInv, TypeOK,
       OthersKeep
  <1>2. \/ main'[h] = main[h]
        \/ main[h] \notin {"off", "crashed"} /\ main'[h] \notin {"off", "crashed"}
    BY DEF MainFrees, WaiterFrees, MainGoto, IInv, TypeOK
  <1>3. StageOf(h)' = StageOf(h) /\ (Busy(h)' <=> Busy(h))
    BY <1>1, <1>2 DEF StageOf, Busy, Registered
  <1>4. UNCHANGED Stage /\ UNCHANGED Working
    BY <1>1, <1>3, StageKept, OthersSeen DEF Working
  <1>5. CASE guard # h
    BY <1>4, <1>5 DEF MainFrees, WaiterFrees, CloseHandle, Stage, Working,
       Contract!contract
  <1>6. CASE guard = h
    <2>1. main[h] # "off" /\ ~accepting[h] /\ http[h] # "running" /\ Idle(h)
      BY DEF MainFrees, WaiterFrees, IInv, ReleaseInv, Stopping
    <2>2. ~Busy(h)
      BY <2>1 DEF Busy, Idle, Registered, IInv, TypeOK, ChildInv
    <2>3. main[h] # "crashed"
      BY <1>6 DEF MainFrees, WaiterFrees, IInv, TypeOK, ReleaseInv, KeeperInv, Stopping
    <2>4. Stage[h] = "closed"
      BY <2>1, <2>3 DEF Stage, StageOf
    <2>5. guard' = NoHost
      BY <1>6 DEF MainFrees, WaiterFrees, CloseHandle
    <2>. QED
      BY <1>4, <1>6, <2>2, <2>4, <2>5 DEF Stage, Working, Contract!Release
  <1>. QED  BY <1>5, <1>6

\* A killed process.
LEMMA CrashRefines ==
  ASSUME IInv, NEW h \in Hosts, Crash(h)
  PROVE  Contract!Die(h)
  <1>1. OthersKeep(h)
    BY DEF Crash, MainGoto, IInv, TypeOK, OthersKeep
  <1>2. main'[h] = "crashed" /\ ~Busy(h)'
    BY DEF Crash, MainGoto, IInv, TypeOK, Busy
  <1>3. StageOf(h) \in {"open", "closed"} /\ StageOf(h)' = "dead"
    BY <1>2 DEF Crash, StageOf
  <1>4. Stage[h] \in {"open", "closed"} /\ Stage' = [Stage EXCEPT ![h] = "dead"]
    BY <1>1, <1>3, StageTurns DEF Stage
  <1>5. Working' = Working \ {h}
    BY <1>1, <1>2, OthersSeen DEF Working
  <1>. QED
    BY <1>4, <1>5 DEF Crash, CloseHandle, Stage, Working, Contract!Die

\* Every step is one the contract allows.
LEMMA NextRefines ==
  ASSUME IInv, [Next]_vars
  PROVE  [Contract!ContractNext]_(Contract!contract)
  <1>1. CASE UNCHANGED vars
    BY <1>1 DEF vars, operations, StageOf, Busy, Registered, Contract!contract
  <1>2. CASE Next
    <2>. SUFFICES ASSUME NEW h \in Hosts,
                         \/ Starting(h) \/ Stop(h) \/ StopStep(h) \/ GiveUp(h)
                         \/ WaiterStep(h) \/ LifespanEnds(h)
                         \/ ServerFails(h) \/ Crash(h)
                         \/ \E w \in Workers :
                              \/ Enter(h, w) \/ Spawn(h, w) \/ WorkStep(h, w)
                              \/ ChildExits(h, w) \/ Reap(h, w)
                  PROVE  [Contract!ContractNext]_(Contract!contract)
      BY <1>2 DEF Next
    <2>. QED
      BY StartRefines, BeginRefines, RestRefines, CloseRefines, WaitsStutter,
         FreeRefines, CrashRefines
         DEF Starting, StopStep, WaiterStep, WorkStep, Contract!ContractNext
  <1>. QED  BY <1>1, <1>2

\* Before any process starts, the guard is free.
LEMMA InitRefines == Init => Contract!ContractInit
  BY DEF Init, StageOf, Busy, Registered, Contract!ContractInit

\* What desktop.py, operations.py and the lifespan do with their threads keeps
\* the promises of one guard, for any number of processes and workers.
THEOREM Refinement == Spec => ImplementsContract
  <1>1. IInv /\ [Next]_vars => [Contract!ContractNext]_(Contract!contract)
    BY NextRefines
  <1>. QED
    BY InitRefines, <1>1, Invariance, PTL
       DEF Spec, ImplementsContract, Contract!ContractSpec
=============================================================================
