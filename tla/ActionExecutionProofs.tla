----------------------- MODULE ActionExecutionProofs -----------------------
(* Theorems about ActionExecution, for all sets of sessions, proposals and   *)
(* threads, all expiry times and all bounds.  The invariant IInv is shown    *)
(* inductive with one lemma per kind of step; the properties follow from it. *)
EXTENDS ActionExecution, TLAPS

-----------------------------------------------------------------------------
(* The inductive invariant *)

\* The initial state satisfies the inductive invariant.
LEMMA InitIInv == Init => IInv
<1> SUFFICES ASSUME Init PROVE IInv
  OBVIOUS
<1>1. TypeOK
  BY DEF Init, TypeOK, Pcs
<1>2. JobInv /\ HolderInv /\ ProgressInv /\ StopInv
  BY ActorAssumption DEF Init, JobInv, Running, HolderInv, ProgressInv, StopInv,
      InFence, PastGrant
<1>3. RecordInv /\ ExpiryInv
  BY DEF Init, RecordInv, ExpiryInv, TerminalStatus, DispatchStatus
<1> QED
  BY <1>1, <1>2, <1>3 DEF IInv

\* An expiry computed from expiries and a duration is a time.
LEMMA DecisionExpiryBound ==
  ASSUME TypeOK, NEW p \in Proposals
  PROVE  /\ DecisionExpiry(p) \in Nat
         /\ DecisionExpiry(p) <= SessionExpiry[SessionOf[p]]
         /\ DecisionExpiry(p) <= TargetExpiry[SessionOf[p]]
  BY SessionOfAssumption, ExpiryAssumption, BoundAssumption
    DEF TypeOK, DecisionExpiry, Lesser

\* A failed write is remembered.
LEMMA FaultHarms ==
  ASSUME TypeOK, Fault
  PROVE  ~Unharmed'
<1>1. /\ count.faults \in Nat /\ count.crashes \in Nat
      /\ count'.faults = count.faults + 1 /\ count'.crashes = count.crashes
  BY DEF TypeOK, Fault
<1> QED
  BY <1>1 DEF Unharmed

\* A request for the fence harms nothing.
LEMMA TakeFenceHarmless ==
  ASSUME TypeOK, NEW o \in Operators, NEW label, TakeFence(o, label)
  PROVE  Unharmed' <=> Unharmed
  BY DEF TypeOK, TakeFence, Unharmed

\* Time passes.
LEMMA TickStep ==
  ASSUME IInv, Tick
  PROVE  IInv'
<1>1. TypeOK'
  BY DEF IInv, TypeOK, Tick, db, approval, fence, threads, handlers
<1>2. JobInv' /\ HolderInv' /\ ProgressInv' /\ RecordInv' /\ StopInv' /\ ExpiryInv'
  BY DEF IInv, JobInv, Unharmed, HolderInv, ProgressInv, RecordInv, StopInv, ExpiryInv,
      Running, InFence, PastGrant, Tick, db, approval, fence, threads
<1> QED
  BY <1>1, <1>2 DEF IInv

\* Requests that have not committed end.
LEMMA AbandonStep ==
  ASSUME IInv, Abandon
  PROVE  IInv'
<1>1. TypeOK'
  BY DEF IInv, TypeOK, Abandon, db, approval, fence, threads
<1>2. JobInv' /\ HolderInv' /\ ProgressInv' /\ RecordInv' /\ StopInv' /\ ExpiryInv'
  BY DEF IInv, JobInv, Unharmed, HolderInv, ProgressInv, RecordInv, StopInv, ExpiryInv,
      Running, InFence, PastGrant, Abandon, db, approval, fence, threads
<1> QED
  BY <1>1, <1>2 DEF IInv

\* The session routes touch the session, its target and their own requests.
LEMMA SessionStepLeaves ==
  ASSUME NEW s \in Sessions, SessionStep(s)
  PROVE  UNCHANGED <<now, approval, action, stopActive, fence, threads, opc,
                     kali, granted, count>>
  BY DEF SessionStep, Register, ExpireInTransaction, BeginClose, CommitClose,
      CommitBlindClose, BeginExpire, CommitExpire, db

\* A session gets its target, is closed or expires.
LEMMA SessionStepKeeps ==
  ASSUME IInv, NEW s \in Sessions, SessionStep(s)
  PROVE  IInv'
<1>1. TypeOK'
  <2>1. session' \in [Sessions -> {"preparing", "ready", "completed", "expired"}]
    BY DEF IInv, TypeOK, SessionStep, Register, ExpireInTransaction, BeginClose,
        CommitClose, CommitBlindClose, BeginExpire, CommitExpire, db
  <2>2. targetLocked' \in [Sessions -> BOOLEAN]
    BY DEF IInv, TypeOK, SessionStep, Register, ExpireInTransaction, BeginClose,
        CommitClose, CommitBlindClose, BeginExpire, CommitExpire, db
  <2>3. /\ closing' \in SUBSET Sessions /\ blind' \in SUBSET Sessions
        /\ expiring' \in SUBSET Sessions
    BY DEF IInv, TypeOK, SessionStep, Register, ExpireInTransaction, BeginClose,
        CommitClose, CommitBlindClose, BeginExpire, CommitExpire, handlers,
        OneLess
  <2> QED
    BY <2>1, <2>2, <2>3, SessionStepLeaves
      DEF IInv, TypeOK, approval, fence, threads
<1>2. JobInv' /\ HolderInv' /\ ProgressInv' /\ RecordInv' /\ StopInv' /\ ExpiryInv'
  BY SessionStepLeaves DEF IInv, JobInv, Unharmed, HolderInv, ProgressInv, RecordInv,
      StopInv, ExpiryInv, Running, InFence, PastGrant, approval, fence, threads
<1> QED
  BY <1>1, <1>2 DEF IInv

\* The user approves.
LEMMA ApproveStep ==
  ASSUME IInv, NEW p \in Proposals, Approve(p)
  PROVE  IInv'
<1>1. TypeOK'
  BY DecisionExpiryBound DEF IInv, TypeOK, Approve, Record, fence, threads,
      handlers
<1>2. RecordInv'
  BY DEF IInv, RecordInv, TypeOK, Approve, Record
<1>3. ExpiryInv'
  BY DecisionExpiryBound DEF IInv, ExpiryInv, TypeOK, Approve, Record
<1>4. JobInv' /\ HolderInv' /\ ProgressInv' /\ StopInv'
  BY DEF IInv, JobInv, Unharmed, HolderInv, ProgressInv, StopInv, Running, InFence,
      PastGrant, Approve, fence, threads
<1> QED
  BY <1>1, <1>2, <1>3, <1>4 DEF IInv

\* The user rejects.
LEMMA RejectStep ==
  ASSUME IInv, NEW p \in Proposals, Reject(p)
  PROVE  IInv'
<1>1. TypeOK'
  BY DecisionExpiryBound DEF IInv, TypeOK, Reject, Record, fence, threads,
      handlers
<1>2. RecordInv'
  BY DEF IInv, RecordInv, TypeOK, Reject, Record
<1>3. ExpiryInv'
  BY DecisionExpiryBound DEF IInv, ExpiryInv, TypeOK, Reject, Record
<1>4. JobInv' /\ HolderInv' /\ ProgressInv' /\ StopInv'
  BY DEF IInv, JobInv, Unharmed, HolderInv, ProgressInv, StopInv, Running, InFence,
      PastGrant, Reject, fence, threads
<1> QED
  BY <1>1, <1>2, <1>3, <1>4 DEF IInv

\* The claim consumes an approval.
LEMMA ClaimStep ==
  ASSUME IInv, NEW w \in Workers, NEW p \in Proposals, Claim(w, p)
  PROVE  IInv'
<1>1. TypeOK'
  BY DEF IInv, TypeOK, Claim, Goto, Pcs, fence, handlers
<1>2. JobInv'
  BY ActorAssumption DEF IInv, JobInv, Unharmed, TypeOK, Running, Claim, Goto
<1>3. HolderInv'
  BY DEF IInv, HolderInv, TypeOK, InFence, Claim, Goto, fence
<1>4. ProgressInv'
  BY ActorAssumption DEF IInv, ProgressInv, TypeOK, JobInv, Unharmed, RecordInv,
      InFence, PastGrant, Running, Claim, Goto
<1>5. RecordInv'
  BY DEF IInv, RecordInv, TypeOK, Claim, Goto, ApprovalValid, TerminalStatus,
      DispatchStatus
<1>6. StopInv'
  BY DEF IInv, StopInv, TypeOK, InFence, Claim, Goto, fence
<1>7. ExpiryInv'
  BY DEF IInv, ExpiryInv, Claim
<1> QED
  BY <1>1, <1>2, <1>3, <1>4, <1>5, <1>6, <1>7 DEF IInv

\* A worker takes the fence, or finds it stopped.
LEMMA EnterFenceStep ==
  ASSUME IInv, NEW w \in Workers, EnterFence(w)
  PROVE  IInv'
<1>1. TypeOK'
  BY DEF IInv, TypeOK, EnterFence, Conclude, Goto, Pcs, InFence,
      TerminalStatus, db, approval, handlers
<1>2. JobInv'
  BY DEF IInv, JobInv, Unharmed, TypeOK, Running, EnterFence, Conclude, Goto, InFence,
      db
<1>3. HolderInv'
  BY ActorAssumption DEF IInv, HolderInv, TypeOK, InFence, EnterFence,
      Conclude, Goto
<1>4. ProgressInv'
  BY DEF IInv, ProgressInv, TypeOK, JobInv, Unharmed, InFence, PastGrant, Running,
      EnterFence, Conclude, Goto, TerminalStatus
<1>5. StopInv'
  BY ActorAssumption DEF IInv, StopInv, TypeOK, HolderInv, InFence,
      EnterFence, Conclude, Goto, db
<1>6. RecordInv' /\ ExpiryInv'
  BY DEF IInv, RecordInv, ExpiryInv, EnterFence, db, approval
<1> QED
  BY <1>1, <1>2, <1>3, <1>4, <1>5, <1>6 DEF IInv

\* The stop row is read.
LEMMA CheckStopStep ==
  ASSUME IInv, NEW w \in Workers, CheckStop(w)
  PROVE  IInv'
<1>1. TypeOK'
  BY DEF IInv, TypeOK, CheckStop, Check, Conclude, Goto, Pcs, InFence,
      TerminalStatus, db, approval, handlers
<1>2. JobInv'
  BY DEF IInv, JobInv, Unharmed, TypeOK, Running, CheckStop, Check, Conclude, Goto,
      InFence, db
<1>3. HolderInv'
  BY ActorAssumption DEF IInv, HolderInv, TypeOK, InFence, CheckStop, Check,
      Conclude, Goto
<1>4. ProgressInv'
  BY DEF IInv, ProgressInv, TypeOK, JobInv, Unharmed, InFence, PastGrant, Running,
      CheckStop, Check, Conclude, Goto, TerminalStatus
<1>5. StopInv'
  BY ActorAssumption DEF IInv, StopInv, TypeOK, HolderInv, InFence,
      CheckStop, Check, Conclude, Goto, db
<1>6. RecordInv' /\ ExpiryInv'
  BY DEF IInv, RecordInv, ExpiryInv, CheckStop, db, approval
<1> QED
  BY <1>1, <1>2, <1>3, <1>4, <1>5, <1>6 DEF IInv

\* The session row is read.
LEMMA CheckSessionStep ==
  ASSUME IInv, NEW w \in Workers, CheckSession(w)
  PROVE  IInv'
<1>1. TypeOK'
  BY DEF IInv, TypeOK, CheckSession, Check, Conclude, Goto, Pcs, InFence,
      TerminalStatus, db, approval, handlers
<1>2. JobInv'
  BY DEF IInv, JobInv, Unharmed, TypeOK, Running, CheckSession, Check, Conclude, Goto,
      InFence, db
<1>3. HolderInv'
  BY ActorAssumption DEF IInv, HolderInv, TypeOK, InFence, CheckSession,
      Check, Conclude, Goto
<1>4. ProgressInv'
  BY DEF IInv, ProgressInv, TypeOK, JobInv, Unharmed, InFence, PastGrant, Running,
      CheckSession, Check, Conclude, Goto, TerminalStatus
<1>5. StopInv'
  BY ActorAssumption DEF IInv, StopInv, TypeOK, HolderInv, InFence,
      CheckSession, Check, Conclude, Goto, db
<1>6. RecordInv' /\ ExpiryInv'
  BY DEF IInv, RecordInv, ExpiryInv, CheckSession, db, approval
<1> QED
  BY <1>1, <1>2, <1>3, <1>4, <1>5, <1>6 DEF IInv

\* An overdue session is written.
LEMMA MarkExpiredStep ==
  ASSUME IInv, NEW w \in Workers, MarkExpired(w)
  PROVE  IInv'
<1>1. TypeOK'
  BY DEF IInv, TypeOK, MarkExpired, Check, Conclude, Goto, Pcs, InFence,
      TerminalStatus, db, approval, handlers
<1>2. JobInv'
  BY DEF IInv, JobInv, Unharmed, TypeOK, Running, MarkExpired, Check, Conclude, Goto,
      InFence, db
<1>3. HolderInv'
  BY ActorAssumption DEF IInv, HolderInv, TypeOK, InFence, MarkExpired,
      Check, Conclude, Goto
<1>4. ProgressInv'
  BY DEF IInv, ProgressInv, TypeOK, JobInv, Unharmed, InFence, PastGrant, Running,
      MarkExpired, Check, Conclude, Goto, TerminalStatus
<1>5. StopInv'
  BY ActorAssumption DEF IInv, StopInv, TypeOK, HolderInv, InFence,
      MarkExpired, Check, Conclude, Goto, db
<1>6. RecordInv' /\ ExpiryInv'
  BY DEF IInv, RecordInv, ExpiryInv, MarkExpired, approval
<1> QED
  BY <1>1, <1>2, <1>3, <1>4, <1>5, <1>6 DEF IInv

\* The target row is read.
LEMMA CheckTargetStep ==
  ASSUME IInv, NEW w \in Workers, CheckTarget(w)
  PROVE  IInv'
<1>1. TypeOK'
  BY DEF IInv, TypeOK, CheckTarget, Check, Conclude, Goto, Pcs, InFence,
      TerminalStatus, db, approval, handlers
<1>2. JobInv'
  BY DEF IInv, JobInv, Unharmed, TypeOK, Running, CheckTarget, Check, Conclude, Goto,
      InFence, db
<1>3. HolderInv'
  BY ActorAssumption DEF IInv, HolderInv, TypeOK, InFence, CheckTarget,
      Check, Conclude, Goto
<1>4. ProgressInv'
  BY DEF IInv, ProgressInv, TypeOK, JobInv, Unharmed, InFence, PastGrant, Running,
      CheckTarget, Check, Conclude, Goto, TerminalStatus
<1>5. StopInv'
  BY ActorAssumption DEF IInv, StopInv, TypeOK, HolderInv, InFence,
      CheckTarget, Check, Conclude, Goto, db
<1>6. RecordInv' /\ ExpiryInv'
  BY DEF IInv, RecordInv, ExpiryInv, CheckTarget, db, approval
<1> QED
  BY <1>1, <1>2, <1>3, <1>4, <1>5, <1>6 DEF IInv

\* The action and its approval are read; the start is granted.
LEMMA CheckApprovalStep ==
  ASSUME IInv, NEW w \in Workers, CheckApproval(w)
  PROVE  IInv'
<1>1. TypeOK'
  BY DEF IInv, TypeOK, JobInv, Unharmed, Running, CheckApproval, Conclude, Goto, Pcs,
      InFence, TerminalStatus, db, approval, handlers
<1>2. JobInv'
  BY DEF IInv, JobInv, Unharmed, TypeOK, Running, CheckApproval, Conclude, Goto, db
<1>3. HolderInv'
  BY ActorAssumption DEF IInv, HolderInv, TypeOK, InFence, CheckApproval,
      Conclude, Goto
<1>4. ProgressInv'
  BY DEF IInv, ProgressInv, TypeOK, JobInv, Unharmed, RecordInv, InFence, PastGrant,
      Running, CheckApproval, Conclude, Goto, TerminalStatus
<1>5. RecordInv'
  BY DEF IInv, RecordInv, TypeOK, JobInv, Unharmed, Running, CheckApproval, Conclude,
      Goto, db, approval, TerminalStatus, DispatchStatus
<1>6. StopInv'
  BY DEF IInv, StopInv, TypeOK, InFence, CheckApproval, Conclude, Goto, db
<1>7. ExpiryInv'
  BY DEF IInv, ExpiryInv, CheckApproval, db, approval
<1> QED
  BY <1>1, <1>2, <1>3, <1>4, <1>5, <1>6, <1>7 DEF IInv

\* The action is sent to Kali.
LEMMA DispatchStep ==
  ASSUME IInv, NEW w \in Workers, Dispatch(w)
  PROVE  IInv'
<1>1. TypeOK'
  BY DEF IInv, TypeOK, JobInv, Unharmed, Running, Dispatch, Goto, Pcs, db, approval,
      fence, handlers
<1>2. JobInv'
  BY DEF IInv, JobInv, Unharmed, TypeOK, Running, Dispatch, Goto, db
<1>3. HolderInv'
  BY DEF IInv, HolderInv, TypeOK, InFence, Dispatch, Goto, fence
<1>4. ProgressInv'
  BY DEF IInv, ProgressInv, TypeOK, JobInv, Unharmed, InFence, PastGrant, Running,
      Dispatch, Goto
<1>5. RecordInv'
  BY DEF IInv, RecordInv, TypeOK, JobInv, Unharmed, ProgressInv, Running, InFence,
      PastGrant, Dispatch, Goto, db, approval, TerminalStatus, DispatchStatus
<1>6. StopInv'
  BY DEF IInv, StopInv, TypeOK, InFence, Dispatch, Goto, db, fence
<1>7. ExpiryInv'
  BY DEF IInv, ExpiryInv, Dispatch, db, approval
<1> QED
  BY <1>1, <1>2, <1>3, <1>4, <1>5, <1>6, <1>7 DEF IInv

\* There is no dispatcher.
LEMMA NoDispatcherStep ==
  ASSUME IInv, NEW w \in Workers, NoDispatcher(w)
  PROVE  IInv'
<1>1. TypeOK'
  BY DEF IInv, TypeOK, NoDispatcher, Conclude, Goto, Pcs, TerminalStatus,
      DispatchStatus, db, approval, fence, handlers
<1>2. JobInv'
  BY DEF IInv, JobInv, Unharmed, TypeOK, Running, NoDispatcher, Conclude, Goto, db
<1>3. HolderInv'
  BY DEF IInv, HolderInv, TypeOK, InFence, NoDispatcher, Conclude, Goto,
      fence
<1>4. ProgressInv'
  BY DEF IInv, ProgressInv, TypeOK, JobInv, Unharmed, InFence, PastGrant, Running,
      NoDispatcher, Conclude, Goto, TerminalStatus, DispatchStatus
<1>5. StopInv'
  BY DEF IInv, StopInv, TypeOK, InFence, NoDispatcher, Conclude, Goto, db,
      fence
<1>6. RecordInv' /\ ExpiryInv'
  BY DEF IInv, RecordInv, ExpiryInv, NoDispatcher, db, approval
<1> QED
  BY <1>1, <1>2, <1>3, <1>4, <1>5, <1>6 DEF IInv

\* The dispatcher returns or raises.
LEMMA DispatchReturnsStep ==
  ASSUME IInv, NEW w \in Workers, NEW st \in DispatchStatus, DispatchReturns(w, st)
  PROVE  IInv'
<1>1. TypeOK'
  BY DEF IInv, TypeOK, DispatchReturns, Conclude, Goto, Pcs, TerminalStatus,
      DispatchStatus, db, approval, fence, handlers
<1>2. JobInv'
  BY DEF IInv, JobInv, Unharmed, TypeOK, Running, DispatchReturns, Conclude, Goto, db
<1>3. HolderInv'
  BY DEF IInv, HolderInv, TypeOK, InFence, DispatchReturns, Conclude, Goto,
      fence
<1>4. ProgressInv'
  BY DEF IInv, ProgressInv, TypeOK, JobInv, Unharmed, InFence, PastGrant, Running,
      DispatchReturns, Conclude, Goto, TerminalStatus, DispatchStatus
<1>5. StopInv'
  BY DEF IInv, StopInv, TypeOK, InFence, DispatchReturns, Conclude, Goto, db,
      fence
<1>6. RecordInv' /\ ExpiryInv'
  BY DEF IInv, RecordInv, ExpiryInv, DispatchReturns, db, approval
<1> QED
  BY <1>1, <1>2, <1>3, <1>4, <1>5, <1>6 DEF IInv

\* The result is stored.
LEMMA PersistResultStep ==
  ASSUME IInv, NEW w \in Workers, PersistResult(w)
  PROVE  IInv'
<1>1. TypeOK'
  BY DEF IInv, TypeOK, ProgressInv, InFence, PastGrant, PersistResult, Leave,
      Goto, Pcs, approval, fence, handlers
<1>2. JobInv'
  <2>1. job[w] \in Proposals /\ action'[job[w]] # "running"
    BY DEF IInv, JobInv, TypeOK, ProgressInv, Running, PersistResult,
        TerminalStatus
  <2>2. /\ \A v \in Workers : Running(v)' => Running(v) /\ v # w
        /\ \A v \in Workers \ {w} : job'[v] = job[v] /\ (Running(v)' <=> Running(v))
        /\ \A p \in Proposals \ {job[w]} : action'[p] = action[p]
    BY DEF IInv, TypeOK, Running, PersistResult, Leave, Goto
  <2>3. Unharmed' <=> Unharmed
    BY DEF PersistResult, Unharmed
  <2> QED
    BY <2>1, <2>2, <2>3 DEF IInv, JobInv, PersistResult, Running
<1>3. HolderInv'
  BY DEF IInv, HolderInv, TypeOK, InFence, PersistResult, Leave, Goto, fence
<1>4. ProgressInv'
  BY DEF IInv, ProgressInv, TypeOK, InFence, PastGrant, PersistResult, Leave,
      Goto
<1>5. RecordInv'
  BY DEF IInv, RecordInv, TypeOK, JobInv, Unharmed, ProgressInv, Running, InFence,
      PastGrant, PersistResult, Leave, Goto, approval, TerminalStatus,
      DispatchStatus
<1>6. StopInv'
  BY DEF IInv, StopInv, TypeOK, InFence, PersistResult, Leave, Goto, fence
<1>7. ExpiryInv'
  BY DEF IInv, ExpiryInv, PersistResult, approval
<1> QED
  BY <1>1, <1>2, <1>3, <1>4, <1>5, <1>6, <1>7 DEF IInv

\* An uncaught database error ends a request.
LEMMA RunFailsStep ==
  ASSUME IInv, NEW w \in Workers, RunFails(w)
  PROVE  IInv'
<1>1. TypeOK'
  BY DEF IInv, TypeOK, RunFails, Leave, Goto, Fault, Pcs, db, approval,
      handlers
<1>2. JobInv'
  BY FaultHarms DEF IInv, JobInv, TypeOK, Running, RunFails, Leave, Goto, db
<1>3. HolderInv'
  BY ActorAssumption DEF IInv, HolderInv, TypeOK, InFence, RunFails, Leave,
      Goto
<1>4. ProgressInv'
  BY DEF IInv, ProgressInv, TypeOK, InFence, PastGrant, RunFails, Leave, Goto
<1>5. StopInv'
  BY DEF IInv, StopInv, TypeOK, InFence, RunFails, Leave, Goto, db
<1>6. RecordInv' /\ ExpiryInv'
  BY DEF IInv, RecordInv, ExpiryInv, RunFails, db, approval
<1> QED
  BY <1>1, <1>2, <1>3, <1>4, <1>5, <1>6 DEF IInv

\* A stop request takes the fence.
LEMMA BeginActivateStep ==
  ASSUME IInv, NEW o \in Operators, BeginActivate(o)
  PROVE  IInv'
<1>1. TypeOK'
  BY DEF IInv, TypeOK, BeginActivate, TakeFence, Fault, db, approval,
      threads, handlers
<1>2. HolderInv'
  BY ActorAssumption DEF IInv, HolderInv, TypeOK, InFence, BeginActivate,
      TakeFence, threads
<1>3. StopInv'
  BY ActorAssumption DEF IInv, StopInv, TypeOK, HolderInv, InFence,
      BeginActivate, TakeFence, db, threads
<1>4. JobInv' /\ ProgressInv' /\ RecordInv' /\ ExpiryInv'
  BY TakeFenceHarmless DEF IInv, JobInv, ProgressInv, RecordInv, ExpiryInv,
      Running, InFence, PastGrant, BeginActivate, db, approval, threads
<1> QED
  BY <1>1, <1>2, <1>3, <1>4 DEF IInv

\* The stop is stored.
LEMMA PersistActivateStep ==
  ASSUME IInv, NEW o \in Operators, PersistActivate(o)
  PROVE  IInv'
<1>1. TypeOK'
  BY DEF IInv, TypeOK, PersistActivate, DropFence, Fault, db, approval,
      threads, handlers
<1>2. HolderInv'
  BY ActorAssumption DEF IInv, HolderInv, TypeOK, InFence, PersistActivate,
      DropFence, threads
<1>3. StopInv'
  BY ActorAssumption DEF IInv, StopInv, TypeOK, HolderInv, InFence,
      PersistActivate, DropFence, db, threads
<1>4. JobInv' /\ ProgressInv' /\ RecordInv' /\ ExpiryInv'
  BY DEF IInv, JobInv, Unharmed, ProgressInv, RecordInv, ExpiryInv, Running, InFence,
      PastGrant, PersistActivate, db, approval, threads
<1> QED
  BY <1>1, <1>2, <1>3, <1>4 DEF IInv

\* The stop could not be stored.
LEMMA ActivateFailsStep ==
  ASSUME IInv, NEW o \in Operators, ActivateFails(o)
  PROVE  IInv'
<1>0. stopActive' \in BOOLEAN
  BY DEF IInv, TypeOK, ActivateFails
<1>1. TypeOK'
  BY <1>0 DEF IInv, TypeOK, ActivateFails, DropFence, Fault, approval, threads,
      handlers
<1>2. HolderInv'
  BY ActorAssumption DEF IInv, HolderInv, TypeOK, InFence, ActivateFails,
      DropFence, threads
<1>3. StopInv'
  BY ActorAssumption DEF IInv, StopInv, TypeOK, HolderInv, InFence,
      ActivateFails, DropFence, db, threads
<1>4. JobInv' /\ ProgressInv' /\ RecordInv' /\ ExpiryInv'
  BY FaultHarms DEF IInv, JobInv, ProgressInv, RecordInv, ExpiryInv, Running,
      InFence, PastGrant, ActivateFails, db, approval, threads
<1> QED
  BY <1>1, <1>2, <1>3, <1>4 DEF IInv

\* A clear request takes the fence.
LEMMA BeginClearStep ==
  ASSUME IInv, NEW o \in Operators, BeginClear(o)
  PROVE  IInv'
<1>1. TypeOK'
  BY DEF IInv, TypeOK, BeginClear, TakeFence, Fault, db, approval, threads,
      handlers
<1>2. HolderInv'
  BY ActorAssumption DEF IInv, HolderInv, TypeOK, InFence, BeginClear,
      TakeFence, threads
<1>3. StopInv'
  BY ActorAssumption DEF IInv, StopInv, TypeOK, HolderInv, InFence,
      BeginClear, TakeFence, db, threads
<1>4. JobInv' /\ ProgressInv' /\ RecordInv' /\ ExpiryInv'
  BY TakeFenceHarmless DEF IInv, JobInv, ProgressInv, RecordInv, ExpiryInv,
      Running, InFence, PastGrant, BeginClear, db, approval, threads
<1> QED
  BY <1>1, <1>2, <1>3, <1>4 DEF IInv

\* The stop is cleared.
LEMMA PersistClearStep ==
  ASSUME IInv, NEW o \in Operators, PersistClear(o)
  PROVE  IInv'
<1>1. TypeOK'
  BY DEF IInv, TypeOK, PersistClear, DropFence, Fault, db, approval, threads,
      handlers
<1>2. HolderInv'
  BY ActorAssumption DEF IInv, HolderInv, TypeOK, InFence, PersistClear,
      DropFence, threads
<1>3. StopInv'
  BY ActorAssumption DEF IInv, StopInv, TypeOK, HolderInv, InFence,
      PersistClear, DropFence, db, threads
<1>4. JobInv' /\ ProgressInv' /\ RecordInv' /\ ExpiryInv'
  BY DEF IInv, JobInv, Unharmed, ProgressInv, RecordInv, ExpiryInv, Running, InFence,
      PastGrant, PersistClear, db, approval, threads
<1> QED
  BY <1>1, <1>2, <1>3, <1>4 DEF IInv

\* The clear could not be stored.
LEMMA ClearFailsStep ==
  ASSUME IInv, NEW o \in Operators, ClearFails(o)
  PROVE  IInv'
<1>0. stopActive' \in BOOLEAN
  BY DEF IInv, TypeOK, ClearFails
<1>1. TypeOK'
  BY <1>0 DEF IInv, TypeOK, ClearFails, DropFence, Fault, approval, threads,
      handlers
<1>2. HolderInv'
  BY ActorAssumption DEF IInv, HolderInv, TypeOK, InFence, ClearFails,
      DropFence, threads
<1>3. StopInv'
  BY ActorAssumption DEF IInv, StopInv, TypeOK, HolderInv, InFence,
      ClearFails, DropFence, db, threads
<1>4. JobInv' /\ ProgressInv' /\ RecordInv' /\ ExpiryInv'
  BY FaultHarms DEF IInv, JobInv, ProgressInv, RecordInv, ExpiryInv, Running,
      InFence, PastGrant, ClearFails, db, approval, threads
<1> QED
  BY <1>1, <1>2, <1>3, <1>4 DEF IInv

\* The process dies and starts again.
LEMMA CrashStep ==
  ASSUME IInv, Crash
  PROVE  IInv'
<1>0. /\ pc' \in [Workers -> Pcs]
      /\ job' \in [Workers -> Proposals \cup {NoProposal}]
      /\ outcome' \in [Workers -> TerminalStatus \cup {"none"}]
      /\ opc' \in [Operators -> {"idle", "activating", "clearing"}]
  BY DEF Crash, Pcs
<1>10. count' \in [stops : Nat, faults : Nat, crashes : Nat]
  BY DEF IInv, TypeOK, Crash
<1>11. holder' \in Workers \cup Operators \cup {Nobody} /\ stopped' \in BOOLEAN
  BY DEF Crash
<1>1. TypeOK'
  BY <1>0, <1>10, <1>11 DEF IInv, TypeOK, Crash, db, approval
<1>2. JobInv'
  <2>1. ~Unharmed'
    <3>1. /\ count.faults \in Nat /\ count.crashes \in Nat
          /\ count'.faults = count.faults /\ count'.crashes = count.crashes + 1
      BY DEF IInv, TypeOK, Crash
    <3> QED
      BY <3>1 DEF Unharmed
  <2> QED
    BY <2>1 DEF IInv, JobInv, Running, Crash
<1>3. HolderInv'
  BY ActorAssumption DEF IInv, HolderInv, InFence, Crash
<1>4. ProgressInv'
  BY DEF IInv, ProgressInv, InFence, PastGrant, Crash
<1>5. StopInv'
  BY DEF IInv, StopInv, InFence, Crash
<1>6. RecordInv' /\ ExpiryInv'
  BY DEF IInv, RecordInv, ExpiryInv, Crash, db, approval
<1> QED
  BY <1>1, <1>2, <1>3, <1>4, <1>5, <1>6 DEF IInv

\* Every step keeps the inductive invariant.
LEMMA NextIInv == IInv /\ [Next]_vars => IInv'
<1> SUFFICES ASSUME IInv, [Next]_vars PROVE IInv'
  OBVIOUS
<1>1. CASE Tick
  BY <1>1, TickStep
<1>2. CASE Crash \/ Abandon
  BY <1>2, CrashStep, AbandonStep
<1>3. ASSUME NEW p \in Proposals, Decide(p) PROVE IInv'
  BY <1>3, ApproveStep, RejectStep DEF Decide
<1>4. ASSUME NEW s \in Sessions, SessionStep(s) PROVE IInv'
  BY <1>4, SessionStepKeeps
<1>5. ASSUME NEW w \in Workers, RunStep(w) PROVE IInv'
  BY <1>5, EnterFenceStep, CheckStopStep, CheckSessionStep, MarkExpiredStep,
     CheckTargetStep, CheckApprovalStep, DispatchStep, NoDispatcherStep,
     DispatchReturnsStep, PersistResultStep
     DEF RunStep
<1>6. ASSUME NEW w \in Workers, RunFails(w) PROVE IInv'
  BY <1>6, RunFailsStep
<1>7. ASSUME NEW w \in Workers, NEW p \in Proposals, Claim(w, p) PROVE IInv'
  BY <1>7, ClaimStep
<1>8. ASSUME NEW o \in Operators,
             \/ StopStep(o) \/ BeginActivate(o) \/ BeginClear(o)
             \/ ActivateFails(o) \/ ClearFails(o)
      PROVE  IInv'
  BY <1>8, BeginActivateStep, PersistActivateStep, ActivateFailsStep,
     BeginClearStep, PersistClearStep, ClearFailsStep
     DEF StopStep
<1>9. CASE UNCHANGED vars
  BY <1>9 DEF IInv, TypeOK, JobInv, Unharmed, HolderInv, ProgressInv, RecordInv,
     StopInv, ExpiryInv, Running, InFence, PastGrant, vars
<1> QED
  BY <1>1, <1>2, <1>3, <1>4, <1>5, <1>6, <1>7, <1>8, <1>9 DEF Next

\* The inductive invariant holds in every reachable state.
THEOREM Invariance == Spec => []IInv
<1>1. Init => IInv
  BY InitIInv
<1>2. IInv /\ [Next]_vars => IInv'
  BY NextIInv
<1> QED
  BY <1>1, <1>2, PTL DEF Spec

-----------------------------------------------------------------------------
(* Safety properties *)

\* Type correctness of every reachable state.
THEOREM TypeCorrectness == Spec => []TypeOK
<1>1. IInv => TypeOK
  BY DEF IInv
<1> QED
  BY <1>1, Invariance, PTL

\* A proposal is sent to Kali at most once, for any number of threads,
\* requests, failed writes and crashes.
THEOREM DispatchAtMostOnce == Spec => []AtMostOneDispatch
<1>1. IInv => AtMostOneDispatch
  BY DEF IInv, RecordInv, AtMostOneDispatch
<1> QED
  BY <1>1, Invariance, PTL

\* The stored status of an action agrees with what Kali received.
THEOREM StatusIsTrue == Spec => []StatusTellsTheTruth
<1>1. IInv => StatusTellsTheTruth
  BY DEF IInv, RecordInv, StatusTellsTheTruth
<1> QED
  BY <1>1, Invariance, PTL

\* What reaches Kali was approved and its approval consumed.
THEOREM DispatchWasApproved == Spec => []DispatchIsApproved
<1>1. IInv => DispatchIsApproved
  BY DEF IInv, RecordInv, DispatchIsApproved
<1> QED
  BY <1>1, Invariance, PTL

-----------------------------------------------------------------------------
(* Action properties *)

\* Only the check of the approval grants a start.
LEMMA OnlyCheckGrants ==
  ASSUME [Next]_vars, granted' # granted
  PROVE  \E w \in Workers : CheckApproval(w) /\ granted' = granted \cup {job[w]}
<1>1. PICK w \in Workers : CheckApproval(w)
  BY DEF Next, Tick, Crash, Abandon, Decide, Approve, Reject, SessionStep,
     Register, ExpireInTransaction, BeginClose, CommitClose, CommitBlindClose, BeginExpire, CommitExpire,
     RunStep, EnterFence, CheckStop, CheckSession, MarkExpired, CheckTarget,
     Dispatch, NoDispatcher, DispatchReturns, PersistResult, RunFails, Claim,
     StopStep, BeginActivate, PersistActivate, ActivateFails, BeginClear,
     PersistClear, ClearFails, vars
<1> QED
  BY <1>1 DEF CheckApproval

\* No start is granted while a stop is in force.
THEOREM NoStartUnderStop == Spec => StopBlocksStart
<1>1. IInv /\ [Next]_vars
        => [granted' # granted => ~stopActive /\ ~stopped]_vars
  <2> SUFFICES ASSUME IInv, [Next]_vars, granted' # granted
               PROVE  ~stopActive /\ ~stopped
    OBVIOUS
  <2>1. PICK w \in Workers : CheckApproval(w)
    BY OnlyCheckGrants
  <2> QED
    BY <2>1 DEF IInv, StopInv, InFence, CheckApproval
<1> QED
  BY <1>1, Invariance, PTL DEF Spec, StopBlocksStart

\* A start is granted before its session and its target expire.
THEOREM StartsBeforeExpiry == Spec => StartBeforeExpiry
<1> DEFINE A == \A p \in granted' \ granted :
                  now < SessionExpiry[SessionOf[p]] /\ now < TargetExpiry[SessionOf[p]]
<1>1. IInv /\ [Next]_vars => [A]_vars
  <2> SUFFICES ASSUME IInv, [Next]_vars, NEW p \in granted' \ granted
               PROVE  /\ now < SessionExpiry[SessionOf[p]]
                      /\ now < TargetExpiry[SessionOf[p]]
    OBVIOUS
  <2>1. PICK w \in Workers :
               CheckApproval(w) /\ granted' = granted \cup {job[w]}
    BY OnlyCheckGrants
  <2>2. p = job[w] /\ p \in Proposals
    BY <2>1 DEF IInv, JobInv, Running, CheckApproval
  <2>3. decision[p] = "approved" /\ now < expiresAt[p]
    BY <2>1, <2>2 DEF CheckApproval, ApprovalValid
  <2>4. /\ expiresAt[p] <= SessionExpiry[SessionOf[p]]
        /\ expiresAt[p] <= TargetExpiry[SessionOf[p]]
    BY <2>2, <2>3 DEF IInv, ExpiryInv
  <2>5. /\ now \in Nat /\ expiresAt[p] \in Nat
        /\ SessionExpiry[SessionOf[p]] \in Nat
        /\ TargetExpiry[SessionOf[p]] \in Nat
    BY <2>2, SessionOfAssumption, ExpiryAssumption DEF IInv, TypeOK
  <2> QED
    BY <2>3, <2>4, <2>5
<1> QED
  BY <1>1, Invariance, PTL DEF Spec, StartBeforeExpiry

\* Only the target check commits a run to its start.
LEMMA OnlyCheckCommits ==
  ASSUME IInv, [Next]_vars, NEW p \in Proposals, Committed(p)', ~Committed(p)
  PROVE  ~targetLocked[SessionOf[p]]
<1>1. \A w \in Workers :
        (job'[w] = p /\ pc'[w] = "checkApproval") =>
          (job[w] # p \/ pc[w] # "checkApproval")
  BY DEF Committed
<1>2. CASE p \in granted'
  <2>1. granted' # granted
    BY <1>2 DEF Committed
  <2>2. PICK w \in Workers : CheckApproval(w) /\ granted' = granted \cup {job[w]}
    BY <2>1, OnlyCheckGrants
  <2> QED
    BY <1>2, <2>2 DEF Committed, CheckApproval
<1>3. ASSUME NEW w \in Workers, job'[w] = p, pc'[w] = "checkApproval"
      PROVE  ~targetLocked[SessionOf[p]]
  <2>1. CASE CheckTarget(w)
    BY <1>3, <2>1 DEF IInv, TypeOK, CheckTarget, Check, Conclude, Goto,
       TargetUsable
  <2>2. CASE ~CheckTarget(w)
    <3>1. pc[w] = "checkApproval" /\ job[w] = p
      <4>1. ASSUME NEW v \in Workers,
                   RunStep(v) \/ RunFails(v) \/ \E q \in Proposals : Claim(v, q)
            PROVE  pc[w] = "checkApproval" /\ job[w] = p
        BY <1>3, <2>2, <4>1 DEF IInv, TypeOK, RunStep, EnterFence, CheckStop,
           CheckSession, MarkExpired, CheckTarget, CheckApproval, Dispatch,
           NoDispatcher, DispatchReturns, PersistResult, RunFails, Claim,
           Check, Conclude, Leave, Goto
      <4>2. CASE UNCHANGED threads
        BY <1>3, <4>2 DEF threads
      <4>3. CASE Crash
        BY <1>3, <4>3 DEF Crash
      <4> QED
        BY <4>1, <4>2, <4>3 DEF Next, Tick, Abandon, Decide, Approve, Reject,
           SessionStep, Register, ExpireInTransaction, BeginClose, CommitClose,
           CommitBlindClose, BeginExpire, CommitExpire, StopStep,
           BeginActivate, PersistActivate, ActivateFails, BeginClear,
           PersistClear, ClearFails, vars, threads
    <3> QED
      BY <1>1, <1>3, <3>1
  <2> QED
    BY <2>1, <2>2
<1> QED
  BY <1>2, <1>3 DEF Committed

\* Nothing unlocks a target.
LEMMA LockStays ==
  ASSUME IInv, [Next]_vars, NEW s \in Sessions, targetLocked[s]
  PROVE  targetLocked'[s]
<1>1. CASE UNCHANGED targetLocked
  BY <1>1
<1>2. ASSUME NEW u \in Sessions, CommitClose(u)
      PROVE  targetLocked'[s]
  BY <1>2 DEF IInv, TypeOK, CommitClose
<1> QED
  BY <1>1, <1>2 DEF Next, Tick, Crash, Abandon, Decide, Approve, Reject,
     SessionStep, Register, ExpireInTransaction, BeginClose, CommitBlindClose,
     BeginExpire, CommitExpire, RunStep, EnterFence, CheckStop, CheckSession,
     MarkExpired, CheckTarget, CheckApproval, Dispatch, NoDispatcher,
     DispatchReturns, PersistResult, RunFails, Claim, StopStep, BeginActivate,
     PersistActivate, ActivateFails, BeginClear, PersistClear, ClearFails,
     vars, db

\* After a close that locked the target, no run gets past the target check.
THEOREM ClosedStartsNothing == Spec => ClosedSessionStartsNothing
<1>1. IInv /\ [Next]_vars =>
        [\A p \in Proposals :
           targetLocked[SessionOf[p]] =>
             /\ targetLocked'[SessionOf[p]]
             /\ Committed(p)' => Committed(p)]_vars
  BY OnlyCheckCommits, LockStays, SessionOfAssumption
<1> QED
  BY <1>1, Invariance, PTL DEF Spec, ClosedSessionStartsNothing

\* The same over whole behaviours: a run that had not passed the target check
\* when the target was locked is never started.
THEOREM LockedNeverStarts ==
  ASSUME NEW p \in Proposals
  PROVE  Spec => []( targetLocked[SessionOf[p]] /\ ~Committed(p)
                       => [](p \notin granted) )
<1> DEFINE K == targetLocked[SessionOf[p]] /\ ~Committed(p)
<1>1. IInv /\ [Next]_vars /\ K => K'
  BY OnlyCheckCommits, LockStays, SessionOfAssumption
<1>2. K => p \notin granted
  BY DEF Committed
<1> QED
  BY <1>1, <1>2, Invariance, PTL DEF Spec

\* Only a clear request takes the stop row away.
THEOREM StopIsDurable == Spec => OnlyClearLiftsStop
<1> DEFINE A == stopActive /\ ~stopActive'
                  => \E o \in Operators : opc[o] = "clearing"
<1>1. [Next]_vars => [A]_vars
  <2> SUFFICES ASSUME [Next]_vars, stopActive # stopActive',
                      ~(\E o \in Operators :
                          PersistClear(o) \/ ClearFails(o)
                          \/ PersistActivate(o) \/ ActivateFails(o))
               PROVE  FALSE
    BY DEF PersistClear, ClearFails, PersistActivate, ActivateFails, DropFence
  <2> QED
    BY DEF Next, Tick, Crash, Abandon, Decide, Approve, Reject, SessionStep,
       Register, ExpireInTransaction, BeginClose, CommitClose, CommitBlindClose, BeginExpire, CommitExpire,
       RunStep, EnterFence, CheckStop, CheckSession, MarkExpired, CheckTarget,
       CheckApproval, Dispatch, NoDispatcher, DispatchReturns, PersistResult,
       RunFails, Claim, StopStep, BeginActivate, BeginClear, vars, db
<1> QED
  BY <1>1, PTL DEF Spec, OnlyClearLiftsStop

\* A stored result is final, and a consumed approval stays as it was decided.
THEOREM RecordsStayFinal == Spec => RecordsAreFinal
<1> DEFINE A == \A p \in Proposals :
                  /\ action[p] \in TerminalStatus => action'[p] = action[p]
                  /\ used[p] => used'[p] /\ decision'[p] = decision[p]
<1>1. IInv /\ [Next]_vars => [A]_vars
  <2> SUFFICES ASSUME IInv, [Next]_vars, NEW p \in Proposals
               PROVE  /\ action[p] \in TerminalStatus => action'[p] = action[p]
                      /\ used[p] => used'[p] /\ decision'[p] = decision[p]
    OBVIOUS
  <2>1. ASSUME NEW q \in Proposals, Decide(q) PROVE A
    BY <2>1 DEF IInv, TypeOK, RecordInv, Decide, Approve, Reject, Record
  <2>2. ASSUME NEW w \in Workers, NEW q \in Proposals, Claim(w, q) PROVE A
    BY <2>2 DEF IInv, TypeOK, Claim, TerminalStatus
  <2>3. ASSUME NEW w \in Workers, PersistResult(w) PROVE A
    BY <2>3 DEF IInv, TypeOK, JobInv, Running, PersistResult, approval,
       TerminalStatus
  <2>4. CASE UNCHANGED <<action, used, decision>>
    BY <2>4
  <2> QED
    BY <2>1, <2>2, <2>3, <2>4 DEF Next, Tick, Crash, Abandon, SessionStep,
       Register, ExpireInTransaction, BeginClose, CommitClose, CommitBlindClose, BeginExpire, CommitExpire,
       RunStep, EnterFence, CheckStop, CheckSession, MarkExpired, CheckTarget,
       CheckApproval, Dispatch, NoDispatcher, DispatchReturns, RunFails,
       StopStep, BeginActivate, PersistActivate, ActivateFails, BeginClear,
       PersistClear, ClearFails, vars, db, approval
<1> QED
  BY <1>1, Invariance, PTL DEF Spec, RecordsAreFinal

-----------------------------------------------------------------------------
(* Refinement of ExecutionContract *)

\* A step that keeps what PhaseOf reads keeps every phase.
LEMMA PhaseKept ==
  ASSUME UNCHANGED <<decision, action, granted>>
  PROVE  [p \in Proposals |-> PhaseOf(p)]' = [p \in Proposals |-> PhaseOf(p)]
  BY DEF PhaseOf

\* A step that changes the phase of one proposal.
LEMMA PhaseMoved ==
  ASSUME NEW p \in Proposals, NEW from, NEW to,
         PhaseOf(p) = from, PhaseOf(p)' = to,
         \A q \in Proposals \ {p} :
            /\ decision'[q] = decision[q]
            /\ action'[q] = action[q]
            /\ q \in granted' <=> q \in granted
  PROVE  Contract!MovePhase(p, from, to)
<1>1. \A q \in Proposals \ {p} : PhaseOf(q)' = PhaseOf(q)
  BY DEF PhaseOf
<1> QED
  BY <1>1 DEF Contract!MovePhase

\* The stop in force is kept when the row and the flag are.
LEMMA HaltKept ==
  ASSUME UNCHANGED <<stopActive, stopped>>
  PROVE  UNCHANGED HaltNow
  BY DEF HaltNow

\* A decision refines Decide.
LEMMA DecideRefines ==
  ASSUME IInv, NEW p \in Proposals, Decide(p)
  PROVE  Contract!Decide(p)
<1>1. PICK d \in {"approved", "rejected"} : Record(p, d)
  BY DEF Decide, Approve, Reject
<1>2. UNCHANGED <<action, granted, stopActive, stopped>> /\ decision[p] = "none"
  BY DEF Decide, Approve, Reject, fence
<1>3. action[p] = "none" /\ decision'[p] = d
  BY <1>1, <1>2 DEF IInv, RecordInv, TypeOK, Record
<1>4. PhaseOf(p) = "open" /\ PhaseOf(p)' = d
  BY <1>2, <1>3 DEF PhaseOf, DispatchStatus
<1>5. \A q \in Proposals \ {p} : decision'[q] = decision[q]
  BY <1>1 DEF IInv, TypeOK, Record
<1>6. Contract!MovePhase(p, "open", d)
  BY <1>2, <1>4, <1>5, PhaseMoved
<1> QED
  BY <1>2, <1>6, HaltKept DEF Contract!Decide

\* The claim refines Consume.
LEMMA ClaimRefines ==
  ASSUME IInv, NEW w \in Workers, NEW p \in Proposals, Claim(w, p)
  PROVE  Contract!Consume(p)
<1>1. /\ action[p] = "none" /\ decision[p] = "approved" /\ ~stopActive
      /\ UNCHANGED <<decision, granted, stopActive, stopped>>
  BY DEF Claim, ApprovalValid, fence
<1>2. action'[p] = "running" /\ p \notin granted
  BY <1>1 DEF IInv, TypeOK, RecordInv, Claim
<1>3. PhaseOf(p) = "approved" /\ PhaseOf(p)' = "consumed"
  BY <1>1, <1>2 DEF PhaseOf, DispatchStatus
<1>4. \A q \in Proposals \ {p} : action'[q] = action[q]
  BY DEF IInv, TypeOK, Claim
<1>5. Contract!MovePhase(p, "approved", "consumed")
  BY <1>1, <1>3, <1>4, PhaseMoved
<1> QED
  BY <1>1, <1>5, HaltKept DEF Contract!Consume, HaltNow

\* The check of the approval refines Start, or changes nothing.
LEMMA CheckApprovalRefines ==
  ASSUME IInv, NEW w \in Workers, CheckApproval(w)
  PROVE  \/ \E p \in Proposals : Contract!Start(p)
         \/ UNCHANGED Contract!cvars
<1>1. UNCHANGED <<decision, action, stopActive, stopped>>
  BY DEF CheckApproval, db, approval
<1>2. CASE granted' = granted
  BY <1>1, <1>2, PhaseKept, HaltKept DEF Contract!cvars
<1>3. CASE granted' = granted \cup {job[w]} /\ action[job[w]] = "running"
  <2>1. PICK p \in Proposals : p = job[w] /\ p \notin granted
    BY DEF IInv, JobInv, ProgressInv, Running, InFence, CheckApproval
  <2>2. PhaseOf(p) = "consumed" /\ PhaseOf(p)' = "started"
    BY <1>1, <1>3, <2>1 DEF PhaseOf, DispatchStatus
  <2>3. Contract!MovePhase(p, "consumed", "started")
    BY <1>1, <1>3, <2>1, <2>2, PhaseMoved
  <2>4. HaltNow = "no"
    BY DEF IInv, StopInv, InFence, CheckApproval, HaltNow
  <2> QED
    BY <1>1, <2>1, <2>3, <2>4, HaltKept DEF Contract!Start
<1> QED
  BY <1>2, <1>3 DEF CheckApproval

\* Storing a result refines Cancel or Settle.
LEMMA PersistResultRefines ==
  ASSUME IInv, NEW w \in Workers, PersistResult(w)
  PROVE  \E p \in Proposals : Contract!Cancel(p) \/ Contract!Settle(p)
<1>1. PICK p \in Proposals :
      /\ p = job[w] /\ action[p] = "running"
      /\ outcome[w] \in TerminalStatus
      /\ outcome[w] = "cancelled" <=> p \notin granted
  BY DEF IInv, JobInv, ProgressInv, Running, PersistResult
<1>2. UNCHANGED <<decision, granted, stopActive, stopped>>
  BY DEF PersistResult, approval, fence
<1>3. action'[p] = outcome[w] /\ \A q \in Proposals \ {p} : action'[q] = action[q]
  BY <1>1 DEF IInv, TypeOK, PersistResult
<1>4. CASE outcome[w] = "cancelled"
  <2>1. PhaseOf(p) = "consumed" /\ PhaseOf(p)' = "cancelled"
    BY <1>1, <1>2, <1>3, <1>4 DEF PhaseOf, DispatchStatus
  <2>2. Contract!MovePhase(p, "consumed", "cancelled")
    BY <1>1, <1>2, <1>3, <2>1, PhaseMoved
  <2> QED
    BY <1>1, <1>2, <2>2, HaltKept DEF Contract!Cancel
<1>5. CASE outcome[w] \in DispatchStatus
  <2>1. PhaseOf(p) = "started" /\ PhaseOf(p)' = "finished"
    BY <1>1, <1>2, <1>3, <1>5 DEF PhaseOf, DispatchStatus
  <2>2. Contract!MovePhase(p, "started", "finished")
    BY <1>1, <1>2, <1>3, <2>1, PhaseMoved
  <2> QED
    BY <1>1, <1>2, <2>2, HaltKept DEF Contract!Settle
<1> QED
  BY <1>1, <1>4, <1>5 DEF TerminalStatus, DispatchStatus

\* Stop and clear requests and crashes move the stop as the contract allows.
LEMMA HaltRefines ==
  ASSUME IInv,
         \/ Crash
         \/ \E o \in Operators :
              \/ StopStep(o) \/ BeginActivate(o) \/ BeginClear(o)
              \/ ActivateFails(o) \/ ClearFails(o)
  PROVE  [Contract!ContractNext]_(Contract!cvars)
<1>1. UNCHANGED <<decision, action, granted>>
  BY DEF Crash, StopStep, BeginActivate, BeginClear, ActivateFails, ClearFails,
     PersistActivate, PersistClear, db, approval
<1>2. [p \in Proposals |-> PhaseOf(p)]' = [p \in Proposals |-> PhaseOf(p)]
  BY <1>1, PhaseKept
<1>3. \/ HaltNow' = HaltNow
      \/ HaltNow = "no" /\ HaltNow' = "volatile"
      \/ HaltNow = "volatile" /\ HaltNow' = "durable"
      \/ HaltNow = "durable" /\ HaltNow' \in {"volatile", "no"}
      \/ HaltNow = "volatile" /\ HaltNow' = "no"
  BY DEF IInv, StopInv, Crash, StopStep, BeginActivate, BeginClear,
     ActivateFails, ClearFails, PersistActivate, PersistClear, DropFence,
     HaltNow, db
<1> QED
  BY <1>2, <1>3 DEF Contract!ContractNext, Contract!cvars, Contract!Stop,
     Contract!MakeDurable, Contract!Clear, Contract!Forget

\* The remaining steps touch nothing the contract speaks of.
LEMMA OtherStepsStutter ==
  ASSUME IInv,
         \/ Tick \/ Abandon \/ UNCHANGED vars
         \/ \E s \in Sessions : SessionStep(s)
         \/ \E w \in Workers :
              \/ EnterFence(w) \/ CheckStop(w) \/ CheckSession(w)
              \/ MarkExpired(w) \/ CheckTarget(w) \/ Dispatch(w)
              \/ NoDispatcher(w) \/ RunFails(w)
              \/ \E st \in DispatchStatus : DispatchReturns(w, st)
  PROVE  UNCHANGED Contract!cvars
<1>1. UNCHANGED <<decision, action, granted, stopActive>>
  BY DEF Tick, Abandon, SessionStep, Register, ExpireInTransaction, BeginClose, CommitClose,
     CommitBlindClose, BeginExpire, CommitExpire, EnterFence, CheckStop, CheckSession,
     MarkExpired, CheckTarget, Dispatch, NoDispatcher, RunFails,
     DispatchReturns, vars, db, approval
<1>2. UNCHANGED stopped \/ (stopActive /\ stopped')
  BY DEF IInv, TypeOK, Tick, Abandon, SessionStep, Register, ExpireInTransaction, BeginClose, CommitClose,
     CommitBlindClose, BeginExpire, CommitExpire, EnterFence, CheckStop, CheckSession,
     MarkExpired, CheckTarget, Dispatch, NoDispatcher, RunFails,
     DispatchReturns, vars, fence
<1>3. UNCHANGED HaltNow
  BY <1>1, <1>2 DEF HaltNow
<1> QED
  BY <1>1, <1>3, PhaseKept DEF Contract!cvars

\* Every step of the code is a step the contract allows.
LEMMA NextRefines ==
  IInv /\ [Next]_vars => [Contract!ContractNext]_(Contract!cvars)
<1> SUFFICES ASSUME IInv, [Next]_vars
             PROVE  [Contract!ContractNext]_(Contract!cvars)
  OBVIOUS
<1>1. ASSUME NEW p \in Proposals, Decide(p)
      PROVE  Contract!ContractNext
  BY <1>1, DecideRefines DEF Contract!ContractNext
<1>2. ASSUME NEW w \in Workers, NEW p \in Proposals, Claim(w, p)
      PROVE  Contract!ContractNext
  BY <1>2, ClaimRefines DEF Contract!ContractNext
<1>3. ASSUME NEW w \in Workers, CheckApproval(w)
      PROVE  [Contract!ContractNext]_(Contract!cvars)
  BY <1>3, CheckApprovalRefines DEF Contract!ContractNext
<1>4. ASSUME NEW w \in Workers, PersistResult(w)
      PROVE  Contract!ContractNext
  BY <1>4, PersistResultRefines DEF Contract!ContractNext
<1> QED
  BY <1>1, <1>2, <1>3, <1>4, HaltRefines, OtherStepsStutter DEF Next, RunStep

\* The initial state is one of the contract's.
LEMMA InitRefines == Init => Contract!ContractInit
  BY DEF Init, Contract!ContractInit, PhaseOf, HaltNow, DispatchStatus

\* The detailed model implements the contract.
THEOREM Refinement == Spec => ImplementsContract
<1> QED
  BY InitRefines, NextRefines, Invariance, PTL
    DEF Spec, ImplementsContract, Contract!ContractSpec

-----------------------------------------------------------------------------
(* What fair threads need to make progress *)

\* The safety half of ClaimSettles: as long as no write failed and the process
\* did not die, no claimed action is forgotten: a thread is at work on it and
\* has its status still to store.
THEOREM ClaimIsServed ==
  Spec => [](Unharmed => \A p \in Proposals : action[p] = "running" =>
               \E w \in Workers : pc[w] # "idle" /\ job[w] = p)
<1>1. IInv => (Unharmed => \A p \in Proposals : action[p] = "running" =>
                 \E w \in Workers : pc[w] # "idle" /\ job[w] = p)
  BY DEF IInv, JobInv, Running
<1> QED
  BY <1>1, Invariance, PTL

\* The safety half of FenceIsReleased: the lock of the fence is never left
\* taken by a thread that is not inside it, failed writes included.
THEOREM FenceIsInUse ==
  Spec => [](holder # Nobody =>
               \/ holder \in Workers /\ pc[holder] \in InFence
               \/ holder \in Operators /\ opc[holder] # "idle")
<1>1. IInv => (holder # Nobody =>
                 \/ holder \in Workers /\ pc[holder] \in InFence
                 \/ holder \in Operators /\ opc[holder] # "idle")
  BY DEF IInv, TypeOK, HolderInv
<1> QED
  BY <1>1, Invariance, PTL

-----------------------------------------------------------------------------
(* The session routes beside the execution of actions *)

\* Whatever the session routes do, by their contract, to sessions, targets and
\* pending requests is a step of ActionExecution, so its theorems hold beside
\* any implementation of SessionContract, SessionLifecycle among them.
THEOREM RoutesAreCovered ==
  ASSUME \/ \E s \in Sessions : Routes!Register(s) \/ Routes!RequestStep(s)
         \/ Routes!Abandon,
         UNCHANGED <<now, approval, action, stopActive, fence, threads, opc,
                     kali, granted, count>>
  PROVE  Next
<1>1. ASSUME NEW s \in Sessions, Routes!Register(s)
      PROVE  Register(s)
  BY <1>1 DEF Routes!Register, Routes!Write, Register, OverdueSessions
<1>2. ASSUME NEW s \in Sessions, Routes!BeginClose(s) \/ Routes!BeginExpire(s)
      PROVE  BeginClose(s) \/ BeginExpire(s)
  BY <1>2 DEF Routes!BeginClose, Routes!BeginExpire, BeginClose, BeginExpire,
     OverdueSessions, db, approval
<1>3. ASSUME NEW s \in Sessions,
             \/ Routes!CommitClose(s) \/ Routes!CommitBlindClose(s)
             \/ Routes!CommitExpire(s) \/ Routes!ExpireAtOnce(s)
      PROVE  \/ CommitClose(s) \/ CommitBlindClose(s)
             \/ CommitExpire(s) \/ ExpireInTransaction(s)
  BY <1>3 DEF Routes!CommitClose, Routes!CommitBlindClose, Routes!CommitExpire,
     Routes!ExpireAtOnce, Routes!Write, Routes!OneLess, CommitClose,
     CommitBlindClose, CommitExpire, ExpireInTransaction, OneLess,
     OverdueSessions, handlers
<1>4. ASSUME Routes!Abandon
      PROVE  Abandon
  BY <1>4 DEF Routes!Abandon, Abandon, db
<1> QED
  BY <1>1, <1>2, <1>3, <1>4 DEF Next, SessionStep, Routes!RequestStep

\* A worker that neither begins nor ends marking a session.
LEMMA MarkingKept ==
  ASSUME NEW w \in Workers, pc[w] # "markExpired", pc'[w] # "markExpired",
         \A v \in Workers \ {w} : pc'[v] = pc[v] /\ job'[v] = job[v]
  PROVE  Marking' = Marking
  BY DEF Marking

\* A worker that no longer marks its session.
LEMMA MarkingEnds ==
  ASSUME NEW w \in Workers, pc'[w] # "markExpired",
         \A v \in Workers \ {w} : pc'[v] = pc[v] /\ job'[v] = job[v]
  PROVE  Marking' \in {Marking, Marking \ {SessionOf[job[w]]}}
<1>1. Marking' \subseteq Marking /\ Marking \ {SessionOf[job[w]]} \subseteq Marking'
  BY DEF Marking
<1> QED
  BY <1>1

\* A step of a session route is the contract's step of the same name.
LEMMA SessionStepAsContracted ==
  ASSUME NEW s \in Sessions, SessionStep(s), IInv
  PROVE  Whole!Register(s) \/ Whole!RequestStep(s)
<1>1. UNCHANGED OverdueSessions /\ UNCHANGED Marking
  BY SessionStepLeaves DEF OverdueSessions, Overdue, Marking, threads
<1>2. CASE Register(s)
  BY <1>1, <1>2 DEF Register, Whole!Register, Whole!Write, OverdueSessions
<1>3. CASE BeginClose(s)
  BY <1>1, <1>3 DEF BeginClose, Whole!BeginClose, Whole!RequestStep,
     OverdueSessions, db
<1>4. CASE BeginExpire(s)
  BY <1>1, <1>4 DEF BeginExpire, Whole!BeginExpire, Whole!RequestStep,
     OverdueSessions, db
<1>5. session[s] \in Whole!States
  BY DEF IInv, TypeOK, Whole!States
<1>6. CASE CommitClose(s)
  BY <1>1, <1>5, <1>6 DEF CommitClose, Whole!CommitClose, Whole!RequestStep,
     Whole!Write, Whole!OneLess, OneLess
<1>7. CASE CommitBlindClose(s)
  BY <1>1, <1>5, <1>7 DEF CommitBlindClose, Whole!CommitBlindClose,
     Whole!RequestStep, Whole!Write, Whole!OneLess, OneLess
<1>8. CASE CommitExpire(s)
  <2>1. (expiring \cup Marking)' \in Whole!OneLess(expiring \cup Marking, s)
    BY <1>1, <1>8 DEF CommitExpire, Whole!OneLess, OneLess
  <2> QED
    BY <1>1, <1>5, <1>8, <2>1 DEF CommitExpire, Whole!CommitExpire,
       Whole!RequestStep, Whole!Write
<1>9. CASE ExpireInTransaction(s)
  BY <1>1, <1>9 DEF ExpireInTransaction, Whole!ExpireAtOnce,
     Whole!RequestStep, Whole!Write, OverdueSessions, handlers
<1> QED
  BY <1>2, <1>3, <1>4, <1>6, <1>7, <1>8, <1>9 DEF SessionStep

\* A worker finds its session overdue, and later marks it.
LEMMA WorkerMarksAsContracted ==
  ASSUME IInv, NEW w \in Workers, CheckSession(w) \/ MarkExpired(w)
  PROVE  [Whole!ContractNext]_(Whole!contract)
<1> DEFINE s == SessionOf[job[w]]
<1>1. s \in Sessions /\ session[s] \in Whole!States
  BY SessionOfAssumption DEF IInv, TypeOK, JobInv, Running, CheckSession,
     MarkExpired, Check, Whole!States
<1>2. UNCHANGED <<OverdueSessions, targetLocked, closing, blind, expiring>>
  BY DEF CheckSession, MarkExpired, OverdueSessions, Overdue, db, handlers
<1>3. \A v \in Workers \ {w} : pc'[v] = pc[v] /\ job'[v] = job[v]
  BY DEF IInv, TypeOK, CheckSession, MarkExpired, Check, Conclude, Goto
<1>4. CASE MarkExpired(w)
  <2>1. pc[w] = "markExpired" /\ pc'[w] # "markExpired"
    BY <1>4 DEF IInv, TypeOK, MarkExpired, Check, Conclude, Goto
  <2>2. s \in Marking /\ Marking' \in {Marking, Marking \ {s}}
    BY <1>1, <1>3, <2>1, MarkingEnds DEF Marking
  <2>3. (expiring \cup Marking)' \in Whole!OneLess(expiring \cup Marking, s)
    BY <1>2, <2>2 DEF Whole!OneLess
  <2>4. session' = [session EXCEPT ![s] = "expired"]
    BY <1>4 DEF MarkExpired
  <2>5. Whole!CommitExpire(s)
    BY <1>1, <1>2, <2>2, <2>3, <2>4 DEF Whole!CommitExpire, Whole!Write
  <2> QED
    BY <1>1, <2>5 DEF Whole!ContractNext, Whole!RequestStep
<1>5. CASE CheckSession(w) /\ pc'[w] = "markExpired"
  <2>1. session[s] = "ready" /\ s \in OverdueSessions /\ UNCHANGED session
    BY <1>1, <1>5 DEF IInv, TypeOK, CheckSession, Check, Conclude, Goto,
       OverdueSessions, db
  <2>2. job'[w] = job[w] /\ pc[w] # "markExpired"
    BY <1>5 DEF IInv, TypeOK, CheckSession, Check, Conclude, Goto
  <2>3. Marking' = Marking \cup {s}
    BY <1>1, <1>3, <1>5, <2>2 DEF Marking
  <2>4. Whole!BeginExpire(s)
    BY <1>2, <2>1, <2>3 DEF Whole!BeginExpire
  <2> QED
    BY <1>1, <2>4 DEF Whole!ContractNext, Whole!RequestStep
<1>6. CASE CheckSession(w) /\ pc'[w] # "markExpired"
  <2>1. pc[w] # "markExpired" /\ UNCHANGED session
    BY <1>6 DEF CheckSession, Check, db
  <2>2. Marking' = Marking
    BY <1>3, <1>6, <2>1, MarkingKept
  <2> QED
    BY <1>2, <2>1, <2>2 DEF Whole!contract
<1> QED
  BY <1>4, <1>5, <1>6

\* Requests and workers that go away without a commit.
LEMMA AbandonAsContracted ==
  ASSUME IInv, Abandon \/ Crash \/ \E w \in Workers : RunFails(w)
  PROVE  Whole!Abandon
<1>1. UNCHANGED <<session, targetLocked, OverdueSessions>>
  BY DEF Abandon, Crash, RunFails, OverdueSessions, Overdue, db
<1>2. /\ closing' \in SUBSET closing
      /\ blind' \in SUBSET blind
      /\ expiring' \in SUBSET expiring
  BY DEF Abandon, Crash, RunFails, handlers
<1>3. Marking' \subseteq Marking
  <2>1. \A w \in Workers : pc'[w] = "markExpired" =>
           pc[w] = "markExpired" /\ job'[w] = job[w]
    BY DEF IInv, TypeOK, Abandon, Crash, RunFails, Leave, Goto, threads
  <2> QED
    BY <2>1 DEF Marking
<1> QED
  BY <1>1, <1>2, <1>3 DEF Whole!Abandon

\* The clock only makes sessions overdue.
LEMMA TickAsContracted ==
  ASSUME IInv, Tick
  PROVE  Whole!TimePasses
<1>1. OverdueSessions \subseteq OverdueSessions' /\ OverdueSessions' \subseteq Sessions
  BY ExpiryAssumption DEF IInv, TypeOK, Tick, OverdueSessions, Overdue
<1>2. UNCHANGED Marking
  BY DEF Tick, Marking, threads
<1> QED
  BY <1>1, <1>2 DEF Tick, Whole!TimePasses, db, handlers

\* The steps that neither read a session to mark it nor write one.
LEMMA OtherStepsLeaveSessions ==
  ASSUME IInv,
         \/ \E p \in Proposals : Decide(p)
         \/ \E w \in Workers :
              \/ EnterFence(w) \/ CheckStop(w) \/ CheckTarget(w)
              \/ CheckApproval(w) \/ Dispatch(w) \/ NoDispatcher(w)
              \/ \E status \in DispatchStatus : DispatchReturns(w, status)
              \/ PersistResult(w)
              \/ \E p \in Proposals : Claim(w, p)
         \/ \E o \in Operators :
              \/ StopStep(o) \/ BeginActivate(o) \/ BeginClear(o)
              \/ ActivateFails(o) \/ ClearFails(o)
  PROVE  UNCHANGED Whole!contract
<1>1. UNCHANGED <<session, targetLocked, OverdueSessions, closing, blind, expiring>>
  BY DEF Decide, Approve, Reject, EnterFence, CheckStop, CheckTarget,
     CheckApproval, Dispatch, NoDispatcher, DispatchReturns, PersistResult,
     Claim, StopStep, PersistActivate, PersistClear, BeginActivate, BeginClear,
     ActivateFails, ClearFails, OverdueSessions, Overdue, db, handlers
<1>2. ASSUME NEW w \in Workers,
             \/ EnterFence(w) \/ CheckStop(w) \/ CheckTarget(w)
             \/ CheckApproval(w) \/ Dispatch(w) \/ NoDispatcher(w)
             \/ \E status \in DispatchStatus : DispatchReturns(w, status)
             \/ PersistResult(w)
             \/ \E p \in Proposals : Claim(w, p)
      PROVE  Marking' = Marking
  <2>1. pc[w] # "markExpired" /\ pc'[w] # "markExpired"
    BY <1>2 DEF IInv, TypeOK, EnterFence, CheckStop, CheckTarget,
       CheckApproval, Dispatch, NoDispatcher, DispatchReturns, PersistResult,
       Claim, Check, Conclude, Goto, Leave
  <2>2. \A v \in Workers \ {w} : pc'[v] = pc[v] /\ job'[v] = job[v]
    BY <1>2 DEF IInv, TypeOK, EnterFence, CheckStop, CheckTarget,
       CheckApproval, Dispatch, NoDispatcher, DispatchReturns, PersistResult,
       Claim, Check, Conclude, Goto, Leave
  <2> QED
    BY <2>1, <2>2, MarkingKept
<1>3. ASSUME UNCHANGED threads
      PROVE  Marking' = Marking
  BY <1>3 DEF Marking, threads
<1>4. Marking' = Marking
  BY <1>2, <1>3 DEF Decide, Approve, Reject, StopStep, PersistActivate,
     PersistClear, BeginActivate, BeginClear, ActivateFails, ClearFails
<1> QED
  BY <1>1, <1>4 DEF Whole!contract

\* Every step is one the session contract allows.
LEMMA NextAsContracted ==
  IInv /\ [Next]_vars => [Whole!ContractNext]_(Whole!contract)
<1> SUFFICES ASSUME IInv, [Next]_vars
             PROVE  [Whole!ContractNext]_(Whole!contract)
  OBVIOUS
<1>1. ASSUME NEW s \in Sessions, SessionStep(s)
      PROVE  Whole!ContractNext
  BY <1>1, SessionStepAsContracted DEF Whole!ContractNext
<1>2. ASSUME UNCHANGED vars
      PROVE  UNCHANGED Whole!contract
  BY <1>2 DEF vars, Whole!contract, OverdueSessions, Overdue, Marking
<1>3. ASSUME Tick
      PROVE  Whole!ContractNext
  BY <1>3, TickAsContracted DEF Whole!ContractNext
<1>4. ASSUME Abandon \/ Crash \/ \E w \in Workers : RunFails(w)
      PROVE  Whole!ContractNext
  BY <1>4, AbandonAsContracted DEF Whole!ContractNext
<1> QED
  BY <1>1, <1>2, <1>3, <1>4, WorkerMarksAsContracted, OtherStepsLeaveSessions
    DEF Next, RunStep

\* Before anything happened there is no target and no request.
LEMMA InitAsContracted == Init => Whole!ContractInit
<1> SUFFICES ASSUME Init
             PROVE  Whole!ContractInit
  OBVIOUS
<1>1. Marking = {}
  BY DEF Init, Marking
<1> QED
  BY <1>1 DEF Init, Whole!ContractInit, OverdueSessions

\* The whole of ActionExecution, workers that meet an overdue session under the
\* fence included, does to sessions and targets only what the contract of the
\* session routes allows.
THEOREM SessionsAsContracted == Spec => KeepsSessionContract
<1> QED
  BY InitAsContracted, NextAsContracted, Invariance, PTL
    DEF Spec, KeepsSessionContract, Whole!ContractSpec
=============================================================================
