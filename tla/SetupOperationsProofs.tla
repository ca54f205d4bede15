----------------------- MODULE SetupOperationsProofs -----------------------
(* The safety of SetupOperations for every number of threads, components    *)
(* and requests.  The inductive invariant ties the operation lock and the   *)
(* published operation to the place of their owner, and the Event of an     *)
(* operation to the cancels and the shutdown that may have set it.          *)
EXTENDS SetupOperations, TLAPS

USE ThreadAssumption, RepairAssumption

\* A controller nobody has used satisfies the invariant.
LEMMA InitIInv == Init => IInv
  BY DEF Init, IInv, TypeOK, LockInv, EventInv, CancelledIsNotReady,
         NoStrayCancel, ShutdownCancelsAll, Owning, Stages, Answers

\* Admitting and refusing requests, and leaving, preserve the invariant.
LEMMA AdmissionKeepsIInv ==
  ASSUME IInv, NEW t \in Threads,
         Refuse(t) \/ Leave(t) \/ \E c \in Components : Admit(t, c)
  PROVE  IInv'
  <1>1. CASE Refuse(t)
    BY <1>1 DEF Refuse, Reply, IInv, TypeOK, LockInv, EventInv, locks,
         CancelledIsNotReady, NoStrayCancel, ShutdownCancelsAll, Owning,
         Stages, Answers
  <1>2. CASE Leave(t)
    BY <1>2 DEF Leave, Goto, IInv, TypeOK, LockInv, EventInv, locks,
         CancelledIsNotReady, NoStrayCancel, ShutdownCancelsAll, Owning,
         Stages, Answers
  <1>3. CASE \E c \in Components : Admit(t, c)
    BY <1>3 DEF Admit, Goto, Reply, IInv, TypeOK, LockInv, EventInv, locks,
         CancelledIsNotReady, NoStrayCancel, ShutdownCancelsAll, Owning,
         Stages, Answers
  <1>. QED  BY <1>1, <1>2, <1>3

\* Taking the lock, publishing, working and completing preserve it.
LEMMA OperationKeepsIInv ==
  ASSUME IInv, NEW t \in Threads,
         Begin(t) \/ Publish(t) \/ Complete(t) \/ \E s \in Stages : Work(t, s)
  PROVE  IInv'
  <1>1. CASE Begin(t)
    BY <1>1 DEF Begin, Goto, Reply, IInv, TypeOK, LockInv, EventInv,
         CancelledIsNotReady, NoStrayCancel, ShutdownCancelsAll, Owning,
         Stages, Answers
  <1>2. CASE Publish(t)
    BY <1>2 DEF Publish, Goto, IInv, TypeOK, LockInv, EventInv,
         CancelledIsNotReady, NoStrayCancel, ShutdownCancelsAll, Owning,
         Stages, Answers
  <1>3. CASE Complete(t)
    BY <1>3 DEF Complete, Goto, Reply, IInv, TypeOK, LockInv, EventInv, locks,
         CancelledIsNotReady, NoStrayCancel, ShutdownCancelsAll, Owning,
         Stages, Answers
  <1>4. CASE \E s \in Stages : Work(t, s)
    BY <1>4 DEF Work, Goto, IInv, TypeOK, LockInv, EventInv, locks,
         CancelledIsNotReady, NoStrayCancel, ShutdownCancelsAll, Owning,
         Stages, Answers
  <1>. QED  BY <1>1, <1>2, <1>3, <1>4

\* So do a cancel request and the shutdown.
LEMMA CancelKeepsIInv ==
  ASSUME IInv, CloseAdmission \/ \E c \in Components : Cancel(c)
  PROVE  IInv'
  <1>1. CASE CloseAdmission
    BY <1>1 DEF CloseAdmission, request, locks, IInv, TypeOK, LockInv,
         EventInv, CancelledIsNotReady, NoStrayCancel, ShutdownCancelsAll,
         Owning, Stages, Answers
  <1>2. CASE \E c \in Components : Cancel(c)
    <2>. PICK c \in Components : Cancel(c)  BY <1>2
    <2>1. active \in Threads /\ pc[active] \in {"working", "completing"}
      BY DEF Cancel, IInv, TypeOK, LockInv
    <2>2. answer[active] = "none"
      BY <2>1 DEF IInv, EventInv, Owning
    <2>. QED
      BY <2>1, <2>2 DEF Cancel, request, locks, IInv, TypeOK, LockInv,
         EventInv, CancelledIsNotReady, NoStrayCancel, ShutdownCancelsAll,
         Owning, Stages, Answers
  <1>. QED  BY <1>1, <1>2

\* The invariant behind the promises of SetupOperationController and of the
\* cancel events holds in every reachable state.
THEOREM Invariance == Spec => []IInv
  <1>1. IInv /\ UNCHANGED vars => IInv'
    BY DEF vars, locks, request, IInv, TypeOK, LockInv, EventInv,
         CancelledIsNotReady, NoStrayCancel, ShutdownCancelsAll, Owning
  <1>2. IInv /\ Next => IInv'
    BY AdmissionKeepsIInv, OperationKeepsIInv, CancelKeepsIInv
       DEF Next, RepairStep
  <1>. QED  BY InitIInv, <1>1, <1>2, PTL DEF Spec

\* Two installers never run at once, in any number of threads (begin).
THEOREM RepairsExclude == Spec => []OneRepairAtATime
  <1>1. IInv => OneRepairAtATime
    BY DEF IInv, LockInv, OneRepairAtATime
  <1>. QED  BY Invariance, <1>1, PTL

\* A confirmed cancel is never answered with ready (complete, _repair).
THEOREM CancelWins == Spec => []CancelledIsNotReady
  <1>1. IInv => CancelledIsNotReady
    BY DEF IInv
  <1>. QED  BY Invariance, <1>1, PTL

\* No repair is cancelled by the cancel of another one (cancel).
THEOREM CancelDoesNotLeak == Spec => []NoStrayCancel
  <1>1. IInv => NoStrayCancel
    BY DEF IInv
  <1>. QED  BY Invariance, <1>1, PTL

\* Shutting down sets the event of every registered repair (close_admission).
THEOREM ShutdownReachesRepairs == Spec => []ShutdownCancelsAll
  <1>1. IInv => ShutdownCancelsAll
    BY DEF IInv
  <1>. QED  BY Invariance, <1>1, PTL

-----------------------------------------------------------------------------
(* SetupOperations implements SetupContract *)

Phase == [t \in Threads |-> PhaseAt(pc[t])]
Doomed == {t \in Threads : event[t]}

\* The phases before and after a step.
LEMMA PhaseIs ==
  /\ Phase = [t \in Threads |-> PhaseAt(pc[t])]
  /\ Phase' = [t \in Threads |-> PhaseAt(pc'[t])]
  BY DEF Phase

\* A thread that goes from one place to another, and no other does.
LEMMA PhaseMoves ==
  ASSUME TypeOK, NEW t \in Threads, NEW label, Goto(t, label), PhaseAt(pc'[t]) # PhaseAt(pc[t])
  PROVE  Contract!Move(t, PhaseAt(pc[t]), PhaseAt(pc'[t]))
  <1>1. \A u \in Threads \ {t} : PhaseAt(pc'[u]) = PhaseAt(pc[u])
    BY DEF TypeOK, Goto
  <1>2. Phase' = [Phase EXCEPT ![t] = PhaseAt(pc'[t])]
    BY <1>1, PhaseIs
  <1>3. Phase[t] = PhaseAt(pc[t])
    BY PhaseIs
  <1>. QED  BY <1>2, <1>3 DEF Phase, Contract!Move

\* A thread that moves within one phase.
LEMMA PhaseStays ==
  ASSUME TypeOK, NEW t \in Threads, NEW label, Goto(t, label), PhaseAt(pc'[t]) = PhaseAt(pc[t])
  PROVE  UNCHANGED Phase
  <1>1. \A u \in Threads : PhaseAt(pc'[u]) = PhaseAt(pc[u])
    BY DEF TypeOK, Goto
  <1>. QED  BY <1>1, PhaseIs

\* Nobody moves.
LEMMA PhasesStay ==
  ASSUME UNCHANGED pc
  PROVE  UNCHANGED Phase
  BY PhaseIs

\* Being let in is Ask, being refused TurnAway, leaving Depart.
LEMMA AdmissionRefines ==
  ASSUME IInv, NEW t \in Threads,
         Refuse(t) \/ Leave(t) \/ \E c \in Components : Admit(t, c)
  PROVE  Contract!Ask(t) \/ Contract!TurnAway(t) \/ Contract!Depart(t)
  <1>1. CASE Refuse(t)
    <2>1. Phase' = Phase
      BY <1>1, PhasesStay DEF Refuse
    <2>3. Phase[t] = "away"
      BY <1>1, PhaseIs DEF Refuse, PhaseAt, Owning
    <2>2. UNCHANGED <<accepting, opLock, Doomed>> /\ ~accepting
      BY <1>1 DEF Refuse, locks, Doomed
    <2>. QED
      BY <1>1, <2>1, <2>2, <2>3 DEF Refuse, Reply, Phase, Doomed,
         Contract!TurnAway, Contract!Tell
  <1>2. CASE Leave(t)
    <2>1. Goto(t, "idle") /\ PhaseAt(pc[t]) = "answered" /\ PhaseAt(pc'[t]) = "away"
      BY <1>2 DEF IInv, TypeOK, Leave, Goto, PhaseAt, Owning
    <2>2. Contract!Move(t, "answered", "away")
      BY <2>1, PhaseMoves DEF IInv
    <2>. QED
      BY <1>2, <2>2 DEF Leave, locks, Contract!Depart
  <1>3. CASE \E c \in Components : Admit(t, c)
    <2>. PICK c \in Components : Admit(t, c)  BY <1>3
    <2>1. Goto(t, "admitted") /\ PhaseAt(pc[t]) = "away" /\ PhaseAt(pc'[t]) = "waiting"
      BY DEF IInv, TypeOK, Admit, Goto, PhaseAt, Owning
    <2>2. Contract!Move(t, "away", "waiting")
      BY <2>1, PhaseMoves DEF IInv
    <2>3. Doomed' = Doomed \ {t}
      BY DEF IInv, TypeOK, Admit, Doomed
    <2>. QED
      BY <2>2, <2>3 DEF Admit, Reply, locks, Doomed, Contract!Ask, Contract!Tell
  <1>. QED  BY <1>1, <1>2, <1>3

\* Taking the lock is Start, finding it taken TellBusy.
LEMMA BeginRefines ==
  ASSUME IInv, NEW t \in Threads, Begin(t)
  PROVE  Contract!Start(t) \/ Contract!TellBusy(t)
  <1>1. PhaseAt(pc[t]) = "waiting" /\ UNCHANGED <<accepting, event>>
    BY DEF Begin, PhaseAt, Owning
  <1>2. CASE opLock = NoThread
    <2>1. Goto(t, "locked") /\ PhaseAt(pc'[t]) = "repairing"
      BY <1>2 DEF IInv, TypeOK, Begin, Goto, PhaseAt, Owning
    <2>2. Contract!Move(t, "waiting", "repairing")
      BY <1>1, <2>1, PhaseMoves DEF IInv
    <2>. QED  BY <1>1, <1>2, <2>2 DEF Begin, Contract!Start
  <1>3. CASE opLock # NoThread
    <2>1. Goto(t, "leaving") /\ PhaseAt(pc'[t]) = "answered"
      BY <1>3 DEF IInv, TypeOK, Begin, Goto, PhaseAt, Owning
    <2>2. Contract!Move(t, "waiting", "answered")
      BY <1>1, <2>1, PhaseMoves DEF IInv
    <2>. QED
      BY <1>1, <1>3, <2>2 DEF Begin, Reply, Contract!TellBusy, Contract!Tell
  <1>. QED  BY <1>2, <1>3

\* Publishing the operation and the installer's work are not seen.
LEMMA WorkStutters ==
  ASSUME IInv, NEW t \in Threads, Publish(t) \/ \E s \in Stages : Work(t, s)
  PROVE  UNCHANGED Contract!contract
  <1>1. UNCHANGED <<accepting, event, opLock, answer>>
    BY DEF Publish, Work, locks
  <1>2. PICK label : Goto(t, label) /\ PhaseAt(pc'[t]) = PhaseAt(pc[t])
    BY DEF IInv, TypeOK, Publish, Work, Goto, PhaseAt, Owning
  <1>3. UNCHANGED Phase
    BY <1>2, PhaseStays DEF IInv
  <1>. QED  BY <1>1, <1>3 DEF Phase, Contract!contract

\* complete() decides the answer and frees the slot.
LEMMA CompleteRefines ==
  ASSUME IInv, NEW t \in Threads, Complete(t)
  PROVE  \E result \in Contract!Results : Contract!Finish(t, result)
  <1>1. active = t /\ opLock = t /\ opLock' = NoThread
    BY DEF IInv, TypeOK, LockInv, Owning, Complete
  <1>2. Goto(t, "leaving") /\ PhaseAt(pc[t]) = "repairing" /\ PhaseAt(pc'[t]) = "answered"
    BY DEF IInv, TypeOK, Complete, Goto, PhaseAt, Owning
  <1>3. Contract!Move(t, "repairing", "answered")
    BY <1>2, PhaseMoves DEF IInv
  <1>. DEFINE result == IF event[t] /\ stage[t] = "ready" THEN "cancelled" ELSE stage[t]
  <1>4. stage[t] \in Stages
    BY DEF IInv, TypeOK, EventInv, Complete
  <1>5. /\ result \in Contract!Results
        /\ result = "ready" => ~event[t]
        /\ result = "cancelled" => event[t]
    BY <1>4 DEF IInv, EventInv, Complete, Stages, Contract!Results
  <1>6. answer' = [answer EXCEPT ![t] = result] /\ UNCHANGED <<accepting, event>>
    BY DEF Complete, Reply
  <1>7. Contract!Finish(t, result)
    BY <1>1, <1>3, <1>5, <1>6 DEF Contract!Finish, Contract!Tell
  <1>. QED  BY <1>5, <1>7

\* A cancel request and the shutdown doom whom the contract says.
LEMMA CancelRefines ==
  ASSUME IInv, CloseAdmission \/ \E c \in Components : Cancel(c)
  PROVE  Contract!Shutdown \/ \E t \in Threads : Contract!Cancel(t)
  <1>1. UNCHANGED Phase /\ UNCHANGED <<opLock, answer>>
    BY PhasesStay DEF CloseAdmission, Cancel, request, locks
  <1>2. CASE CloseAdmission
    <2>1. \A t \in Threads : t \in workers <=> Phase[t] # "away"
      BY DEF IInv, TypeOK, EventInv, Phase, PhaseAt, Owning
    <2>2. Doomed' = Doomed \cup {t \in Threads : Phase[t] # "away"}
      BY <1>2, <2>1 DEF IInv, TypeOK, CloseAdmission, Doomed
    <2>. QED
      BY <1>1, <1>2, <2>2 DEF CloseAdmission, Doomed, Phase, Contract!Shutdown
  <1>3. CASE \E c \in Components : Cancel(c)
    <2>. PICK c \in Components : Cancel(c)  BY <1>3
    <2>1. active \in Threads /\ opLock = active
      BY DEF IInv, TypeOK, LockInv, Owning, Cancel
    <2>2. Doomed' = Doomed \cup {active} /\ UNCHANGED accepting
      BY <2>1 DEF IInv, TypeOK, Cancel, Doomed
    <2>3. PICK t \in Threads : t = active
      BY <2>1
    <2>4. Contract!Cancel(t)
      BY <1>1, <2>1, <2>2, <2>3 DEF Doomed, Phase, Contract!Cancel
    <2>. QED  BY <2>4
  <1>. QED  BY <1>2, <1>3

\* Every step is one the contract allows.
LEMMA NextRefines ==
  ASSUME IInv, [Next]_vars
  PROVE  [Contract!ContractNext]_(Contract!contract)
  <1>1. ASSUME NEW t \in Threads, Publish(t) \/ \E s \in Stages : Work(t, s)
        PROVE  UNCHANGED Contract!contract
    BY <1>1, WorkStutters
  <1>2. CASE UNCHANGED vars
    <2>1. UNCHANGED Phase
      BY <1>2, PhasesStay DEF vars, request
    <2>. QED
      BY <1>2, <2>1 DEF vars, locks, request, Phase, Contract!contract
  <1>. QED
    BY <1>1, <1>2, AdmissionRefines, BeginRefines, CompleteRefines,
       CancelRefines DEF Next, RepairStep, Contract!ContractNext

\* A controller nobody has used is the contract's.
LEMMA InitRefines == Init => Contract!ContractInit
  <1>. SUFFICES ASSUME Init
                PROVE  Contract!ContractInit
    OBVIOUS
  <1>1. Phase = [t \in Threads |-> "away"]
    BY PhaseIs DEF Init, PhaseAt, Owning
  <1>. QED  BY <1>1 DEF Init, Phase, Contract!ContractInit

\* What setup_api.py and operations.py do with two locks, an event and a
\* ticket keeps the promises of one slot, for any number of threads.
THEOREM Refinement == Spec => ImplementsContract
  <1>1. IInv /\ [Next]_vars => [Contract!ContractNext]_(Contract!contract)
    BY NextRefines
  <1>. QED
    BY InitRefines, <1>1, Invariance, PTL
       DEF Spec, ImplementsContract, Contract!ContractSpec
-----------------------------------------------------------------------------
(* What a repair relies on, and that repairs go on *)

\* What a repair lets an installer answer is what InstallerContract lets one
\* answer, so the theorems here hold of every installer that implements it:
\* SetupTools and ManagedKali do.
THEOREM InstallersAreCovered ==
  ASSUME NEW t \in Threads, NEW s \in Stages, IInv,
         pc' = [pc EXCEPT ![t] = "completing"],
         stage' = [stage EXCEPT ![t] = s],
         UNCHANGED <<accepting, workers, event, locks, component, answer,
                     confirmed, repairs>>
  PROVE  Installer(t)!Return(s) <=> Work(t, s)
  <1>1. pc'[t] = "completing" /\ stage'[t] = s
    BY DEF IInv, TypeOK
  <1>. QED  BY <1>1 DEF Installer!Return, Work, Goto

\* The safety half of RepairsEnd: whoever has the operation lock is at a
\* statement between begin and complete, where only its own steps take it on,
\* and nobody waits for the lock.
THEOREM RepairIsUnderWay ==
  Spec => [](opLock # NoThread => opLock \in Threads /\ pc[opLock] \in Owning)
  <1>1. IInv => (opLock # NoThread => opLock \in Threads /\ pc[opLock] \in Owning)
    BY DEF IInv, TypeOK, LockInv
  <1>. QED  BY <1>1, Invariance, PTL
=============================================================================
