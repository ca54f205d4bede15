-------------------------- MODULE ActionExecution --------------------------
(* The path of one approved action, from the user's decision to the stored   *)
(* result: approve, reject, the claim of POST /run, the check under the      *)
(* execution fence, the dispatch to Kali and the write of the result, with   *)
(* the emergency stop, session closing and expiry running beside them, and   *)
(* a process that can crash.                                                 *)
(* Sources: redpath/execution_api.py, execution_fence.py, stop_api.py,       *)
(* approval_api.py (decisions), session_api.py (close and expiry).           *)
(*                                                                           *)
(* Abstracted: proposal contents, hashes and policies.  A stored proposal,   *)
(* its target and its policy row never change, so the recomputed hash and    *)
(* the policy read again give what they gave at approval.                    *)
EXTENDS Integers, FiniteSets

CONSTANTS
    Sessions,        \* lab sessions, each with its one authorised target
    Proposals,       \* stored proposals, each with an allowing policy row
    SessionOf,       \* the session of a proposal
    Workers,         \* threads that serve POST .../run
    Operators,       \* threads that serve the emergency-stop endpoints
    Nobody,          \* the fence's holder when its lock is free
    NoProposal,      \* the job of an idle worker
    SessionExpiry,   \* [Sessions -> time], expires_at of the session
    TargetExpiry,    \* [Sessions -> time], expires_at of its target
    ApprovalTtl,     \* APPROVAL_TTL
    MaxNow,          \* bound on the clock
    MaxStops,        \* bound on stop and clear requests
    MaxFaults,       \* bound on failed database writes
    MaxCrashes       \* bound on crashes of the process

ASSUME SessionOfAssumption == SessionOf \in [Proposals -> Sessions]
ASSUME ExpiryAssumption ==
    /\ SessionExpiry \in [Sessions -> Nat]
    /\ TargetExpiry \in [Sessions -> Nat]
    /\ \A s \in Sessions : TargetExpiry[s] <= SessionExpiry[s]
ASSUME BoundAssumption ==
    /\ ApprovalTtl \in Nat
    /\ MaxNow \in Nat
    /\ MaxStops \in Nat
    /\ MaxFaults \in Nat
    /\ MaxCrashes \in Nat
ASSUME ActorAssumption ==
    /\ Workers \cap Operators = {}
    /\ Nobody \notin Workers \cup Operators
    /\ NoProposal \notin Proposals

VARIABLES
    now,            \* the clock every handler reads
    \* SQLite: survives a crash
    session,        \* lab_sessions.state, "preparing" before there is a target
    targetLocked,   \* authorized_targets.locked
    decision,       \* approvals.status of a proposal, "none" before it
    expiresAt,      \* approvals.expires_at
    used,           \* approvals.used_at is set
    action,         \* actions.status of a proposal, "none" before its claim
    stopActive,     \* emergency_stop.active
    \* memory of the process: lost in a crash
    holder,         \* who holds ExecutionFence._lock
    stopped,        \* ExecutionFence._stopped
    pc,             \* where each /run thread is
    job,            \* the proposal it runs
    outcome,        \* the status it is about to store
    opc,            \* where each emergency-stop thread is
    closing,        \* sessions a close request, with its target, has read
    blind,          \* sessions one looked at before they had a target
    expiring,       \* sessions a reader found overdue and not yet written
    \* outside the process
    kali,           \* how many times each proposal was sent to Kali
    \* history, and the counters behind the bounds
    granted,        \* proposals whose start the fence has granted
    count

approval == <<decision, expiresAt, used>>
db == <<session, targetLocked, approval, action, stopActive>>
fence == <<holder, stopped>>
threads == <<pc, job, outcome>>
handlers == <<closing, blind, expiring>>
vars == <<now, session, targetLocked, decision, expiresAt, used, action,
          stopActive, holder, stopped, pc, job, outcome, opc, closing,
          blind, expiring, kali, granted, count>>

TerminalStatus == {"completed", "failed", "timed_out", "cancelled"}
DispatchStatus == {"completed", "failed", "timed_out"}
InFence == {"checkStop", "checkSession", "markExpired", "checkTarget",
            "checkApproval"}
Pcs == InFence \cup {"idle", "claimed", "granted", "inFlight", "finish"}

Lesser(a, b) == IF a <= b THEN a ELSE b

-----------------------------------------------------------------------------
(* Reads shared by the handlers *)

Overdue(s) == now >= SessionExpiry[s]
\* Mutant: the lock on a closed session's target is not looked at.
TargetUnexpired(s) == now < TargetExpiry[s]

TargetUsable(s) == ~targetLocked[s] /\ now < TargetExpiry[s]

\* _decision_context under BEGIN IMMEDIATE, where nothing changes meanwhile.
InContext(p) ==
    LET s == SessionOf[p]
    IN session[s] = "ready" /\ ~Overdue(s) /\ TargetUsable(s)

\* revalidate_approval_before_execution, without the use marker.
ApprovalValid(p) ==
    /\ ~stopActive
    /\ decision[p] = "approved"
    /\ now < expiresAt[p]

\* Mutant: the approval's expiry is not capped by session and target.
UncappedExpiry(p) == now + ApprovalTtl

\* The expiry of a decision taken now.
DecisionExpiry(p) ==
    LET s == SessionOf[p]
    IN Lesser(Lesser(SessionExpiry[s], TargetExpiry[s]), now + ApprovalTtl)

Init ==
    /\ now = 0
    /\ session = [s \in Sessions |-> "preparing"]
    /\ targetLocked = [s \in Sessions |-> FALSE]
    /\ decision = [p \in Proposals |-> "none"]
    /\ expiresAt = [p \in Proposals |-> 0]
    /\ used = [p \in Proposals |-> FALSE]
    /\ action = [p \in Proposals |-> "none"]
    /\ stopActive = FALSE
    /\ holder = Nobody
    /\ stopped = FALSE
    /\ pc = [w \in Workers |-> "idle"]
    /\ job = [w \in Workers |-> NoProposal]
    /\ outcome = [w \in Workers |-> "none"]
    /\ opc = [o \in Operators |-> "idle"]
    /\ closing = {}
    /\ blind = {}
    /\ expiring = {}
    /\ kali = [p \in Proposals |-> 0]
    /\ granted = {}
    /\ count = [stops |-> 0, faults |-> 0, crashes |-> 0]

-----------------------------------------------------------------------------
(* Decisions and sessions *)

Tick ==
    /\ now < MaxNow
    /\ now' = now + 1
    /\ UNCHANGED <<db, fence, threads, opc, handlers, kali, granted, count>>

Record(p, status) ==
    /\ decision' = [decision EXCEPT ![p] = status]
    /\ expiresAt' = [expiresAt EXCEPT ![p] = DecisionExpiry(p)]
    /\ used' = [used EXCEPT ![p] = FALSE]

Approve(p) ==
    /\ InContext(p)
    /\ ~stopActive
    /\ decision[p] = "none"
    /\ Record(p, "approved")
    /\ UNCHANGED <<now, session, targetLocked, action, stopActive, fence,
                   threads, opc, handlers, kali, granted, count>>

Reject(p) ==
    /\ InContext(p)
    /\ decision[p] = "none"
    /\ Record(p, "rejected")
    /\ UNCHANGED <<now, session, targetLocked, action, stopActive, fence,
                   threads, opc, handlers, kali, granted, count>>

\* add_target.  Requests that read the session before it had a target go on: a
\* close may still look for the target, or may already have found none.
Register(s) ==
    /\ session[s] = "preparing"
    /\ session' = [session EXCEPT ![s] = "ready"]
    /\ closing' \in {closing, closing \cup {s}}
    /\ blind' \in {blind, blind \cup {s}}
    /\ \/ UNCHANGED expiring
       \/ Overdue(s) /\ expiring' = expiring \cup {s}
    /\ UNCHANGED <<now, targetLocked, approval, action, stopActive, fence,
                   threads, opc, kali, granted, count>>

\* approve, reject or the claim meets an overdue session: the handler writes
\* EXPIRED in its own immediate transaction and refuses.
ExpireInTransaction(s) ==
    /\ session[s] = "ready"
    /\ Overdue(s)
    /\ session' = [session EXCEPT ![s] = "expired"]
    /\ UNCHANGED <<now, targetLocked, approval, action, stopActive, fence,
                   threads, opc, handlers, kali, granted, count>>

\* Handlers outside BEGIN IMMEDIATE read the session first and write it later;
\* after a commit, another request may still have to write the same session.
OneLess(requests, s) == {requests, requests \ {s}}

BeginClose(s) ==
    /\ session[s] = "ready"
    /\ ~Overdue(s)
    /\ closing' = closing \cup {s}
    /\ UNCHANGED <<now, db, fence, threads, opc, blind, expiring, kali, granted,
                   count>>

CommitClose(s) ==
    /\ s \in closing
    /\ session' = [session EXCEPT ![s] = "completed"]
    /\ targetLocked' = [targetLocked EXCEPT ![s] = TRUE]
    /\ closing' \in OneLess(closing, s)
    /\ UNCHANGED <<now, approval, action, stopActive, fence, threads, opc,
                   blind, expiring, kali, granted, count>>

\* The request found no target to lock, and add_target committed since.
CommitBlindClose(s) ==
    /\ s \in blind
    /\ session' = [session EXCEPT ![s] = "completed"]
    /\ blind' \in OneLess(blind, s)
    /\ UNCHANGED <<now, targetLocked, approval, action, stopActive, fence,
                   threads, opc, closing, expiring, kali, granted, count>>

BeginExpire(s) ==
    /\ session[s] = "ready"
    /\ Overdue(s)
    /\ expiring' = expiring \cup {s}
    /\ UNCHANGED <<now, db, fence, threads, opc, closing, blind, kali, granted,
                   count>>

CommitExpire(s) ==
    /\ s \in expiring
    /\ session' = [session EXCEPT ![s] = "expired"]
    /\ expiring' \in OneLess(expiring, s)
    /\ UNCHANGED <<now, targetLocked, approval, action, stopActive, fence,
                   threads, opc, closing, blind, kali, granted, count>>

\* Requests end before they commit.
Abandon ==
    /\ closing' \in SUBSET closing
    /\ blind' \in SUBSET blind
    /\ expiring' \in SUBSET expiring
    /\ UNCHANGED <<now, db, fence, threads, opc, kali, granted, count>>

-----------------------------------------------------------------------------
(* POST /run *)

Goto(w, label) == pc' = [pc EXCEPT ![w] = label]

\* A worker that ends its request forgets it.
Leave(w) ==
    /\ Goto(w, "idle")
    /\ job' = [job EXCEPT ![w] = NoProposal]
    /\ outcome' = [outcome EXCEPT ![w] = "none"]

\* The worker stores this status next.
Conclude(w, status) ==
    /\ Goto(w, "finish")
    /\ outcome' = [outcome EXCEPT ![w] = status]
    /\ UNCHANGED job

\* Mutant: the claim trusts the approval and does not look for an earlier one.
ClaimAgain(w, p) ==
    /\ pc[w] = "idle"
    /\ InContext(p)
    /\ ApprovalValid(p)
    /\ action' = [action EXCEPT ![p] = "running"]
    /\ used' = [used EXCEPT ![p] = TRUE]
    /\ Goto(w, "claimed")
    /\ job' = [job EXCEPT ![w] = p]
    /\ UNCHANGED <<now, session, targetLocked, decision, expiresAt, stopActive,
                   fence, outcome, opc, handlers, kali, granted, count>>

\* The claim: one immediate transaction that checks everything, inserts the
\* running action and marks the approval used.
Claim(w, p) ==
    /\ pc[w] = "idle"
    /\ InContext(p)
    /\ ApprovalValid(p)
    /\ ~used[p]
    /\ action[p] = "none"
    /\ action' = [action EXCEPT ![p] = "running"]
    /\ used' = [used EXCEPT ![p] = TRUE]
    /\ Goto(w, "claimed")
    /\ job' = [job EXCEPT ![w] = p]
    /\ UNCHANGED <<now, session, targetLocked, decision, expiresAt, stopActive,
                   fence, outcome, opc, handlers, kali, granted, count>>

\* Mutant: the durable check runs without taking the lock.
EnterUnlocked(w) ==
    /\ pc[w] = "claimed"
    /\ ~stopped
    /\ Goto(w, "checkStop")
    /\ UNCHANGED <<now, db, fence, job, outcome, opc, handlers, kali, granted,
                   count>>

\* Mutant: a stop held only in memory is not looked at.
EnterIfFree(w) ==
    /\ pc[w] = "claimed"
    /\ holder = Nobody
    /\ holder' = w
    /\ Goto(w, "checkStop")
    /\ UNCHANGED <<now, db, stopped, job, outcome, opc, handlers, kali, granted,
                   count>>

\* try_start takes the lock and returns at once if the fence is stopped.
EnterFence(w) ==
    /\ pc[w] = "claimed"
    /\ holder = Nobody
    /\ IF stopped
       THEN Conclude(w, "cancelled") /\ UNCHANGED holder
       ELSE /\ holder' = w
            /\ Goto(w, "checkStop")
            /\ UNCHANGED <<job, outcome>>
    /\ UNCHANGED <<now, db, stopped, opc, handlers, kali, granted, count>>

\* Mutant: a failed check answers 409 and leaves the action running.
CheckOrLeave(w, at, passes, next) ==
    /\ pc[w] = at
    /\ IF passes
       THEN Goto(w, next) /\ UNCHANGED <<holder, job, outcome>>
       ELSE Leave(w) /\ holder' = Nobody

\* A check under the fence: go on to the next one, or release and cancel.
Check(w, at, passes, next) ==
    /\ pc[w] = at
    /\ IF passes
       THEN Goto(w, next) /\ UNCHANGED <<holder, job, outcome>>
       ELSE Conclude(w, "cancelled") /\ holder' = Nobody

\* The durable stop row; finding it set also stops the fence.
CheckStop(w) ==
    /\ Check(w, "checkStop", ~stopActive, "checkSession")
    /\ stopped' = (stopped \/ stopActive)
    /\ UNCHANGED <<now, db, opc, handlers, kali, granted, count>>

\* active_session, read outside any transaction.
CheckSession(w) ==
    LET s == SessionOf[job[w]] IN
    /\ Check(w, "checkSession", session[s] = "ready",
             IF Overdue(s) THEN "markExpired" ELSE "checkTarget")
    /\ UNCHANGED <<now, db, stopped, opc, handlers, kali, granted, count>>

MarkExpired(w) ==
    /\ Check(w, "markExpired", FALSE, "idle")
    /\ session' = [session EXCEPT ![SessionOf[job[w]]] = "expired"]
    /\ UNCHANGED <<now, targetLocked, approval, action, stopActive, stopped,
                   opc, handlers, kali, granted, count>>

CheckTarget(w) ==
    /\ Check(w, "checkTarget", TargetUsable(SessionOf[job[w]]), "checkApproval")
    /\ UNCHANGED <<now, db, stopped, opc, handlers, kali, granted, count>>

\* The claimed action and its approval; passing releases the fence and grants
\* the start.
CheckApproval(w) ==
    LET p == job[w] IN
    /\ pc[w] = "checkApproval"
    /\ holder' = Nobody
    /\ IF ApprovalValid(p) /\ used[p] /\ action[p] = "running"
       THEN /\ Goto(w, "granted")
            /\ granted' = granted \cup {p}
            /\ UNCHANGED <<job, outcome>>
       ELSE Conclude(w, "cancelled") /\ UNCHANGED granted
    /\ UNCHANGED <<now, db, stopped, opc, handlers, kali, count>>

\* Outside the fence and outside any transaction.
Dispatch(w) ==
    /\ pc[w] = "granted"
    /\ Goto(w, "inFlight")
    /\ kali' = [kali EXCEPT ![job[w]] = kali[job[w]] + 1]
    /\ UNCHANGED <<now, db, fence, job, outcome, opc, handlers, granted, count>>

\* No dispatcher is configured.
NoDispatcher(w) ==
    /\ pc[w] = "granted"
    /\ Conclude(w, "failed")
    /\ UNCHANGED <<now, db, fence, opc, handlers, kali, granted, count>>

\* The dispatcher returns a result, a malformed one, or raises.
DispatchReturns(w, status) ==
    /\ pc[w] = "inFlight"
    /\ Conclude(w, status)
    /\ UNCHANGED <<now, db, fence, opc, handlers, kali, granted, count>>

PersistResult(w) ==
    /\ pc[w] = "finish"
    /\ action' = [action EXCEPT ![job[w]] = outcome[w]]
    /\ Leave(w)
    /\ UNCHANGED <<now, session, targetLocked, approval, stopActive, fence,
                   opc, handlers, kali, granted, count>>

Fault ==
    /\ count.faults < MaxFaults
    /\ count' = [count EXCEPT !.faults = @ + 1]

\* Mutant: a failed write is answered by cancelling the action.
RunFailsCancelling(w) ==
    /\ pc[w] \in InFence \cup {"finish"}
    /\ Fault
    /\ holder' = IF holder = w THEN Nobody ELSE holder
    /\ action' = [action EXCEPT ![job[w]] = "cancelled"]
    /\ Leave(w)
    /\ UNCHANGED <<now, session, targetLocked, approval, stopActive, stopped,
                   opc, handlers, kali, granted>>

\* A database error that the handler does not catch ends the request where
\* it is; leaving the with block releases the fence.
RunFails(w) ==
    /\ pc[w] \in InFence \cup {"finish"}
    /\ Fault
    /\ holder' = IF holder = w THEN Nobody ELSE holder
    /\ Leave(w)
    /\ UNCHANGED <<now, db, stopped, opc, handlers, kali, granted>>

-----------------------------------------------------------------------------
(* Emergency stop: both requests write the row while they hold the fence *)

TakeFence(o, label) ==
    /\ opc[o] = "idle"
    /\ holder = Nobody
    /\ holder' = o
    /\ opc' = [opc EXCEPT ![o] = label]
    /\ count.stops < MaxStops
    /\ count' = [count EXCEPT !.stops = @ + 1]

DropFence(o, label) ==
    /\ opc[o] = label
    /\ holder' = Nobody
    /\ opc' = [opc EXCEPT ![o] = "idle"]

\* Mutant: the stop request does not wait for the fence.
BeginUnfenced(o) ==
    /\ opc[o] = "idle"
    /\ opc' = [opc EXCEPT ![o] = "activating"]
    /\ count.stops < MaxStops
    /\ count' = [count EXCEPT !.stops = @ + 1]
    /\ stopped' = TRUE
    /\ UNCHANGED <<now, db, holder, threads, handlers, kali, granted>>

BeginActivate(o) ==
    /\ TakeFence(o, "activating")
    /\ stopped' = TRUE
    /\ UNCHANGED <<now, db, threads, handlers, kali, granted>>

PersistActivate(o) ==
    /\ DropFence(o, "activating")
    /\ stopActive' = TRUE
    /\ UNCHANGED <<now, session, targetLocked, approval, action, stopped,
                   threads, handlers, kali, granted, count>>

\* Mutant: a failed write leaves the lock taken.
ActivateFailsLocked(o) ==
    /\ opc[o] = "activating"
    /\ opc' = [opc EXCEPT ![o] = "idle"]
    /\ Fault
    /\ UNCHANGED <<now, db, fence, threads, handlers, kali, granted>>

\* The write fails, before the commit or after it: the fence stays stopped.
ActivateFails(o) ==
    /\ DropFence(o, "activating")
    /\ stopActive' = TRUE \/ UNCHANGED stopActive
    /\ Fault
    /\ UNCHANGED <<now, session, targetLocked, approval, action, stopped,
                   threads, handlers, kali, granted>>

BeginClear(o) ==
    /\ TakeFence(o, "clearing")
    /\ UNCHANGED <<now, db, stopped, threads, handlers, kali, granted>>

PersistClear(o) ==
    /\ DropFence(o, "clearing")
    /\ stopActive' = FALSE
    /\ stopped' = FALSE
    /\ UNCHANGED <<now, session, targetLocked, approval, action,
                   threads, handlers, kali, granted, count>>

ClearFails(o) ==
    /\ DropFence(o, "clearing")
    /\ stopActive' = FALSE \/ UNCHANGED stopActive
    /\ Fault
    /\ UNCHANGED <<now, session, targetLocked, approval, action, stopped,
                   threads, handlers, kali, granted>>

-----------------------------------------------------------------------------
\* Mutant: starting again resets the stop row.
CrashForgetsStop ==
    /\ count.crashes < MaxCrashes
    /\ count' = [count EXCEPT !.crashes = @ + 1]
    /\ holder' = Nobody
    /\ stopped' = FALSE
    /\ stopActive' = FALSE
    /\ pc' = [w \in Workers |-> "idle"]
    /\ job' = [w \in Workers |-> NoProposal]
    /\ outcome' = [w \in Workers |-> "none"]
    /\ opc' = [o \in Operators |-> "idle"]
    /\ closing' = {}
    /\ blind' = {}
    /\ expiring' = {}
    /\ UNCHANGED <<now, session, targetLocked, approval, action, kali, granted>>

(* The process dies and is started again: create_app builds a new fence, and *)
(* nothing looks at the actions left running.                                *)
Crash ==
    /\ count.crashes < MaxCrashes
    /\ count' = [count EXCEPT !.crashes = @ + 1]
    /\ holder' = Nobody
    /\ stopped' = FALSE
    /\ pc' = [w \in Workers |-> "idle"]
    /\ job' = [w \in Workers |-> NoProposal]
    /\ outcome' = [w \in Workers |-> "none"]
    /\ opc' = [o \in Operators |-> "idle"]
    /\ closing' = {}
    /\ blind' = {}
    /\ expiring' = {}
    /\ UNCHANGED <<now, db, kali, granted>>

-----------------------------------------------------------------------------
RunStep(w) ==
    \/ EnterFence(w) \/ CheckStop(w) \/ CheckSession(w) \/ MarkExpired(w)
    \/ CheckTarget(w) \/ CheckApproval(w) \/ Dispatch(w) \/ NoDispatcher(w)
    \/ \E status \in DispatchStatus : DispatchReturns(w, status)
    \/ PersistResult(w)

StopStep(o) == PersistActivate(o) \/ PersistClear(o)

Decide(p) == Approve(p) \/ Reject(p)

SessionStep(s) ==
    \/ Register(s) \/ ExpireInTransaction(s)
    \/ BeginClose(s) \/ CommitClose(s) \/ CommitBlindClose(s)
    \/ BeginExpire(s) \/ CommitExpire(s)

Next ==
    \/ Tick
    \/ Crash
    \/ Abandon
    \/ \E p \in Proposals : Decide(p)
    \/ \E s \in Sessions : SessionStep(s)
    \/ \E w \in Workers :
         RunStep(w) \/ RunFails(w) \/ \E p \in Proposals : Claim(w, p)
    \/ \E o \in Operators :
         \/ StopStep(o) \/ BeginActivate(o) \/ BeginClear(o)
         \/ ActivateFails(o) \/ ClearFails(o)

Spec == Init /\ [][Next]_vars

(* Python runs every ready thread, the dispatcher answers within its own     *)
(* timeout, and a stop request that holds the fence finishes its write.      *)
Fairness ==
    /\ \A w \in Workers : WF_vars(RunStep(w))
    /\ \A o \in Operators : WF_vars(StopStep(o))

FairSpec == Spec /\ Fairness

-----------------------------------------------------------------------------
(* Properties *)

\* Every variable keeps the type of the row or the field it models.
TypeOK ==
    /\ now \in Nat
    /\ session \in [Sessions -> {"preparing", "ready", "completed", "expired"}]
    /\ targetLocked \in [Sessions -> BOOLEAN]
    /\ decision \in [Proposals -> {"none", "approved", "rejected"}]
    /\ expiresAt \in [Proposals -> Nat]
    /\ used \in [Proposals -> BOOLEAN]
    /\ action \in [Proposals -> TerminalStatus \cup {"none", "running"}]
    /\ stopActive \in BOOLEAN
    /\ holder \in Workers \cup Operators \cup {Nobody}
    /\ stopped \in BOOLEAN
    /\ pc \in [Workers -> Pcs]
    /\ job \in [Workers -> Proposals \cup {NoProposal}]
    /\ outcome \in [Workers -> TerminalStatus \cup {"none"}]
    /\ opc \in [Operators -> {"idle", "activating", "clearing"}]
    /\ closing \in SUBSET Sessions
    /\ blind \in SUBSET Sessions
    /\ expiring \in SUBSET Sessions
    /\ kali \in [Proposals -> Nat]
    /\ granted \in SUBSET Proposals
    /\ count \in [stops : Nat, faults : Nat, crashes : Nat]

\* Whatever the number of requests, retries, failed writes and crashes, a
\* proposal is sent to Kali at most once (execution_api, the claim).
AtMostOneDispatch == \A p \in Proposals : kali[p] <= 1

\* What the stored status tells the user is true of Kali: a cancelled action
\* was never sent, and one with a result from Kali was sent.
StatusTellsTheTruth ==
    \A p \in Proposals :
        /\ action[p] \in {"none", "cancelled"} => kali[p] = 0
        /\ action[p] \in {"completed", "timed_out"} => kali[p] = 1

\* Only an approved, consumed approval ever reaches Kali; a rejected proposal
\* never has an action.
DispatchIsApproved ==
    \A p \in Proposals :
        /\ kali[p] > 0 => decision[p] = "approved" /\ used[p]
        /\ decision[p] = "rejected" => action[p] = "none"

\* No start is granted while the stop row is active or the fence is stopped,
\* although the row is read several steps before the grant and a stop that
\* could not be stored leaves no row at all.
StopBlocksStart ==
    [][granted' # granted => ~stopActive /\ ~stopped]_vars

\* A stop that was stored keeps blocking starts across crashes: only a clear
\* request lifts it.
OnlyClearLiftsStop ==
    [][stopActive /\ ~stopActive' => \E o \in Operators : opc[o] = "clearing"]_vars

\* A start is granted before the session and its target expire, although both
\* were read earlier: the approval's own expiry is read last and is never
\* later than theirs.
StartBeforeExpiry ==
    [][\A p \in granted' \ granted :
         now < SessionExpiry[SessionOf[p]] /\ now < TargetExpiry[SessionOf[p]]]_vars

\* A close that locked the target keeps every action from starting that has not
\* yet passed the target check, even one whose session check came before the
\* close, and nothing unlocks the target again.
Committed(p) ==
    p \in granted \/ \E w \in Workers : job[w] = p /\ pc[w] = "checkApproval"
ClosedSessionStartsNothing ==
    [][\A p \in Proposals :
         targetLocked[SessionOf[p]] =>
             /\ targetLocked'[SessionOf[p]]
             /\ Committed(p)' => Committed(p)]_vars

\* A stored result is final and a consumed approval stays consumed.
RecordsAreFinal ==
    [][\A p \in Proposals :
         /\ action[p] \in TerminalStatus => action'[p] = action[p]
         /\ used[p] => used'[p] /\ decision'[p] = decision[p]]_vars

\* Every claimed action gets a result unless a write fails or the process dies.
Unharmed == count.faults + count.crashes = 0
ClaimSettles ==
    \A p \in Proposals :
        action[p] = "running" ~> action[p] \in TerminalStatus \/ ~Unharmed

\* The fence is always released again, failed writes and crashes included.
FenceIsReleased == holder # Nobody ~> holder = Nobody

\* Design document, "Emergency stop": the durable state "is checked again
\* immediately before dispatch".  So nothing is sent while it is active.
NothingSentWhileStopped == [][kali' # kali => ~stopActive]_vars

-----------------------------------------------------------------------------
(* The inductive invariant behind the safety properties *)

Running(w) == pc[w] # "idle"
PastGrant == {"granted", "inFlight"}

\* A busy worker owns one running action, and no other worker has it; until a
\* write fails or the process dies, every running action has its worker.
JobInv ==
    /\ \A w \in Workers : Running(w) => job[w] \in Proposals
    /\ \A w \in Workers : Running(w) => action[job[w]] = "running"
    /\ \A v, w \in Workers :
         Running(v) /\ Running(w) /\ job[v] = job[w] => v = w
    /\ Unharmed => \A p \in Proposals :
         action[p] = "running" => \E w \in Workers : Running(w) /\ job[w] = p

\* The lock's holder is where the lock is held, and nowhere else.
HolderInv ==
    /\ \A w \in Workers : pc[w] \in InFence <=> holder = w
    /\ \A o \in Operators : opc[o] # "idle" <=> holder = o

\* What a worker knows of its grant, its dispatch and the status it will store.
ProgressInv ==
    \A w \in Workers :
        /\ pc[w] \in InFence \cup {"claimed"} => job[w] \notin granted
        /\ pc[w] \in PastGrant => job[w] \in granted
        /\ pc[w] = "granted" => kali[job[w]] = 0
        /\ pc[w] = "inFlight" => kali[job[w]] = 1
        /\ pc[w] = "finish" =>
             /\ outcome[w] \in TerminalStatus
             /\ outcome[w] = "cancelled" => job[w] \notin granted
             /\ outcome[w] # "cancelled" => job[w] \in granted
             /\ outcome[w] \in {"completed", "timed_out"} => kali[job[w]] = 1

\* How the tables, the grants and Kali's inbox agree.
RecordInv ==
    \A p \in Proposals :
        /\ used[p] <=> action[p] # "none"
        /\ used[p] => decision[p] = "approved"
        /\ kali[p] \in {0, 1}
        /\ kali[p] = 1 => p \in granted
        /\ action[p] \in {"none", "cancelled"} => p \notin granted
        /\ action[p] \in DispatchStatus => p \in granted
        /\ action[p] \in {"completed", "timed_out"} => kali[p] = 1

\* Past the stop check and under the fence, no stop is in force; a request
\* that is being stored already stops the fence.
StopInv ==
    /\ \A w \in Workers :
         /\ pc[w] \in InFence => ~stopped
         /\ pc[w] \in InFence \ {"checkStop"} => ~stopActive
    /\ \A o \in Operators : opc[o] = "activating" => stopped

\* An approval never outlives the session or the target it is for.
ExpiryInv ==
    \A p \in Proposals :
        decision[p] # "none" =>
            /\ expiresAt[p] <= SessionExpiry[SessionOf[p]]
            /\ expiresAt[p] <= TargetExpiry[SessionOf[p]]

IInv ==
    /\ TypeOK
    /\ JobInv
    /\ HolderInv
    /\ ProgressInv
    /\ RecordInv
    /\ StopInv
    /\ ExpiryInv

-----------------------------------------------------------------------------
(* ActionExecution implements ExecutionContract *)

PhaseOf(p) ==
    CASE action[p] = "cancelled" -> "cancelled"
      [] action[p] \in DispatchStatus -> "finished"
      [] action[p] = "running" ->
           IF p \in granted THEN "started" ELSE "consumed"
      [] action[p] = "none" ->
           IF decision[p] = "none" THEN "open" ELSE decision[p]

HaltNow ==
    IF stopActive THEN "durable" ELSE IF stopped THEN "volatile" ELSE "no"

Contract == INSTANCE ExecutionContract
    WITH phase <- [p \in Proposals |-> PhaseOf(p)], halt <- HaltNow

\* Every behaviour of the code is one the abstract promise allows.
ImplementsContract == Contract!ContractSpec

-----------------------------------------------------------------------------
(* ActionExecution and SessionContract *)

OverdueSessions == {s \in Sessions : Overdue(s)}

\* Sessions that a worker under the fence is about to mark as expired.
Marking == {s \in Sessions :
              \E w \in Workers : pc[w] = "markExpired" /\ SessionOf[job[w]] = s}

\* The session routes alone, which SessionLifecycle implements.
Routes == INSTANCE SessionContract
    WITH state <- session, locked <- targetLocked, overdue <- OverdueSessions

\* The session routes and everything ActionExecution does to a session.
Whole == INSTANCE SessionContract
    WITH state <- session, locked <- targetLocked, overdue <- OverdueSessions,
         expiring <- expiring \cup Marking

\* Decisions, claims and runs treat a session as its own routes do.
KeepsSessionContract == Whole!ContractSpec
=============================================================================
