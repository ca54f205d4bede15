-------------------------- MODULE SessionLifecycle --------------------------
(* The routes of redpath/session_api.py: lab sessions, their target, their  *)
(* evidence and their proposals, and the audit event each route commits     *)
(* with its record.  A request reads a session first and commits later;     *)
(* between the two no transaction is open (SQLite, autoflush off), so other *)
(* requests commit in between.  A handler that writes commits once.         *)
(*                                                                          *)
(* Abstracted: the contents of rows, the validation of bodies (a rejected   *)
(* body ends the request like a failed write), the provider's answer.  Time *)
(* is the moment at which a session, or its target, becomes overdue.        *)
EXTENDS Integers

CONSTANTS
    Sessions,
    Confirmed,    \* sessions created with authorization_confirmed
    Requests,     \* threads that serve requests
    MaxRequests   \* bound on the requests served

ASSUME ConfirmedAssumption == Confirmed \subseteq Sessions
ASSUME RequestAssumption == MaxRequests \in Nat

VARIABLES
    state,        \* LabSession.state; "none" before the row exists
    target,       \* AuthorizedTarget: none, open or locked
    overdue,      \* sessions whose expires_at has passed
    lapsed,       \* sessions whose target's expires_at has passed
    records,      \* number of rows of each kind of a session
    audit,        \* number of AuditEvents of each type of a session
    pc,           \* where each request is
    job,          \* the session it is about
    seen,         \* the session state it loaded
    found,        \* whether it found a target
    served        \* counts requests, for the bound

tables == <<state, target, records, audit>>
clock == <<overdue, lapsed>>
request == <<pc, job, seen, found>>
vars == <<state, target, overdue, lapsed, records, audit, pc, job, seen,
          found, served>>

Active == {"draft", "authorized", "ready"}
Ended == {"completed", "expired"}
Kinds == {"lesson", "import", "proposal"}
Events == Kinds \cup {"created", "expired", "closed", "target", "explained",
                      "fallback", "rejected"}
Routes == {"close", "lesson", "target", "import", "explain", "recommend"}

Init ==
    /\ state = [s \in Sessions |-> "none"]
    /\ target = [s \in Sessions |-> "none"]
    /\ overdue = {}
    /\ lapsed = {}
    /\ records = [x \in Sessions \X Kinds |-> 0]
    /\ audit = [x \in Sessions \X Events |-> 0]
    /\ pc = [r \in Requests |-> "idle"]
    /\ job \in [Requests -> Sessions]
    /\ seen = [r \in Requests |-> "none"]
    /\ found = [r \in Requests |-> FALSE]
    /\ served = 0

-----------------------------------------------------------------------------
(* The clock *)

SessionOverdue(s) ==
    /\ state[s] # "none"
    /\ s \notin overdue
    /\ overdue' = overdue \cup {s}
    /\ UNCHANGED <<tables, lapsed, request, served>>

TargetLapses(s) ==
    /\ target[s] # "none"
    /\ s \notin lapsed
    /\ lapsed' = lapsed \cup {s}
    /\ UNCHANGED <<tables, overdue, request, served>>

\* A target never outlives its session.
TargetUsable(s) ==
    /\ target[s] = "open"
    /\ s \notin lapsed \cup overdue
    /\ s \in Confirmed

-----------------------------------------------------------------------------
(* Reading *)

Goto(r, label) == pc' = [pc EXCEPT ![r] = label]
Log(s, e) == audit' = [audit EXCEPT ![<<s, e>>] = @ + 1]
Add(s, k) == records' = [records EXCEPT ![<<s, k>>] = @ + 1]

\* create_session
Create(s) ==
    /\ served < MaxRequests
    /\ served' = served + 1
    /\ state[s] = "none"
    /\ state' = [state EXCEPT ![s] =
                   IF s \in Confirmed THEN "authorized" ELSE "draft"]
    /\ Log(s, "created")
    /\ UNCHANGED <<target, clock, records, request>>

Load(r, s) ==
    /\ pc[r] = "idle"
    /\ served < MaxRequests
    /\ served' = served + 1
    /\ job' = [job EXCEPT ![r] = s]
    /\ seen' = [seen EXCEPT ![r] = state[s]]
    /\ found' = [found EXCEPT ![r] = FALSE]
    /\ UNCHANGED <<tables, clock>>

\* active_session, then the route; a session that has ended is refused, one
\* that is overdue is expired.
Begin(r, s, route) ==
    /\ state[s] \in Active
    /\ route = "target" /\ s \notin overdue => s \in Confirmed
    /\ Load(r, s)
    /\ Goto(r, IF s \in overdue THEN "expire" ELSE route)

\* Mutant: the deadline is not compared.
RefreshEarly(r, s) ==
    /\ state[s] \notin Ended \cup {"none"}
    /\ Load(r, s)
    /\ Goto(r, "expire")

\* get_session and list_sessions, for a session that is overdue.
Refresh(r, s) ==
    /\ state[s] \notin Ended \cup {"none"}
    /\ s \in overdue
    /\ Load(r, s)
    /\ Goto(r, "expire")

\* The query for the target of close_session, import_scan and
\* recommend_session_action.
ReadTarget(r) ==
    /\ pc[r] \in {"close", "import", "recommend"}
    /\ found' = [found EXCEPT ![r] =
                   IF pc[r] = "close" THEN target[job[r]] # "none"
                                      ELSE TargetUsable(job[r])]
    /\ Goto(r, CASE pc[r] = "close" -> "closing"
                 [] pc[r] = "import" -> "importing"
                 [] pc[r] = "recommend" -> "recommending")
    /\ UNCHANGED <<tables, clock, job, seen, served>>

-----------------------------------------------------------------------------
(* Committing *)

\* The request ends without a commit: it was refused or its write failed.
Abandon(r) ==
    /\ pc[r] # "idle"
    /\ Goto(r, "idle")
    /\ UNCHANGED <<tables, clock, job, seen, found, served>>

\* Every commit writes by primary key, whatever the row holds by now.
Expire(r) ==
    /\ pc[r] = "expire"
    /\ state' = [state EXCEPT ![job[r]] = "expired"]
    /\ Log(job[r], "expired")
    /\ Goto(r, "idle")
    /\ UNCHANGED <<target, clock, records, job, seen, found, served>>

Close(r) ==
    /\ pc[r] = "closing"
    /\ state' = [state EXCEPT ![job[r]] = "completed"]
    /\ target' = [target EXCEPT ![job[r]] = IF found[r] THEN "locked" ELSE @]
    /\ Log(job[r], "closed")
    /\ Goto(r, "idle")
    /\ UNCHANGED <<clock, records, job, seen, found, served>>

\* Mutant: the table has no unique session_id.
AddTargetAgain(r) ==
    /\ pc[r] = "target"
    /\ target' = [target EXCEPT ![job[r]] = "open"]
    /\ state' = [state EXCEPT ![job[r]] = "ready"]
    /\ Log(job[r], "target")
    /\ Goto(r, "idle")
    /\ UNCHANGED <<clock, records, job, seen, found, served>>

\* add_target: session_id is unique, so a second target fails at the flush and
\* nothing is committed.  A state that was loaded as "ready" is not written.
AddTarget(r) ==
    /\ pc[r] = "target"
    /\ target[job[r]] = "none"
    /\ target' = [target EXCEPT ![job[r]] = "open"]
    /\ state' = [state EXCEPT ![job[r]] = IF seen[r] = "ready" THEN @ ELSE "ready"]
    /\ Log(job[r], "target")
    /\ Goto(r, "idle")
    /\ UNCHANGED <<clock, records, job, seen, found, served>>

\* Mutant: the audit event is committed whether or not the lesson is.
AddLessonLogged(r) ==
    /\ pc[r] = "lesson"
    /\ IF records[<<job[r], "lesson">>] = 0
       THEN Add(job[r], "lesson") ELSE UNCHANGED records
    /\ Log(job[r], "lesson")
    /\ Goto(r, "idle")
    /\ UNCHANGED <<state, target, clock, job, seen, found, served>>

\* add_lesson_source: session_id is unique here too.
AddLesson(r) ==
    /\ pc[r] = "lesson"
    /\ records[<<job[r], "lesson">>] = 0
    /\ Add(job[r], "lesson")
    /\ Log(job[r], "lesson")
    /\ Goto(r, "idle")
    /\ UNCHANGED <<state, target, clock, job, seen, found, served>>

\* import_scan: the import is flushed, parsed and committed with its findings.
Import(r) ==
    /\ pc[r] = "importing"
    /\ found[r]
    /\ Add(job[r], "import")
    /\ Log(job[r], "import")
    /\ Goto(r, "idle")
    /\ UNCHANGED <<state, target, clock, job, seen, found, served>>

Explain(r) ==
    /\ pc[r] = "explain"
    /\ Log(job[r], "explained")
    /\ Goto(r, "idle")
    /\ UNCHANGED <<state, target, clock, records, job, seen, found, served>>

\* recommend_session_action with no usable target.
RejectRecommendation(r) ==
    /\ pc[r] = "recommending"
    /\ ~found[r]
    /\ Log(job[r], "rejected")
    /\ Goto(r, "idle")
    /\ UNCHANGED <<state, target, clock, records, job, seen, found, served>>

\* The provider's step is refused, and the rules have none either.
NoRecommendation(r) ==
    /\ pc[r] = "recommending"
    /\ found[r]
    /\ audit' = [audit EXCEPT ![<<job[r], "fallback">>] = @ + 1,
                              ![<<job[r], "rejected">>] = @ + 1]
    /\ Goto(r, "idle")
    /\ UNCHANGED <<state, target, clock, records, job, seen, found, served>>

\* The proposal and its policy decision, from the provider or from the rules.
Recommend(r, fallback) ==
    /\ pc[r] = "recommending"
    /\ found[r]
    /\ Add(job[r], "proposal")
    /\ LET logged == {<<job[r], "proposal">>} \cup
                        (IF fallback THEN {<<job[r], "fallback">>} ELSE {})
       IN  audit' = [x \in Sessions \X Events |->
                       IF x \in logged THEN audit[x] + 1 ELSE audit[x]]
    /\ Goto(r, "idle")
    /\ UNCHANGED <<state, target, clock, job, seen, found, served>>

Commit(r) ==
    \/ Expire(r) \/ Close(r) \/ AddTarget(r) \/ AddLesson(r) \/ Import(r)
    \/ Explain(r) \/ RejectRecommendation(r) \/ NoRecommendation(r)
    \/ \E fallback \in BOOLEAN : Recommend(r, fallback)

Next ==
    \/ \E s \in Sessions : Create(s) \/ SessionOverdue(s) \/ TargetLapses(s)
    \/ \E r \in Requests :
         \/ ReadTarget(r) \/ Abandon(r) \/ Commit(r)
         \/ \E s \in Sessions : Refresh(r, s) \/ \E o \in Routes : Begin(r, s, o)

Spec == Init /\ [][Next]_vars

-----------------------------------------------------------------------------
(* Properties *)

\* A session that is ready has its target: the two rows of add_target appear
\* together, whatever closes, expiries and second registrations do beside it.
ReadyHasTarget == \A s \in Sessions : state[s] = "ready" => target[s] # "none"

\* The trail holds one event for each record of add_target, add_lesson_source,
\* import_scan and recommend_session_action, and none for one that failed.
AuditMatchesRecords ==
    \A s \in Sessions :
        /\ \A k \in Kinds : audit[<<s, k>>] = records[<<s, k>>]
        /\ audit[<<s, "target">>] = IF target[s] = "none" THEN 0 ELSE 1
        /\ state[s] = "completed" => audit[<<s, "closed">>] > 0
        /\ state[s] = "expired" => audit[<<s, "expired">>] > 0

\* Once a session that has a target is over it stays over: add_target, the one
\* route that could make it ready again, cannot commit a second target.
OverWithTargetIsFinal ==
    [][\A s \in Sessions :
         target[s] # "none" /\ state[s] \in Ended => state'[s] \in Ended]_vars

\* Evidence and proposals exist only in sessions whose user confirmed the
\* authorization, and a session expires only after its deadline.
OnlyAuthorized ==
    \A s \in Sessions :
        /\ s \notin Confirmed =>
             /\ target[s] = "none"
             /\ records[<<s, "import">>] = 0 /\ records[<<s, "proposal">>] = 0
        /\ state[s] = "expired" => s \in overdue

\* tests/test_session_api.py: a closed session refuses a target.
OverIsFinal ==
    [][\A s \in Sessions : state[s] \in Ended => state'[s] \in Ended]_vars

-----------------------------------------------------------------------------
(* SessionLifecycle implements SessionContract *)

Registered(s) == target[s] # "none"

ContractState ==
    [s \in Sessions |-> IF Registered(s) THEN state[s] ELSE "preparing"]
ContractLocked == [s \in Sessions |-> target[s] = "locked"]

\* What some request that has come this far will write.
WillLock(r) == pc[r] = "close" \/ (pc[r] = "closing" /\ found[r])
WillNotLock(r) == pc[r] = "closing" /\ ~found[r]
WillExpire(r) == pc[r] = "expire"

Closing ==
    {s \in Sessions : Registered(s) /\ \E r \in Requests : job[r] = s /\ WillLock(r)}
Blind ==
    {s \in Sessions : Registered(s) /\ \E r \in Requests : job[r] = s /\ WillNotLock(r)}
Expiring ==
    {s \in Sessions : Registered(s) /\ \E r \in Requests : job[r] = s /\ WillExpire(r)}

Contract == INSTANCE SessionContract
    WITH state <- ContractState, locked <- ContractLocked,
         closing <- Closing, blind <- Blind, expiring <- Expiring

\* Whatever the requests do in between, a session that has its target changes
\* only as the contract allows: it is never ready again once it is over, a
\* close that saw the target locks it, and nothing unlocks it.
ImplementsContract == Contract!ContractSpec

-----------------------------------------------------------------------------
(* The inductive invariant behind them *)

TypeOK ==
    /\ state \in [Sessions -> Active \cup Ended \cup {"none"}]
    /\ target \in [Sessions -> {"none", "open", "locked"}]
    /\ overdue \in SUBSET Sessions
    /\ lapsed \in SUBSET Sessions
    /\ records \in [Sessions \X Kinds -> Nat]
    /\ audit \in [Sessions \X Events -> Nat]
    /\ pc \in [Requests -> Routes \cup
                 {"idle", "expire", "closing", "importing", "recommending"}]
    /\ job \in [Requests -> Sessions]
    /\ seen \in [Requests -> Active \cup {"none"}]
    /\ found \in [Requests -> BOOLEAN]
    /\ served \in Nat

\* A session that has its target is ready or over.
TargetInv ==
    \A s \in Sessions : Registered(s) => state[s] \in {"ready"} \cup Ended

\* What a request has read still holds where its commit relies on it.
RequestInv ==
    \A r \in Requests :
        /\ pc[r] = "expire" => job[r] \in overdue
        /\ pc[r] = "target" => job[r] \in Confirmed
        /\ pc[r] \in {"importing", "recommending"} /\ found[r] =>
             job[r] \in Confirmed
        /\ pc[r] = "closing" /\ found[r] => target[job[r]] # "none"
        /\ seen[r] = "ready" => target[job[r]] # "none"

IInv ==
    /\ TypeOK
    /\ RequestInv
    /\ TargetInv
    /\ ReadyHasTarget
    /\ AuditMatchesRecords
    /\ OnlyAuthorized
=============================================================================
