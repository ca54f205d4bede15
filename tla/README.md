# TLA+ models of RedPath

RedPath is a Windows desktop application that guides a student through an authorised lab: it
records a session and its one target, imports scan evidence, asks a language model (or fixed
rules) for a next step, and runs an approved step in a managed Kali distribution under WSL. Its
safety rests on a few concurrent protocols: an approval is used once, an emergency stop stops,
a second process does not work beside the first, a cancelled installation is not reported as
done, and what a language model writes never decides alone what is run. This directory models
those protocols in TLA+, model-checks them with TLC on small instances and proves the most
important results for all instances with TLAPS.

## Inventory

FastAPI serves every route of the backend on a pool of threads, so any two handlers of one
process may interleave at every statement. They share one SQLite database (deferred
transactions, autoflush off: a read opens no transaction, a commit writes by primary key) and
the objects in `app.state`. The desktop host runs that server in one thread of a process and
the window in another.

| component | state it keeps | operations | what it talks to | what is hard | what makes it correct |
|---|---|---|---|---|---|
| Action execution (`execution_api`, `execution_fence`) | `actions`, `approvals.used_at`; the fence's lock and flag | `POST /run`: claim, `try_start`, dispatch, persist | approvals, emergency stop, sessions, Kali dispatcher | checks outside a transaction, a stop at any moment, failed writes, crashes | one dispatch for one approval, no start under a stop or after an expiry, records that tell the truth, every claim settled |
| Emergency stop (`stop_api`) | `emergency_stop` row, the fence's flag | activate, clear | fence | the row and the flag change one after the other; a write may fail | a stop holds until it is cleared, restarts included |
| Approvals and audit (`approval_api`) | `approvals`, `audit_events` | approve, reject, list | sessions, policy rows | decisions racing with each other and with `/run` | one decision for one proposal, an expiry no later than the session's |
| Lab sessions (`session_api`) | `lab_sessions`, `authorized_targets`, `lesson_sources`, imports, findings, proposals | create, view, close, lesson, target, import, explain, recommend | database, parser, AI provider | each route reads first and commits later | a session that is over stays over, records and trail agree |
| Setup operations (`setup_api`) | operation lock, active operation, its event | repair, cancel, status | installers, protected operations | a cancel at every point of begin and complete | one repair at a time, no lost and no leaked cancel |
| Protected operations (`operations`) | admission flag, worker tickets, owned children | operation, close admission, own child, wait | every protected route, process runners | abandoned requests leave workers and children | idle means that nothing works any more |
| Desktop host and instance guard (`desktop`, `windows_instance`) | threads, the named mutex, the guard waiter | start, stop, retain, release | server, protected operations, Windows | timeouts on every wait, a second process, crashes | no two working processes, storage outlives work, the guard is released in the end |
| WSL and Kali setup (`redpath_setup/wsl`) | distributions, marker, child processes, reader threads | inspect, enable, import, run in Kali | wsl.exe | cancel, deadline or crash between two external effects; pipes that stay open | only a distribution RedPath imported is marked and used; output is complete or marked; every runner ends |
| Ollama setup (`redpath_setup/ollama`) | child process, progress queue | install, pull a model, inspect | installer, ollama.exe, Ollama's service | the child's end races with cancel and deadline; a full queue | only the verified installer runs; no child is forgotten |
| Verified downloads (`redpath_setup/downloads`) | resolver lock and thread, temporary and published file | download a pinned artifact | HTTPS | name resolution cannot be cancelled; redirects; truncation | only verified bytes are published; hung lookups do not pile up |
| AI providers (`redpath_ai`) | none | recommend, explain, health | Ollama | answers that cannot be trusted, or never come | only steps that the cited evidence supports, a deterministic fallback |
| Parser, registry, contracts, evidence (`nmap_parser`, `action_registry`, `contracts`, `execution_evidence`) | none | pure functions | handlers | the same rule written in several places, limits of the input | the places agree; reject rather than guess |
| Kali dispatch (`redpath_kali`) | none | render and dispatch a fixed command | `WslSetup.run_in_kali` | a registered target or argument the renderer refuses | the command is the one that was approved |
| Request protection (`local_security`) | a token | compare headers | every route | - | - |
| Dashboard (`frontend`) | page state, pending requests | one request for each button | API | stale answers, timeouts shorter than the action, double clicks | the newest answer wins, the stop button fails closed |
| Legacy VM, scanner, container, packaging | files, a VM | scripts | VirtualBox | - | - |

`PROJECT.json` lists each part with its sources and what is left out, and every hazard at its
line with the properties that would show it going wrong.

## Modules

| module | models | composes |
|---|---|---|
| `ExecutionContract` | the promise: what phases a proposal goes through and when a stop is in force | - |
| `SessionContract` | what the session routes may do to a session, its target and pending requests | - |
| `SetupContract` | what a repair promises to who asks, cancels or shuts down | - |
| `InstallerContract` | what a repair relies on of the installer it calls | - |
| `InstanceContract` | what the guard promises to other processes and to the database | - |
| `ActionExecution` | decisions, `/run`, the fence, the emergency stop, close and expiry, crash | implements `ExecutionContract` and `SessionContract` |
| `SessionLifecycle` | all routes of a session and their audit trail | implements `SessionContract` |
| `SetupOperations` | repair, cancel and shutdown of one setup operation | the tickets of `operations.py`; implements `SetupContract`, calls any `InstallerContract` |
| `ProtectedShutdown` | several processes, their main, server, waiter and worker threads, children and the guard | all of `operations.py`; implements `InstanceContract` |
| `ManagedKali` | the managed distribution: download, import, marker, ownership check, abandoned commands | the setup thread of `SetupOperations` and the dispatched actions of `ActionExecution`; implements `InstallerContract` |
| `ProposalPipeline` | how evidence becomes a command and its output evidence: import, question, answer, fallback, registry, renderer, result | the contents of what `SessionLifecycle` and `ActionExecution` store and send |
| `SetupSignals` | the cancel event and the deadline of a set-up operation | - |
| `VerifiedDownload` | the download of one artifact with its resolver threads | `SetupSignals` |
| `ToolProcess` | a command with its pipes, reader threads, descendants and both runners (`wsl.py`, `ollama.py`) | `SetupSignals` |
| `SetupTools` | installing Ollama, pulling a model, enabling WSL | `VerifiedDownload` and `ToolProcess`; implements `InstallerContract` |
| `MC...` | model values, symmetry and small constant functions for TLC | one for each |
| `...Proofs` | theorems and proofs for TLAPS | one for each |

### ActionExecution

One proposal has one approval and at most one action, so the tables are functions on
`Proposals`; sessions carry their one target. A `/run` thread moves through the labels of
`pc`: `Claim` is the immediate transaction of `_run_approved_action` (checks, insert, used
mark); `EnterFence` is `ExecutionFence.try_start`; `CheckStop`, `CheckSession`, `MarkExpired`,
`CheckTarget` and `CheckApproval` are the reads of `final_authorization_check`, one action for
each because they are separate statements outside a transaction; `Dispatch` is the call that
reaches Kali, after the fence was released; `PersistResult` is the last commit. `RunFails` is a
database error the handler does not catch: the request ends, and leaving the `with` block
releases the fence. `BeginActivate`/`PersistActivate`/`ActivateFails` and their `Clear`
counterparts are the two stop routes: the flag, then the row, both under the fence's lock.
`Register` gives a session that is being prepared its target. `BeginClose`/`CommitClose` and
`BeginExpire`/`CommitExpire` read a session and write it later; `CommitBlindClose` is the close of
a request that looked before there was a target and locks none; `Abandon` is a request that ends
before its commit; `ExpireInTransaction` is the same expiry inside an immediate transaction.
`Crash` loses the memory of the process and keeps the tables.

Contents of proposals, hashes and policy rows never change once stored, so their revalidation
gives what it gave at approval. What the session routes may do meanwhile is not invented here: it
is `SessionContract`, which `SessionLifecycle` implements. `RoutesAreCovered` proves that each of
its steps, beside unchanged execution state, is a step of `ActionExecution`, and
`SessionsAsContracted` that `ActionExecution`, workers included, does nothing else to sessions. So
the two modules can be read as one system without the product of their states.

### ExecutionContract

Each proposal is `open`, `approved` or `rejected`, `consumed`, `started`, and at the end
`finished` or `cancelled`; `halt` says whether no stop, a stop in memory or a stored stop is in
force. A start needs `halt = "no"`, a stored stop survives a restart and one in memory does
not. `ActionExecution!Contract` is the refinement mapping.

### SessionContract

A session is `preparing` until its target exists, then `ready`, and `completed` or `expired` in
the end; `locked` is its target. Requests are known only by what they will write: `closing` (with
the target locked), `blind` (without), `expiring`. A write happens whatever the row says by then,
as in the handlers; a request that was left may still be there or be gone. Before a session has
its target it may be reopened (see Findings); the contract begins where that ends.

### SessionLifecycle

A request is `Begin` (`active_session`, with the state it loaded), for some routes `ReadTarget`
(their second query), and then one commit or `Abandon` (refused, or the write failed and was
rolled back). Commits write by primary key whatever the row holds by then, as the handlers do.
The unique `session_id` of targets and lessons is the guard of `AddTarget` and `AddLesson`.
`records` and `audit` count rows and events, so that the trail can be compared with what it is
about. An import is one commit, its flush takes SQLite's write lock. The provider's answer is a
choice between `Recommend` (from the provider or from the rules) and `NoRecommendation`.

### SetupOperations

`Admit` is `ProtectedOperations.operation(cancellable=True)`; `Begin` takes the operation lock
without waiting and `Publish` stores the active operation under the state lock; `Work` is the
installer; `Complete` is `complete()` with the answer `_repair` makes of its outcome; `Leave`
ends the ticket. `Cancel` and `CloseAdmission` may come at any point. `confirmed` is history:
it remembers which repair was told that its cancel was requested.

`SetupContract` is the same without locks, events and tickets: one `slot`, the `doomed` requests,
and one step that decides the answer and frees the slot. `Contract` maps the owner of the
operation lock to the slot and a set event to being doomed. On the other side, `Work` takes any
stage an installer may answer by `InstallerContract`: one answer for each call, and `CANCELLED`
only if the call's own event was set. `SetupTools` and `ManagedKali` implement that, so what is
proved of a repair holds with either below it.

### ProtectedShutdown

Each process has a main thread (`main`), a server thread (`http`), worker threads with at most
one child each, and the guard waiter. `Acquire`/`AlreadyRunning` are `CreateMutexW`; `Stop`,
`Joined`, `WaitEnds`, `TimesOut`, `Retain`, `MainReleases` and `MainFrees` are the statements of
`stop()`, `_retain_guard` and `_release_instance`; the waiter has its own. A wait with a timeout
may end at any moment, which covers every setting of the timeouts. `LifespanEnds` closes
admission and disposes of the engine only if nobody works; `ServerFails` is a server that ends
without doing so. `Crash` kills a process: Windows closes its handles, its children go on.

`InstanceContract` keeps of each process whether it is `new`, `open`, `closed` or `dead`, who owns
the guard and who is `working` with a server, a worker or a child: only an open owner begins to
work, and only a closed one at rest gives the guard up. This is why the models of one process
(`ActionExecution`, `SessionLifecycle`, `SetupOperations`) need no second one beside it: a process
that follows finds the tables and nothing at work, which is their `Crash` or a quiet end.

### ManagedKali

The setup thread goes through the labels of `setup`: the inspection (`SetupLists`,
`SetupReadsMarker`), the download (`Fetch`, `Verify`, `Publish`), the import and the marker
(`Touch`). The effect of a `wsl.exe` command and its return are separate steps, since
`_run_cancellable` may give up in between (`GiveUp`): it terminates `wsl.exe` without reaping it,
and the WSL service may still finish. Such commands, and those of a process that was killed
(`Crash`), are counted in `imports` and `touches` and take effect or die at any later moment.
`run_in_kali` is one thread for each of `Actions`, at any time and beside each other, because the
fence is given back before the dispatch (`execution_api.py:346`, `410`); list, marker and
execution are three commands of each.

`RegisterForeign` and `Unregister` are somebody else at the same machine, at any moment, also
between a check and the command it was made for. Nothing in the code closes those two windows
(import to touch, marker check to execution), so the properties say what is left: `overtaken`
remembers the touch and the actions that were on their way when the distribution was removed, and
`mismarked` that such a touch took effect. `ForeignNeverMarked` is that the marker gets into
somebody else's distribution in no other way, whatever was abandoned, refused or taken before;
`ActionsStayInside` is that an action that was not overtaken itself is executed in RedPath's marked
distribution. Both would be false if a set-up, another action, an abandoned command or a crash could
open such a window by itself. The one assumption about others is that nobody else writes the marker.
`ImplementsContract` maps the call to `InstallerContract`: it is busy while the setup thread is, and
its answer is the kind of `code`.

### ProposalPipeline

A request for a recommendation and the row it may store share a name of `Proposals`. `Import`
adds the findings of an export, whole or not at all (`uq_scan_port`). `Ask` reads the findings;
`Provider` is `OllamaProvider.recommend_next_step`: `Answer` takes any answer the question
allows, right or wrong in any field (`Answers`), `Unavailable` none. `Settle` is what
`recommend_session_action` makes of it: store it or ask the rules. `Approve` and `Dispatch`
validate the row again, `Dispatch` renders its dump, `Finish` and `Raise` store the result and
answer with it.

Four validators written independently stand between the model and Kali, each an operator of its
own: `Offered` (the JSON schema sent to Ollama), `StepValid` (the strict schema of the answer),
`Registered` (the registry, whose argument models do not know the findings' ports) and `Renders`
(the Kali renderer). An action's output is a length in characters of one width and the position
where the line that evidence looks for ends; `Kept`, `Bounded` and the inspected prefix are its
three cuts, the first in bytes. Model texts, hashes and the XML syntax are abstracted.

An answer is modelled as `ProposedStep` reads it, with the default of every field that was left out.
The two descriptions of an answer differ there: the format requires every field
(`providers.py:227`), `ProposedStep` has a default for four (`schemas.py:113-119`). So `Offered` takes
the set of fields that are missing, any subset of those that read as their default (`Omissible`), and
accepts none. `FormatMatchesChecks` is two implications: an answer in the format passes the checks
unless its port is that of a finding it does not cite, and an answer that passes is in the format
once no field is left to its default.

### SetupTools, VerifiedDownload, ToolProcess

`SetupTools` extends the other two, which share only the cancel event and the deadline
(`SetupSignals`); a step of one leaves the other's variables alone. `step` is where `install`,
`pull_model` or `enable` is; the names of its actions are the parts of those functions, and
`code` the code of the stage they answer. The last look at the event (`NotCancelled`), the look for
the installer's file (`InstallerFound`) and the start (`RunInstaller`) are steps of their own: a
cancel set in between starts the installer all the same and is noticed by its runner, and the file
may be gone by the start (`Quarantine`). After an operation the resolver thread of its download
may still run into the next (`lookups`), the reader threads and descendants of its command are
followed until the next operation begins. `ImplementsContract` is the refinement of
`InstallerContract`, with `step` and `code` as in `ManagedKali`.

`VerifiedDownload` goes through `fetch`. `Remaining` is the check of cancel and deadline every
wait repeats; `Resolve` takes `_resolver_lock` without waiting, `LookupReturns` and `LookupDone`
are the two statements of the resolver thread, which a download that gave up no longer waits
for. Redirects, connections, chunks and the verification are the server's choice.

`ToolProcess` counts output in chunks for each stream, through the pipe (`PipeRoom`, its writer
blocks) to what the reader keeps (`Capture`). For `wsl.py`, `ReturnsOutput` needs both drains
done and neither failed. For `ollama.py`, one reader puts updates into a queue of one and,
when it is full, tries again until there is room or it is told to stop; `PipesHeldOpen` and `PipeTime` are the quarter second a descendant is given.
`End` is the `finally` clause of both. `ReadError`, a child that ignores the request to end, and
a descendant that keeps the pipes (`heir`) may happen at any moment.

## Runs

| run | instance | properties |
|---|---|---|
| `execution_faults` | 1 session, 2 proposals, 2 `/run` threads, 1 stop thread, target expires at 1 and session at 2, clock to 1, 2 stop requests, 1 failed write, 1 crash | one dispatch, truthful status, no start under a stop or after a close that came before the target check, durable stop, refinement of `ExecutionContract`, the inductive invariant |
| `execution_settles` | as above, clock to 2, 1 stop request, no crash; fair | no start after an expiry; every claim gets a result unless a write fails; the fence is released even then |
| `stop_window` | 1 proposal | **violated**: see Findings |
| `session` | a confirmed and an unconfirmed session, 2 requests at a time, 5 in all | trail and records agree, refinement of `SessionContract`, the inductive invariant |
| `session_reopens` | 1 session, 4 requests | **violated**: see Findings |
| `setup` | 2 threads, 2 components, 4 repairs, fair | no lost cancel, no stray cancel, shutdown reaches all, refinement of `SetupContract` (one repair at a time among it), the operation lock is released |
| `setup_cancel` | 2 repairs | **violated**: see Findings |
| `shutdown` | 2 processes, a worker with a child each, fair | no overlap, storage outlives work, the guard is released |
| `kali` | 2 set-ups that end between import and marker, any number of others, 2 actions at a time | the marker gets elsewhere only by a touch that was overtaken by a replacement, an action that was not overtaken runs in RedPath's marked distribution, a missing marker is the trace of an interruption |
| `kali_mismatch` | as `kali` | **violated**: see Findings |
| `recommendation` | 1 proposal, 2 of 5 exports, 13 written argument sets with every action and citation, 1 retry, 48 outputs | a command reaches a port the evidence it cites reports, runs as shown, stays approvable; renderer and registry agree; the fallback finds a step; the answer format invites nothing the checks refuse but an uncited port, and excludes no step they take; evidence is whole or marked; every question settles |
| `setup_tools` | 2 installations in a row, a pull, an enabling; an artifact of 1 chunk, 1 redirect; capture and pipe of 1 chunk, up to 3 written; fair | one lookup, complete or flagged output, no child forgotten, an installer that is started is the pinned one this operation downloaded, no restart missed; operations, commands and readers end |

Why the bounds are enough. The claim, the fence and the operation lock are contests between two
threads, and a third meets the same guards; two proposals let a stop hit one action while another is
in flight. Two stop requests give activate and clear in each order. One failed write or one crash at
every point covers each partial execution. The clock reaches the target's expiry in
`execution_faults` and the session's as well in `execution_settles`; with crashes and two stop
requests, the second tick would exceed the time of a run. Five session requests are enough for a
creation, two overlapping requests and two more after them. Two processes are what exclusion is
about; a worker slot takes one operation after another, each with or without a child, so one slot
leaves a child behind and works again. Two interrupted set-ups leave two commands that meet each
other and a third set-up; two actions are enough for one to be checked while the other is executed
or overtaken. Two imports put findings into the table that a request has not read; the
exports hold a service for two actions, two open elements of one port, an impossible port, a closed
one and an overlong hint. One retry is the most the source allows. The three limits of output are
scaled down in the order of the source's (2 inspected, 4 kept of an action, 12 bytes captured) with
lengths on both sides of each; 12 bytes hold 3 characters of width 4, just as many as the proofs'
assumption asks for. Two installations in a row are needed for a lookup that the first left behind;
a command writes what is captured, one chunk more, or more than capture and pipe hold together, so
each of the ways to block is there. The counters `MaxNow`, `MaxStops`, `MaxFaults`, `MaxCrashes`,
`MaxRepairs`, `MaxRequests`, `MaxAbandoned`, `MaxImports`, `MaxHops` and the lengths of `Agendas`
bound environment choices only and appear in the guards of those choices; the proofs hold for every
value of them. Deadlock is not checked where every bound may be spent or every process may have
ended; the liveness runs check that nothing hangs before that.

Symmetry is used in safety runs only, over threads that no constant function tells apart.

Fairness. `ActionExecution`: weak fairness of each `/run` thread and of the persisting step of a
stop; Python runs every ready thread, the dispatcher returns within its own timeout, and a
thread that waits for the fence waits only while another holds it. `SetupOperations`: weak
fairness of a thread in a repair, because each installer ends by its own deadline.
`ProtectedShutdown`: weak fairness of the stop and waiter threads, of a server that was asked to
exit (Uvicorn's graceful timeout), of children once admission is closed (they are terminated, or
end by themselves) and of `poll`; strong fairness of the end of a worker, which starts a bounded
number of children and is not in one place for ever. `ProposalPipeline`: weak fairness of the
provider, whose HTTP request has a timeout and whose attempts are counted. `SetupTools`: weak
fairness of RedPath's own threads and of a quarter second that was started. Nothing is assumed of
`getaddrinfo`, the server, a command or its descendants, nor of the deadline: `OperationEnds` holds
if deadlines pass (`WF_vars(Deadline)`), `CommandEnds` holds without any deadline if the command
goes on whenever it can (`WF_vars(ChildStep)`), and both say so in their formula.

## Findings

- `stop_window`: the design document
  (`docs/superpowers/specs/2026-09-11-windows-desktop-mvp-design.md:67`) says that the durable stop
  "is checked again immediately before dispatch". It is read inside the fence; the dispatch happens
  after the fence was released, and a stop stored in between does not keep the action from being
  sent. What does hold is `StopBlocksStart`.
- `session_reopens`: `add_target` loads the session, and writes `ready` later whatever the row holds
  by then. A close or an expiry committed in between is undone. It can happen only to a session that
  had no target when it ended: `OverWithTargetIsFinal` is proved, and part of the `SessionContract`
  the run `session` checks.
- `setup_cancel`: the docstring of `complete()` says that a confirmed cancel "is always reflected in
  the repair response". `_repair` reflects it only if the installer was about to report `ready`.
  What does hold is `CancelledIsNotReady`.
- `kali_mismatch`: the design document (`...-windows-desktop-mvp-design.md:109`) says "Interrupted
  setup resumes from revalidated component state". A set-up that is cancelled, times out or dies
  after `wsl.exe --import` registered the distribution and before the marker is written leaves
  RedPath's own distribution unmarked, and every later set-up answers that it "is not managed by
  RedPath". What does hold is `UnmarkedIsLeftover`.

Seen while modelling, where no text of the repository says otherwise:

- `close_session` locks the target it found when it looked. A target that is committed between
  the look and the close stays unlocked in a completed session (`CommitBlindClose`).
  `ClosedSessionStartsNothing` holds of closes that locked the target; a run that had already passed
  the session check when such a blind close was committed still starts.
- A service name longer than the model's schema allows is imported without complaint; from then
  on every recommendation and explanation of the session raises outside the `try`
  (`session_api.py:256`, `Ask`, which ends in `"error"`).
- A TLS tool that writes its field names in lower case is read (the patterns ignore case) and
  then refused by the response contract, after the result was committed: the action is done and
  the request fails (`ReplyFits`).
- A scoped IPv6 target is registered, scanned, proposed and approved, and then fails in the
  renderer (`RenderAgrees`).
- A valid answer that asks for more evidence is overridden by the rules if they know a step
  (`session_api.py:346`); a provider that fell back by itself is audited as if it had not.
- Nothing closes the window between a check of the managed distribution and the command it was made
  for (`wsl.py:399-402`, and `367-373` between import and touch): a distribution that somebody puts in
  its place there is executed in, or marked. The design document (`...-mvp-design.md:61`) asks for a
  validation before every action, which there is (`ActionsStayInside`, `ForeignNeverMarked`).
- A cancel that is set between the last look (`ollama.py:202`) and `Popen` (`93`) starts the installer
  all the same; the runner notices it (`129`) and asks the installer to end.
- The answer format is stricter than the checks: it requires fields that `ProposedStep` defaults
  (`providers.py:177-179` says why). A service that does not enforce the format may leave them out
  and is accepted.
- `install` does not look at its event again after the installer returned, `pull_model` does.
- A download is compared with its size at the end only; while it streams, nothing bounds what is
  written but the deadline. The model stops counting one chunk past the size.
- A second target fails at its flush, outside the `try`: the route answers 500 where its own
  handler means 409 (`session_api.py:194`). Nothing is committed.
- A cancel that arrives between `begin`'s lock and its publication is answered
  `NO_ACTIVE_OPERATION` although a repair is running (`setup_api.py:51`).
- Recommendations keep a pooled connection while the provider answers (`session_api.py:60`);
  enough of them delay the connection of an emergency stop. `StopBlocksStart` holds whenever the
  stop arrives.
- The dashboard's own timeout (`frontend/api.js:3`) is shorter than an action may take: the page
  reports a failure of something that goes on. A repeated request finds the approval used
  (`AtMostOneDispatch`). `run()` in `recommendation.js` does not compare generations when its
  answer arrives, as `decide()` does; the controls that could start a second recommendation
  meanwhile are hidden. `SetupController.cancel` frees its buttons while the repair is still in
  flight; the server refuses a second one with 409.

## Proofs

All theorems hold for every value of the constants, under the named assumptions of the modules
(finite bounds are naturals, actors and marker values are distinct, a target never outlives its
session). TLC evaluates these assumptions in every run.

Each proof module has the same shape. `IInv` is inductive: `Init => IInv`, and one step for each
action shows `IInv /\ [Next]_vars => IInv'`, with one step below it for each part of `IInv` the
action can disturb. Each property then follows from `IInv`. Type correctness is a part of every `IInv`.

- `ActionExecutionProofs`: the safety properties say little about what a thread knows, so they are
  not inductive. `JobInv` (a busy thread owns one running action and no other thread has it; while
  nothing failed, each running action has its thread) and `RecordInv` (tables, grants and Kali's
  inbox agree) carry `AtMostOneDispatch`, `StatusTellsTheTruth` and `DispatchIsApproved`;
  `ProgressInv` says what a thread at each label may rely on; `HolderInv` and `StopInv` (exactly who
  is in the fence holds it and no stop is in force past its check) carry `StopBlocksStart`;
  `ExpiryInv` (an approval never outlives its session and target) carries `StartBeforeExpiry`.
  `Refinement` shows that every step maps to a step or a stutter of `ExecutionContract`.
  `ClosedStartsNothing` needs two facts about steps: only the target check commits a thread to a
  start (`OnlyCheckCommits`), and no step unlocks a target (`LockStays`); the same two give
  `LockedNeverStarts`, the statement over whole behaviours. `RoutesAreCovered` and
  `SessionsAsContracted` are the two halves of the composition with the session routes: what they
  may do is a step here, and what is done here they may do.
- `SessionLifecycleProofs`: `RequestInv` says which of a request's reads its commit may rely on; a
  session loaded as ready has a target, so `AddTarget` cannot commit there. This carries
  `ReadyHasTarget` and `OverWithTargetIsFinal`. `Refinement` maps a session without a target to
  `preparing` and each request with a commit left to `closing`, `blind` or `expiring`, by what it
  read; `RequestInv` says which of those reads were of a session that has its target.
- `SetupOperationsProofs`: `LockInv` ties the lock, the published operation and the threads' labels
  together, `EventInv` says who can have set an event. `Refinement` shows that begin's two locks and
  complete's single one are one step each of `SetupContract`, so that `OneRepairAtATime`,
  `CancelledIsNotReady` and what `busy` means hold of the code as they hold of one slot.
- `ProtectedShutdownProofs`: `GuardInv` (only the holder of the guard works or can be given work),
  `ReleaseInv` (a thread about to close the handle has seen the end of all work, and it stays ended
  because admission is closed), `ChildInv` (a running child is registered or about to be) and
  `KeeperInv` (a held guard has a thread that serves, stops or waits for the end).
  `SecondLookIsIdle` shows that the second look of `_release_instance` finds nothing at work.
  `Refinement` maps the threads to `InstanceContract`: `Begin` and `Rest` are only possible where
  `GuardInv` and `ReleaseInv` say so.
- `ManagedKaliProofs`: `CommandInv` (a touch on its way, abandoned or not, finds the distribution it
  was sent to, or was overtaken) and `OwnerInv` (what is marked is RedPath's, or was marked by such a
  touch) carry `ForeignNeverMarked`; beside them `ActionsStayInside` is inductive itself, for any
  number of actions; `LeftoverInv` counts what may be unmarked. `Refinement` needs no invariant:
  each answer that says `CANCELLED` looks at its own event.
- `ProposalPipelineProofs`: `Local` says of each proposal that what its request read is still in the
  table (findings are only added), that its row passes the registry and is its own dump, and that
  what was sent was rendered from it. The rest is about operators, with lemmas of their own: what
  the strict schema accepts the registry accepts, a dump of a dump changes nothing, the rules' step
  passes every check, and arithmetic on the three cuts (`EvidenceIsWhole` needs that the captured
  bytes hold one character more than is inspected, whatever its width, which `OutputAssumption`
  states and the source's constants satisfy). `FormatAgrees` ranges over every context, answer and set of
  omitted fields. `QuestionsAreCounted` is a variant: a step of the
  provider closes the question or uses up an attempt, no step gives one back.
- `SetupToolsProofs`: `IInv` has a part for each component (`DownloadInv`, `ProcessInv`,
  `OperationInv`). Each part is preserved by its own component's steps and left alone by those of
  the others, so there is one framing lemma for each and no product of cases. `Accounted` (a reader
  that has not failed accounts for every chunk, and is done only when nobody can write) carries
  `CompleteOrFlagged` and `RestartNotMissed`. `WaitInv` (whatever an operation waits for is at work
  or has answered; a cancelled download or command belongs to a cancelled operation) and `ReaderInv`
  (a reader at a full queue has a runner, one left behind was told to stop) are inductive beside
  `IInv`; they carry `Refinement`, `OperationIsServed` and `ReadersAreReleased`.

Refinement proofs share a shape: a lemma for each group of actions says which step of the contract
it is, with the contract's primed variables computed from the mapping, and one lemma for `Init`;
the theorem combines them.

Liveness itself is out of the prover's reach, but not its safety half: that whoever is waited for
is there, or that a retry is counted. `ClaimIsServed` (`ClaimSettles`),
`FenceIsInUse` (`FenceIsReleased`), `RepairIsUnderWay` (`RepairsEnd`), `GuardHasKeeper`
(`GuardIsReleased`), `OperationIsServed` (`OperationEnds`), `ReadersAreReleased` (`ReadersEnd`) and
`QuestionsAreCounted` (`AskSettles`) are such halves, for every value of the constants.

Some results are proved only, for every value of the constants: `DispatchIsApproved` and
`RecordsAreFinal` (the contract's phases allow no step against them either), `ReadyHasTarget`,
`OverWithTargetIsFinal`, `OneRepairAtATime`, `OnlyAuthorized`, `PublishedIsPinned`, `ReplyFits`,
`KeepsSessionContract`, the refinements of `ProtectedShutdown`, `SetupTools` and `ManagedKali`, and
the inductive invariants of the modules whose runs check the properties that follow from them.

Only model-checked: all liveness (`ClaimSettles`, `FenceIsReleased`, `RepairsEnd`,
`GuardIsReleased`, `AskSettles`, `OperationEnds`, `CommandEnds`, `ReadersEnd`), because TLAPS has
no support for `ENABLED` here. Every safety invariant and action property that a run checks is
proved.

## Plan

Done: the execution path with its contract, sessions, set-up operations, shutdown, the managed
distribution, the pipeline from evidence to command, and the set-up tools with their downloads and
processes, each with its proofs; a contract for each interface between them, with the refinements.

Left, in the order of what it would add:

1. `Dashboard`: the page's pending requests, generations and timeouts as a client of
   `ExecutionContract`. Property: what the page shows as armed or stopped was true of the server
   when it answered, and an unknown stop status counts as active.
2. The explanation of a result (`OllamaProvider.explain_result`), which repeats the retries and
   the fallback of a recommendation over another schema.
3. The read-only routes (reports, audit trail, lists): what a reader sees of several queries
   without a transaction.
4. The legacy VM lifecycle (`vm.py`, `KaliVM.ps1`), if it stays in the repository.

## Not modelled

Response schemas, explanations and lessons, prompts, provider metrics, read-only routes, request
header checks, settings and paths, static routes, the health probe, the lab scanner, the container
launcher, packaging. They keep no state that another component races for. The dashboard's state is
one page's: a reload discards it and the server trusts it in nothing; the models let its requests
arrive in any order and number. No route reaches the legacy VM and its SSH dispatcher. Children of a
process that was killed go on beside the next process: `NoOverlap` speaks of processes that were not
killed, since nothing in the code can hold a guard after that. The short-lived duplicate handle of a
process that finds the guard taken is not modelled: it can only make a third process be refused.
A reader thread
that cannot be started, or a child that cannot be registered, right after `Popen` (`ollama.py:104-109`,
`wsl.py:123`) is not modelled, nor an announcement of a restart on the error stream; announcements on
standard output are. Routes that are not protected operations (sessions, decisions) may outlive the guard by the time of
one commit; `ProtectedShutdown` has only protected ones.
