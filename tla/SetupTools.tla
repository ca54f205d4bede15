------------------------------ MODULE SetupTools ------------------------------
(* The set-up operations that change the Windows host through a download and *)
(* commands: installing Ollama, pulling its model and enabling WSL, from the *)
(* consented request to the stage it answers.  Sources: ollama.py, wsl.py    *)
(* (redpath_setup), health of redpath_ai/providers.py.                       *)
(*                                                                           *)
(* The requests run one at a time, after the consent (SetupOperations); a    *)
(* resolver thread of an earlier one may still run.  Set-up of Kali is       *)
(* ManagedKali.  The answer of the Ollama service is any of the three health *)
(* tells apart, at any time.                                                 *)
EXTENDS VerifiedDownload, ToolProcess, Sequences

CONSTANT Agendas        \* bound: the operations asked for, one after another

ASSUME AgendaAssumption ==
    \A a \in Agendas : a \in Seq({"install", "pull", "enable"})

VARIABLES
    step,           \* where the operation is
    code,           \* the code of the stage it answered
    operations,     \* the operations begun, the one that runs last
    fetched         \* this operation's download was published

toolVars == <<step, code, operations, fetched>>
vars == <<downloadVars, processVars, late, cancelled, toolVars>>

kind == IF operations = <<>> THEN "none" ELSE operations[Len(operations)]
Kinds == {"install", "pull", "enable"}
Steps == {"idle", "begin", "destination", "fetch", "ready", "installer", "start",
          "run", "inspect", "status"}
Codes == {"NONE", "CANCELLED", "OLLAMA_DOWNLOAD_FAILED",
          "OLLAMA_INSTALLER_INVALID", "OLLAMA_INSTALL_FAILED",
          "OLLAMA_INSTALL_TIMEOUT", "OLLAMA_MODEL_PULL_FAILED",
          "OLLAMA_MODEL_PULL_TIMEOUT", "MODEL_READY", "MODEL_MISSING",
          "OLLAMA_UNAVAILABLE", "WSL_ENABLE_FAILED", "RESTART_REQUIRED",
          "WSL_READY", "WSL2_REQUIRED", "WSL_UNAVAILABLE"}

Init ==
    /\ DownloadInit /\ NoCommand
    /\ late = FALSE /\ cancelled = FALSE
    /\ step = "idle" /\ code = "NONE"
    /\ operations = <<>> /\ fetched = FALSE

Answer(c) == step' = "idle" /\ code' = c

Still == UNCHANGED <<downloadVars, processVars, late, cancelled>>

-----------------------------------------------------------------------------
(* The operation *)

\* install, pull_model or enable is called with the operation's new event.
Request(k) ==
    /\ step = "idle"
    /\ operations' = Append(operations, k)
    /\ \E a \in Agendas :
        Len(operations) < Len(a) /\ operations' = SubSeq(a, 1, Len(operations) + 1)
    /\ step' = "begin" /\ code' = "NONE"
    /\ fetched' = FALSE
    /\ cancelled' = FALSE
    /\ Forget
    /\ UNCHANGED <<downloadVars, late>>

\* POST /api/setup/operations/{id}/cancel, or the shutdown's begin_stop.
Cancel ==
    /\ step # "idle"
    /\ ~cancelled
    /\ cancelled' = TRUE
    /\ UNCHANGED <<downloadVars, processVars, late, toolVars>>

\* The event is looked at before the first part of an operation, and by install
\* once more after the download.  A cancel that comes later is noticed by the
\* download or the command that is started next, not before.
NoticesCancel ==
    /\ step \in {"begin", "ready"}
    /\ cancelled
    /\ Answer("CANCELLED")
    /\ Still /\ UNCHANGED <<operations, fetched>>

NotCancelled ==
    /\ step \in {"begin", "ready"}
    /\ ~cancelled
    /\ step' = IF step = "ready" THEN "installer"
               ELSE IF kind = "install" THEN "destination" ELSE "start"
    /\ Still /\ UNCHANGED <<code, operations, fetched>>

BeginInstall ==
    /\ step = "destination"
    /\ Fetch
    /\ step' = "fetch"
    /\ UNCHANGED <<processVars, code, operations, fetched>>

\* The destination cannot be made.
NoDestination ==
    /\ step = "destination"
    /\ Answer("OLLAMA_DOWNLOAD_FAILED")
    /\ Still /\ UNCHANGED <<operations, fetched>>

DownloadAnswers ==
    /\ step = "fetch" /\ fetch = "none"
    /\ fetched' = (result = "published")
    /\ IF result = "published"
       THEN step' = "ready" /\ UNCHANGED code
       ELSE Answer(IF result = "cancelled" THEN "CANCELLED"
                   ELSE "OLLAMA_DOWNLOAD_FAILED")
    /\ Still /\ UNCHANGED operations

\* The published installer is gone again (a virus scanner quarantines it);
\* it is seen where the file is looked for, or started.
Quarantine ==
    /\ kind = "install" /\ step \in {"ready", "installer", "start"}
    /\ published # "none"
    /\ published' = "none"
    /\ UNCHANGED <<fetch, result, hop, lock, lookups, temporary, late,
                   cancelled, processVars, toolVars>>

InstallerInvalid ==
    /\ step = "installer"
    /\ published = "none"
    /\ Answer("OLLAMA_INSTALLER_INVALID")
    /\ Still /\ UNCHANGED <<operations, fetched>>

InstallerFound ==
    /\ step = "installer"
    /\ published # "none"
    /\ step' = "start"
    /\ Still /\ UNCHANGED <<code, operations, fetched>>

Run(t) ==
    /\ Spawn(t)
    /\ step' = "run"
    /\ UNCHANGED <<downloadVars, cancelled, code, operations, fetched>>

\* Popen raises for a file that is not there any more.
RunInstaller ==
    /\ step = "start" /\ kind = "install"
    /\ Run("installer")
    /\ published = "none" => runner' = "none"

RunCommand ==
    /\ step = "start" /\ kind # "install"
    /\ Run(kind)

Failures == [install |-> [timeout |-> "OLLAMA_INSTALL_TIMEOUT",
                          failed |-> "OLLAMA_INSTALL_FAILED"],
             pull |-> [timeout |-> "OLLAMA_MODEL_PULL_TIMEOUT",
                       failed |-> "OLLAMA_MODEL_PULL_FAILED"],
             enable |-> [timeout |-> "WSL_ENABLE_FAILED",
                         failed |-> "WSL_ENABLE_FAILED"]]

\* The end of the command of install or pull_model; only the latter looks at
\* the event once more.
CommandAnswers ==
    /\ step = "run" /\ runner = "none" /\ kind # "enable"
    /\ IF outcome = "cancelled" THEN Answer("CANCELLED")
       ELSE IF outcome # "returned" THEN Answer(Failures[kind][outcome])
       ELSE IF exit # "zero" THEN Answer(Failures[kind].failed)
       ELSE IF kind = "pull" /\ cancelled THEN Answer("CANCELLED")
       ELSE step' = "inspect" /\ UNCHANGED code
    /\ Still /\ UNCHANGED <<operations, fetched>>

\* Mutant: output of a success is not measured.
IncompleteOfFailures ==
    exit # "zero" /\ \E s \in Streams : truncated[s]

\* _require_complete_output, and _restart_pending of what was captured.
Incomplete == \E s \in Streams : truncated[s]
SaysRestart == says /\ output["out"] > 0 /\ kept["out"] = output["out"]

\* The end of "wsl.exe --install": a code, or the inspection comes next.
EnableAnswers ==
    /\ step = "run" /\ runner = "none" /\ kind = "enable"
    /\ IF outcome = "cancelled" THEN Answer("CANCELLED")
       ELSE IF outcome # "returned" \/ Incomplete THEN Answer("WSL_ENABLE_FAILED")
       ELSE IF cancelled THEN Answer("CANCELLED")
       ELSE IF exit = "3010" THEN Answer("RESTART_REQUIRED")
       ELSE IF exit # "zero" THEN Answer("WSL_ENABLE_FAILED")
       ELSE IF SaysRestart THEN Answer("RESTART_REQUIRED")
       ELSE step' = "inspect" /\ UNCHANGED code
    /\ Still /\ UNCHANGED <<operations, fetched>>

\* inspect_wsl runs "wsl.exe --status"; the announcement is of the past now.
InspectWsl ==
    /\ step = "inspect" /\ kind = "enable"
    /\ Spawn("status")
    /\ step' = "status"
    /\ UNCHANGED <<downloadVars, cancelled, code, operations, fetched>>

StatusAnswers ==
    /\ step = "status" /\ runner = "none"
    /\ IF cancelled THEN Answer("CANCELLED")
       ELSE IF outcome # "returned" \/ Incomplete THEN Answer("WSL_UNAVAILABLE")
       ELSE \/ exit = "zero" /\ Answer("WSL_READY")
            \/ Answer("WSL2_REQUIRED")
    /\ Still /\ UNCHANGED <<operations, fetched>>

\* inspect_model: the answer of health, or the failure to get one.
InspectModel ==
    /\ step = "inspect" /\ kind # "enable"
    /\ \E c \in {"MODEL_READY", "MODEL_MISSING", "OLLAMA_UNAVAILABLE"} : Answer(c)
    /\ Still /\ UNCHANGED <<operations, fetched>>

Operating ==
    \/ NoticesCancel \/ NotCancelled \/ BeginInstall \/ NoDestination
    \/ DownloadAnswers \/ InstallerInvalid \/ InstallerFound
    \/ RunInstaller \/ RunCommand \/ CommandAnswers \/ EnableAnswers
    \/ InspectWsl \/ StatusAnswers \/ InspectModel

-----------------------------------------------------------------------------
(* The components' steps, and time *)

FetchStep == Downloading /\ UNCHANGED <<processVars, toolVars>>
ServerStep == Served /\ UNCHANGED <<processVars, toolVars>>
LookupStep == LookupReturns /\ UNCHANGED <<processVars, toolVars>>
DoneStep == LookupDone /\ UNCHANGED <<processVars, toolVars>>
RunnerStep == Running /\ UNCHANGED <<downloadVars, toolVars>>
ReaderStep == Reading /\ UNCHANGED <<downloadVars, toolVars>>
ErrorStep == ReadError /\ UNCHANGED <<downloadVars, toolVars>>
PipeStep == PipeTime /\ UNCHANGED <<downloadVars, toolVars>>
ChildStep == Child /\ UNCHANGED <<downloadVars, toolVars>>
HeirStep == Heir /\ UNCHANGED <<downloadVars, toolVars>>

\* The deadline of the download or of the command passes.
Deadline ==
    /\ fetch # "none" \/ runner # "none"
    /\ ~late
    /\ late' = TRUE
    /\ UNCHANGED <<downloadVars, processVars, cancelled, toolVars>>

Next ==
    \/ \E k \in Kinds : Request(k)
    \/ Cancel \/ Operating \/ Quarantine
    \/ FetchStep \/ ServerStep \/ LookupStep \/ DoneStep \/ RunnerStep
    \/ ReaderStep \/ ErrorStep \/ PipeStep \/ ChildStep \/ HeirStep \/ Deadline

Spec == Init /\ [][Next]_vars

\* RedPath's own threads are scheduled, and a started quarter of a second
\* ends.  Nothing is assumed of getaddrinfo, the server, the command, its
\* descendants or the deadline: properties that need one of them say so.
FairSpec ==
    /\ Spec
    /\ WF_vars(Operating) /\ WF_vars(FetchStep) /\ WF_vars(RunnerStep)
    /\ WF_vars(DoneStep) /\ WF_vars(ReaderStep) /\ WF_vars(PipeStep)

-----------------------------------------------------------------------------
(* Properties *)

TypeOK ==
    /\ DownloadTypeOK /\ ProcessTypeOK
    /\ step \in Steps /\ code \in Codes
    /\ operations \in Seq(Kinds) /\ fetched \in BOOLEAN

\* An installer that is started is the pinned one, published by the download
\* of the same operation, also when the file disappears between the look for it
\* and the start: neither a download that failed or was cut short nor the file
\* an earlier one left is run (ollama.py:197-210).
RunsVerified ==
    [][runner = "none" /\ runner' # "none" /\ tool' = "installer" =>
        published = "pinned" /\ fetched]_vars

\* Enabling WSL never passes over a restart the command announced, however
\* late in its output: output that is cut off, could not be read or is still
\* held open decides nothing.
RestartNotMissed ==
    [][step = "run" /\ step' = "inspect" /\ kind = "enable" =>
        ~(says /\ output["out"] > 0 /\ written["out"] = output["out"])]_vars

\* An operation ends by its deadlines, though getaddrinfo, the server, the
\* command and whoever holds its pipes never answer.
OperationEnds == WF_vars(Deadline) => (step # "idle" ~> step = "idle")

\* Without any deadline: the runner of a command that ends when its output is
\* taken ends too.  Neither stream is left undrained while the child waits to
\* write, captured in full or not, and a descendant does not hold it up.
CommandEnds == WF_vars(ChildStep) => (runner # "none" ~> runner = "none")

\* The reader threads of a runner that ended do not stay behind it for longer
\* than somebody holds the pipe's other end.
ReadersEnd ==
    runner = "none" /\ ~Writers ~> runner # "none" \/ AllDone

-----------------------------------------------------------------------------
(* The inductive invariant behind them *)

OperationInv ==
    /\ step # "idle" => kind \in Kinds
    /\ step \notin {"run", "status"} => runner = "none"
    /\ step \in {"run", "status"} /\ runner = "none" => outcome # "none"
    /\ step \in {"destination", "fetch", "ready", "installer"} => kind = "install"
    /\ step \in {"ready", "installer"} => fetched
    /\ step = "start" /\ kind = "install" => fetched
    /\ step = "run" /\ kind = "enable" => tool = "enable"

IInv == TypeOK /\ DownloadInv /\ ProcessInv /\ OperationInv

\* What an operation waits for is at work or has answered it, and a download or
\* a command says that it was cancelled to a cancelled operation only.
WaitInv ==
    /\ step # "fetch" => fetch = "none"
    /\ step = "fetch" /\ fetch = "none" => result # "none"
    /\ step = "fetch" /\ result = "cancelled" => cancelled
    /\ fetch = "resolving" => \E l \in lookups : l.waited
    /\ outcome = "cancelled" => cancelled

\* A reader thread that waits for room in the queue has a runner that makes
\* room, and one that its runner left behind was told to stop.
ReaderInv ==
    \A s \in Streams :
        /\ reader[s] = "putting" => Watches(tool)
        /\ runner = "none" /\ reader[s] # "done" => stopped

-----------------------------------------------------------------------------
(* SetupTools implements InstallerContract *)

StageOf(c) ==
    CASE c = "NONE" -> "none"
      [] c = "CANCELLED" -> "cancelled"
      [] c \in {"MODEL_READY", "WSL_READY"} -> "ready"
      [] OTHER -> "other"

Contract == INSTANCE InstallerContract
    WITH busy <- step # "idle", event <- cancelled, stage <- StageOf(code)

\* Whatever noticed a cancel, the download, the command's runner or a check in
\* between, it is answered to the operation it was meant for.
ImplementsContract == Contract!ContractSpec
=============================================================================
