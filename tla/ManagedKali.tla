----------------------------- MODULE ManagedKali -----------------------------
(* The one distribution RedPath manages in WSL: the import of the pinned     *)
(* image and the marker that makes it RedPath's, the ownership check before  *)
(* every action, and the wsl.exe commands that outlive the thread or the     *)
(* process that started them.  Sources: redpath_setup/wsl.py, downloads.py.  *)
(*                                                                           *)
(* SetupOperations shows that one setup operation runs at a time.  Actions   *)
(* are several: /run gives the fence back before it calls run_in_kali.       *)
(* Somebody else may register or unregister a distribution under the name at *)
(* any moment, also between a check of RedPath's and the command that relies *)
(* on it; nobody else writes RedPath's marker.                               *)
(* Abstracted: the contents of files and listings; a deadline may pass       *)
(* whenever the code waits; _adapt_runner (used by tests only).              *)
EXTENDS Naturals

CONSTANTS
    Actions,        \* the calls of run_in_kali that may be made at once
    MaxAbandoned    \* bound: set-ups that end between import and marker

ASSUME AbandonedAssumption == MaxAbandoned \in Nat
ASSUME ActionsAssumption == "touch" \notin Actions

VARIABLES
    distro,         \* who registered RedPath-Kali
    marked,         \* /etc/redpath-managed is in it
    temporary,      \* the bytes under the temporary name
    published,      \* the bytes under the artifact's name
    setup,          \* where install_kali is
    action,         \* where each run_in_kali is
    cancelled,      \* the event of the setup operation
    code,           \* the code of the last stage install_kali returned
    imports,        \* abandoned "wsl.exe --import" that still run
    touches,        \* abandoned "touch /etc/redpath-managed" that still run
    interrupted,    \* set-ups that ended between import and marker
    overtaken,      \* history: commands on their way, whose distribution was
                    \* unregistered after its import or after their check
    mismarked       \* history: a touch that was overtaken marked this one

wsl == <<distro, marked>>
files == <<temporary, published>>
orphans == <<imports, touches, interrupted>>
history == <<overtaken, mismarked>>
vars == <<distro, marked, temporary, published, setup, action, cancelled,
          code, imports, touches, interrupted, overtaken, mismarked>>

Owners == {"none", "ours", "foreign"}
Bytes == {"none", "pinned", "other"}
Codes == {"NONE", "CANCELLED", "KALI_WSL_REQUIRED", "KALI_MARKER_CHECK_FAILED",
          "KALI_IDENTITY_MISMATCH", "KALI_DOWNLOAD_FAILED",
          "KALI_ARTIFACT_INVALID", "KALI_IMPORT_FAILED", "KALI_MARKER_FAILED",
          "KALI_READY"}

Init ==
    /\ distro \in {"none", "foreign"} /\ marked = FALSE
    /\ temporary = "none" /\ published = "none"
    /\ setup = "idle" /\ action = [a \in Actions |-> "idle"]
    /\ cancelled = FALSE /\ code = "NONE"
    /\ imports = 0 /\ touches = 0 /\ interrupted = 0
    /\ overtaken = {} /\ mismarked = FALSE

\* install_kali returns a stage.
Answer(c) == setup' = "idle" /\ code' = c

\* A failure, or the cancellation that may have been noticed before it.
AnswerFailure(c) ==
    setup' = "idle" /\ code' \in {c} \cup (IF cancelled THEN {"CANCELLED"} ELSE {})

-----------------------------------------------------------------------------
(* install_kali: the inspection that comes first *)

\* Consent is asked for and checked by the route (SetupOperations).
Install ==
    /\ setup = "idle"
    /\ setup' = "list"
    /\ code' = "NONE"
    /\ cancelled' = FALSE
    /\ UNCHANGED <<wsl, files, action, orphans, history>>

\* POST /api/setup/operations/{id}/cancel, or the shutdown's begin_stop.
Cancel ==
    /\ setup # "idle"
    /\ cancelled' = TRUE
    /\ UNCHANGED <<wsl, files, setup, action, code, orphans, history>>

\* A cancellation that is set before the first look.
CancelledEarly ==
    /\ setup = "list"
    /\ cancelled
    /\ Answer("CANCELLED")
    /\ UNCHANGED <<wsl, files, action, cancelled, orphans, history>>

\* --status or --list fails, times out or is cut off.
SetupWslFails ==
    /\ setup = "list"
    /\ Answer("KALI_WSL_REQUIRED")
    /\ UNCHANGED <<wsl, files, action, cancelled, orphans, history>>

SetupLists ==
    /\ setup = "list"
    /\ setup' = IF distro = "none" THEN "fetch" ELSE "marker"
    /\ UNCHANGED <<wsl, files, action, cancelled, code, orphans, history>>

\* The distribution may be gone by now, or the command fails or times out.
SetupMarkerFails ==
    /\ setup = "marker"
    /\ \/ Answer("KALI_MARKER_CHECK_FAILED")
       \/ Answer("KALI_WSL_REQUIRED")
    /\ UNCHANGED <<wsl, files, action, cancelled, orphans, history>>

SetupReadsMarker ==
    /\ setup = "marker"
    /\ distro # "none"
    /\ Answer(IF marked THEN "KALI_READY" ELSE "KALI_IDENTITY_MISMATCH")
    /\ UNCHANGED <<wsl, files, action, cancelled, orphans, history>>

-----------------------------------------------------------------------------
(* download_verified *)

\* The response ends: whole, cut off or replaced on its way.
Fetch ==
    /\ setup = "fetch"
    /\ temporary' \in {"pinned", "other"}
    /\ setup' = "verify"
    /\ UNCHANGED <<wsl, published, action, cancelled, code, orphans, history>>

\* The connection, the deadline or the disk fails; the temporary file goes.
FetchFails ==
    /\ setup \in {"fetch", "verify", "publish"}
    /\ AnswerFailure("KALI_DOWNLOAD_FAILED")
    /\ temporary' = "none"
    /\ UNCHANGED <<wsl, published, action, cancelled, orphans, history>>

\* The digest and the size are compared.
Verify ==
    /\ setup = "verify"
    /\ ~cancelled
    /\ IF temporary = "pinned"
       THEN setup' = "publish" /\ UNCHANGED <<code, temporary>>
       ELSE Answer("KALI_DOWNLOAD_FAILED") /\ temporary' = "none"
    /\ UNCHANGED <<wsl, published, action, cancelled, orphans, history>>

\* os.replace; a cancellation set after the last look does not prevent it.
Publish ==
    /\ setup = "publish"
    /\ published' = temporary
    /\ temporary' = "none"
    /\ setup' = "import"
    /\ UNCHANGED <<wsl, action, cancelled, code, orphans, history>>

-----------------------------------------------------------------------------
(* wsl.exe --import *)

CancelledBeforeImport ==
    /\ setup = "import"
    /\ cancelled
    /\ Answer("CANCELLED")
    /\ UNCHANGED <<wsl, files, action, cancelled, orphans, history>>

NotCancelledBeforeImport ==
    /\ setup = "import"
    /\ ~cancelled
    /\ setup' = "artifact"
    /\ UNCHANGED <<wsl, files, action, cancelled, code, orphans, history>>

\* The artifact is not a regular file any more.
ArtifactInvalid ==
    /\ setup = "artifact"
    /\ Answer("KALI_ARTIFACT_INVALID")
    /\ UNCHANGED <<wsl, files, action, cancelled, orphans, history>>

ImportStarts ==
    /\ setup = "artifact"
    /\ setup' = "importing"
    /\ UNCHANGED <<wsl, files, action, cancelled, code, orphans, history>>

\* WSL registers the distribution, if nobody else has under this name.
ImportRegisters ==
    /\ setup = "importing"
    /\ distro = "none"
    /\ distro' = "ours" /\ marked' = FALSE
    /\ setup' = "imported"
    /\ overtaken' = IF touches > 0 THEN overtaken ELSE overtaken \ {"touch"}
    /\ UNCHANGED <<files, action, cancelled, code, orphans, mismarked>>

\* Mutant: the return code of the import is not looked at.
ImportIgnored ==
    /\ setup = "importing"
    /\ setup' = "mark"
    /\ UNCHANGED <<wsl, files, action, cancelled, code, orphans, history>>

\* A return code other than 0: the name is taken, or the image was refused.
ImportRefused ==
    /\ setup = "importing"
    /\ Answer(IF cancelled THEN "CANCELLED" ELSE "KALI_IMPORT_FAILED")
    /\ UNCHANGED <<wsl, files, action, cancelled, orphans, history>>

-----------------------------------------------------------------------------
(* The marker *)

ImportReturns ==
    /\ setup = "imported"
    /\ ~cancelled
    /\ setup' = "mark"
    /\ UNCHANGED <<wsl, files, action, cancelled, code, orphans, history>>

\* touch runs in whatever has the name by now.
MarkerAppears ==
    /\ distro # "none"
    /\ marked' = TRUE
    /\ mismarked' = (mismarked \/ "touch" \in overtaken)
    /\ UNCHANGED <<distro, overtaken>>

Touch ==
    /\ setup = "mark"
    /\ MarkerAppears
    /\ setup' = "touched"
    /\ UNCHANGED <<files, action, cancelled, code, orphans>>

\* Mutant: a touch that failed is answered as a ready distribution.
TouchIgnored ==
    /\ setup = "mark"
    /\ Answer("KALI_READY")
    /\ UNCHANGED <<wsl, files, action, cancelled, orphans, history>>

\* touch returns something other than 0, or finds no distribution.
TouchFails ==
    /\ setup = "mark"
    /\ interrupted < MaxAbandoned
    /\ interrupted' = interrupted + 1
    /\ AnswerFailure("KALI_MARKER_FAILED")
    /\ UNCHANGED <<wsl, files, action, cancelled, imports, touches, history>>

TouchReturns ==
    /\ setup = "touched"
    /\ Answer(IF cancelled THEN "CANCELLED" ELSE "KALI_READY")
    /\ UNCHANGED <<wsl, files, action, cancelled, orphans, history>>

-----------------------------------------------------------------------------
(* Commands that are given up *)

\* The distribution is, or may soon be, registered and not marked.
Unfinished == {"importing", "imported", "mark"}

\* What the setup thread leaves running when it stops waiting: wsl.exe is
\* terminated but not reaped, and the WSL service may finish its work.
Leave ==
    /\ imports' = IF setup = "importing" THEN imports + 1 ELSE imports
    /\ touches' = IF setup = "mark" THEN touches + 1 ELSE touches
    /\ IF setup \in Unfinished
       THEN interrupted < MaxAbandoned /\ interrupted' = interrupted + 1
       ELSE UNCHANGED interrupted

\* _run_cancellable raises: cancellation, deadline, pipes that fail or stay
\* open, truncated output.  The result of a finished command is lost too.
GiveUp ==
    /\ setup \in Unfinished \cup {"touched"}
    /\ Leave
    /\ AnswerFailure(IF setup \in {"importing", "imported"}
                     THEN "KALI_IMPORT_FAILED" ELSE "KALI_MARKER_FAILED")
    /\ UNCHANGED <<wsl, files, action, cancelled, history>>

\* RedPath dies and is started again.
Crash ==
    /\ setup # "idle" \/ \E a \in Actions : action[a] # "idle"
    /\ Leave
    /\ setup' = "idle" /\ action' = [a \in Actions |-> "idle"]
    /\ overtaken' = overtaken \ Actions
    /\ temporary' = "none"
    /\ cancelled' = FALSE /\ code' = "NONE"
    /\ UNCHANGED <<wsl, published, mismarked>>

OrphanImports ==
    /\ imports > 0
    /\ imports' = imports - 1
    /\ IF distro = "none" THEN distro' = "ours" /\ marked' = FALSE
                          ELSE UNCHANGED wsl
    /\ UNCHANGED <<files, setup, action, cancelled, code, touches,
                   interrupted, history>>

OrphanTouches ==
    /\ touches > 0
    /\ touches' = touches - 1
    /\ MarkerAppears
    /\ UNCHANGED <<files, setup, action, cancelled, code, imports, interrupted>>

\* The command died with its wsl.exe, or failed.
OrphanDies ==
    /\ \/ imports > 0 /\ imports' = imports - 1 /\ UNCHANGED touches
       \/ touches > 0 /\ touches' = touches - 1 /\ UNCHANGED imports
    /\ UNCHANGED <<wsl, files, setup, action, cancelled, code, interrupted,
                   history>>

-----------------------------------------------------------------------------
(* run_in_kali *)

Moves(a, from, to) ==
    /\ action[a] \in from
    /\ action' = [action EXCEPT ![a] = to]
    /\ UNCHANGED <<wsl, files, setup, cancelled, code, orphans, mismarked>>

Run(a) == Moves(a, {"idle"}, "list") /\ UNCHANGED overtaken

\* "managed Kali distribution is not ready": a call failed or the answer is no.
RunRefused(a) == Moves(a, {"list", "marker"}, "idle") /\ UNCHANGED overtaken

RunLists(a) ==
    distro # "none" /\ Moves(a, {"list"}, "marker") /\ UNCHANGED overtaken

\* Mutant: a distribution with the right name is good enough.
RunTrustsName(a) ==
    distro # "none" /\ Moves(a, {"marker"}, "exec") /\ UNCHANGED overtaken

RunReadsMarker(a) ==
    /\ distro # "none" /\ marked
    /\ Moves(a, {"marker"}, "exec")
    /\ UNCHANGED overtaken

\* wsl.exe executes the action in whatever has the name by now, or fails.
Exec(a) == Moves(a, {"exec"}, "idle") /\ overtaken' = overtaken \ {a}

-----------------------------------------------------------------------------
(* Somebody else *)

\* A marker is on its way to the distribution that was imported.
TouchPending == setup \in {"imported", "mark"} \/ touches > 0

RegisterForeign ==
    /\ distro = "none"
    /\ distro' = "foreign" /\ marked' = FALSE
    /\ UNCHANGED <<files, setup, action, cancelled, code, orphans, history>>

Unregister ==
    /\ distro # "none"
    /\ distro' = "none" /\ marked' = FALSE
    /\ overtaken' = overtaken \cup {a \in Actions : action[a] = "exec"}
                              \cup (IF TouchPending THEN {"touch"} ELSE {})
    /\ mismarked' = FALSE
    /\ UNCHANGED <<files, setup, action, cancelled, code, orphans>>

-----------------------------------------------------------------------------
Inspecting ==
    \/ CancelledEarly \/ SetupWslFails \/ SetupLists
    \/ SetupMarkerFails \/ SetupReadsMarker

Downloading == Fetch \/ FetchFails \/ Verify \/ Publish

Importing ==
    \/ CancelledBeforeImport \/ NotCancelledBeforeImport \/ ArtifactInvalid
    \/ ImportStarts \/ ImportRegisters \/ ImportRefused \/ ImportReturns

Marking == Touch \/ TouchFails \/ TouchReturns

Running ==
    \E a \in Actions :
        Run(a) \/ RunRefused(a) \/ RunLists(a) \/ RunReadsMarker(a) \/ Exec(a)

Elsewhere ==
    \/ OrphanImports \/ OrphanTouches \/ OrphanDies
    \/ RegisterForeign \/ Unregister

Next ==
    \/ Install \/ Cancel \/ Inspecting \/ Downloading \/ Importing \/ Marking
    \/ GiveUp \/ Crash \/ Running \/ Elsewhere

Spec == Init /\ [][Next]_vars

-----------------------------------------------------------------------------
(* Properties *)

\* wsl.py: whoever takes the name while RedPath downloads or imports, and
\* whatever it abandoned before, its marker gets into somebody else's
\* distribution in one way only: RedPath's own was imported, and then replaced
\* before the touch that followed took effect (wsl.py:367-373 does not look).
ForeignNeverMarked == distro = "foreign" /\ marked => mismarked

\* run_in_kali: an action is executed in a marked distribution, and that is
\* RedPath's.  Set-ups, other actions, abandoned commands and crashes never
\* take it away between the check and the execution; somebody who replaces it
\* there does, and only for the actions already checked (wsl.py:399-402).
ActionsStayInside ==
    \A a \in Actions :
        action[a] = "exec" /\ a \notin overtaken =>
            marked /\ (distro = "ours" \/ mismarked)

\* downloads.py: whatever fails, is cancelled or crashes, the artifact's name
\* never stands for other bytes than the pinned ones.
PublishedIsPinned == published \in {"none", "pinned"}

\* An unmarked distribution of RedPath is one that install_kali is working on,
\* or the trace of a command that failed or was abandoned: a set-up that was
\* left alone does not lock itself out.
UnmarkedIsLeftover ==
    distro = "ours" /\ ~marked =>
        setup \in {"imported", "mark"} \/ interrupted > 0

\* wsl.py:292, "The existing Kali distribution is not managed by RedPath."
\* (design.md:109, "Interrupted setup resumes from revalidated component
\* state"): that is answered about a distribution of somebody else only.
MismatchIsForeign ==
    [][code' = "KALI_IDENTITY_MISMATCH" /\ code # code' => distro = "foreign"]_vars

-----------------------------------------------------------------------------
(* The inductive invariant behind them *)

TypeOK ==
    /\ distro \in Owners /\ marked \in BOOLEAN
    /\ temporary \in Bytes /\ published \in Bytes
    /\ setup \in {"idle", "list", "marker", "fetch", "verify", "publish",
                  "import", "artifact", "importing", "imported", "mark",
                  "touched"}
    /\ action \in [Actions -> {"idle", "list", "marker", "exec"}]
    /\ cancelled \in BOOLEAN /\ code \in Codes
    /\ imports \in Nat /\ touches \in Nat /\ interrupted \in Nat
    /\ overtaken \subseteq Actions \cup {"touch"} /\ mismarked \in BOOLEAN

\* A touch on its way finds the distribution it was meant for, or is overtaken.
CommandInv == TouchPending => distro = "ours" \/ "touch" \in overtaken

OwnerInv == marked => distro = "ours" \/ (distro = "foreign" /\ mismarked)

FileInv ==
    /\ published \in {"none", "pinned"}
    /\ setup = "publish" => temporary = "pinned"

\* Abandoned commands have been counted.
LeftoverInv ==
    /\ imports > 0 => interrupted > 0
    /\ UnmarkedIsLeftover

IInv ==
    TypeOK /\ CommandInv /\ OwnerInv /\ FileInv /\ LeftoverInv /\ ActionsStayInside

-----------------------------------------------------------------------------
(* install_kali implements InstallerContract *)

StageOf(c) ==
    CASE c = "NONE" -> "none"
      [] c = "CANCELLED" -> "cancelled"
      [] c = "KALI_READY" -> "ready"
      [] OTHER -> "other"

Contract == INSTANCE InstallerContract
    WITH busy <- setup # "idle", event <- cancelled, stage <- StageOf(code)

\* A command that was given up or failed is answered as a cancel only if this
\* set-up was cancelled; a crash leaves no answer.
ImplementsContract == Contract!ContractSpec
=============================================================================
