----------------------------- MODULE ToolProcess -----------------------------
(* The command a set-up operation runs and waits for: the child, the pipes   *)
(* it fills, the daemon threads that drain them, and the loop that watches   *)
(* the cancel event and the deadline.  There are two runners.  wsl.py's      *)
(* keeps a bounded prefix of both streams and refuses output it could not    *)
(* read to its end; ollama.py's reads progress lines of stderr into a queue  *)
(* of one and reports them.  Sources: redpath_setup/wsl.py and ollama.py.    *)
(*                                                                           *)
(* Abstracted: output is counted in chunks (lines for ollama.py); whatever   *)
(* the last chunk of stdout says, it says "restart" or it does not; a child  *)
(* that is asked to end does so some time later; a descendant of the child   *)
(* may hold the pipes after the child ended.  When the next operation        *)
(* begins, what the last one left behind is no longer followed.              *)
EXTENDS Naturals, SetupSignals

CONSTANTS
    Outputs,        \* bound: how many chunks a command writes, by stream
    Capture,        \* MAX_CAPTURE_BYTES, in chunks
    PipeRoom        \* chunks a pipe holds before its writer blocks

ASSUME ProcessAssumption ==
    /\ Outputs \subseteq [{"out", "err"} -> Nat]
    /\ Capture \in Nat \ {0} /\ PipeRoom \in Nat \ {0}

VARIABLES
    tool,           \* the command, or "none"
    runner,         \* where its runner is
    outcome,        \* how the runner ended
    child,          \* the child process
    asked,          \* terminate or kill was called on it
    heir,           \* a descendant holds the write ends
    exit,           \* the child's return code
    says,           \* the last chunk of stdout announces a restart
    output,         \* chunks the command has to write, by stream
    written,        \* chunks written so far, by stream
    pipe,           \* chunks written and not read, by stream
    kept,           \* chunks the reader retained, by stream
    truncated,      \* chunks were dropped, by stream
    reader,         \* the reader threads, by stream
    failed,         \* the reader could not read or close, by stream
    stopped,        \* the readers' stop event
    queue,          \* progress updates waiting, at most one
    allowance       \* the time the pipes are given after the exit

streamVars == <<written, pipe, kept, truncated, reader, failed, queue>>
childVars == <<child, asked, heir, exit, says, output>>
processVars == <<tool, runner, outcome, childVars, streamVars, stopped,
                 allowance>>

Streams == {"out", "err"}
Tools == {"installer", "pull", "enable", "status"}
Watches(t) == t \in {"installer", "pull"}      \* run by ollama.py's _run
Piped(t) == IF Watches(t) THEN {"err"} ELSE Streams
\* The return codes that the caller tells apart.
Exits(t) == {"zero", "other"} \cup (IF t = "enable" THEN {"3010"} ELSE {})
Outcomes == {"none", "returned", "cancelled", "timeout", "failed"}

Each(value) == [s \in Streams |-> value]

NoCommand ==
    /\ tool = "none" /\ runner = "none" /\ outcome = "none"
    /\ child = "none" /\ asked = FALSE /\ heir = FALSE
    /\ exit = "zero" /\ says = FALSE
    /\ output = Each(0) /\ written = Each(0) /\ pipe = Each(0) /\ kept = Each(0)
    /\ truncated = Each(FALSE) /\ reader = Each("done") /\ failed = Each(FALSE)
    /\ stopped = FALSE /\ queue = 0 /\ allowance = "unset"

\* The variables of a command are made anew with the operation.
Forget ==
    /\ tool' = "none" /\ outcome' = "none"
    /\ child' = "none" /\ asked' = FALSE /\ heir' = FALSE
    /\ exit' = "zero" /\ says' = FALSE
    /\ output' = Each(0) /\ written' = Each(0) /\ pipe' = Each(0)
    /\ kept' = Each(0) /\ truncated' = Each(FALSE)
    /\ reader' = Each("done") /\ failed' = Each(FALSE)
    /\ stopped' = FALSE /\ queue' = 0 /\ allowance' = "unset"
    /\ UNCHANGED runner

\* inspect_wsl passes an event of its own, which nobody sets.
Cancelled == cancelled /\ tool # "status"

AllDone == \A s \in Piped(tool) : reader[s] = "done"
AnyFailed == \E s \in Piped(tool) : failed[s]

\* Mutant: only a timeout ends the child.
EndStopsLate(o) ==
    /\ runner' = "none"
    /\ outcome' = o
    /\ stopped' = TRUE /\ late' = FALSE /\ allowance' = "unset"
    /\ asked' = (asked \/ (child = "running" /\ o = "timeout"))

\* The runner ends.  Its finally clause tells the readers to stop and a child
\* that still runs to end, and waits for neither beyond its deadline.
End(o) ==
    /\ runner' = "none"
    /\ outcome' = o
    /\ stopped' = TRUE /\ late' = FALSE /\ allowance' = "unset"
    /\ asked' = (asked \/ child = "running")

-----------------------------------------------------------------------------
(* The runners *)

\* Popen and the start of the reader threads, or the OSError of Popen.
Spawn(t) ==
    /\ runner = "none"
    /\ tool' = t
    /\ late' = FALSE /\ allowance' = "unset" /\ stopped' = FALSE /\ queue' = 0
    /\ asked' = FALSE /\ exit' = "zero"
    /\ written' = Each(0) /\ pipe' = Each(0) /\ kept' = Each(0)
    /\ truncated' = Each(FALSE) /\ failed' = Each(FALSE)
    /\ \/ /\ runner' = "watch" /\ outcome' = "none"
          /\ child' = "running" /\ heir' \in BOOLEAN
          /\ says' \in (IF t = "enable" THEN BOOLEAN ELSE {FALSE})
          /\ output' \in {o \in Outputs : \A s \in Streams \ Piped(t) : o[s] = 0}
          /\ reader' = [s \in Streams |-> IF s \in Piped(t) THEN "reading" ELSE "done"]
       \/ /\ runner' = "none" /\ outcome' = "failed"
          /\ child' = "none" /\ heir' = FALSE /\ says' = FALSE
          /\ output' = Each(0) /\ reader' = Each("done")

EndUnchanged == <<tool, child, heir, exit, says, output, streamVars, cancelled>>

\* wsl.py, a turn of the loop: the event, the deadline and the readers,
Checks ==
    /\ runner = "watch" /\ ~Watches(tool)
    /\ IF Cancelled THEN End("cancelled")
       ELSE IF late THEN End("timeout")
       ELSE IF AnyFailed THEN End("failed")
       ELSE runner' = "turn" /\ UNCHANGED <<outcome, stopped, asked, allowance, late>>
    /\ UNCHANGED EndUnchanged

\* then the child: it still runs, or its readers are not done,
Waits ==
    /\ runner = "turn" /\ ~Watches(tool)
    /\ child = "running" \/ (~AllDone /\ allowance # "passed" /\ ~late)
    /\ runner' = "watch"
    /\ allowance' = IF child = "ended" /\ allowance = "unset" THEN "running"
                    ELSE allowance
    /\ UNCHANGED <<tool, outcome, childVars, streamVars, stopped, late, cancelled>>

\* or somebody else keeps a pipe open for too long,
PipesHeldOpen ==
    /\ runner = "turn" /\ ~Watches(tool)
    /\ child = "ended" /\ ~AllDone
    /\ allowance = "passed" \/ late
    /\ End("failed")
    /\ UNCHANGED EndUnchanged

\* Mutant: the readers are not looked at again.
ReturnsUnchecked ==
    /\ runner = "turn" /\ ~Watches(tool)
    /\ child = "ended" /\ AllDone
    /\ End(IF Cancelled THEN "cancelled" ELSE "returned")
    /\ UNCHANGED EndUnchanged

\* or they are done, and the event and the readers are looked at again.
ReturnsOutput ==
    /\ runner = "turn" /\ ~Watches(tool)
    /\ child = "ended" /\ AllDone
    /\ End(IF Cancelled THEN "cancelled" ELSE IF AnyFailed THEN "failed" ELSE "returned")
    /\ UNCHANGED EndUnchanged

\* ollama.py: the loop ends with the child,
Polls ==
    /\ runner = "watch" /\ Watches(tool)
    /\ runner' = IF child = "ended" THEN "pipes" ELSE "turn"
    /\ allowance' = IF child = "ended" THEN "running" ELSE allowance
    /\ UNCHANGED <<tool, outcome, childVars, streamVars, stopped, late, cancelled>>

\* and looks at the deadline and the event while it runs.
Turns ==
    /\ runner = "turn" /\ Watches(tool)
    /\ IF late THEN End("timeout")
       ELSE IF Cancelled THEN End("cancelled")
       ELSE runner' = "watch" /\ UNCHANGED <<outcome, stopped, asked, allowance, late>>
    /\ UNCHANGED EndUnchanged

\* An update is taken from the queue and reported.
Report ==
    /\ runner \in {"turn", "pipes"} /\ Watches(tool)
    /\ queue = 1
    /\ queue' = 0
    /\ UNCHANGED <<tool, runner, outcome, childVars, written, pipe, kept,
                   truncated, reader, failed, stopped, allowance, late, cancelled>>

\* The reader ended, or has had its time; what it left is reported.
ReturnsCode ==
    /\ runner = "pipes"
    /\ AllDone \/ allowance = "passed" \/ late
    /\ End("returned")
    /\ queue' = 0
    /\ UNCHANGED <<tool, child, heir, exit, says, output, written, pipe, kept,
                   truncated, reader, failed, cancelled>>

Running ==
    \/ Checks \/ Waits \/ PipesHeldOpen \/ ReturnsOutput
    \/ Polls \/ Turns \/ Report \/ ReturnsCode

\* pipe_deadline, or drain_deadline, passes.
PipeTime ==
    /\ runner # "none"
    /\ allowance = "running"
    /\ allowance' = "passed"
    /\ UNCHANGED <<tool, runner, outcome, childVars, streamVars, stopped, late,
                   cancelled>>

-----------------------------------------------------------------------------
(* The readers: _BoundedDrain.read and _read_progress_lines *)

Writers == child = "running" \/ heir

\* Mutant: a full capture stops draining.
ReadToLimit(s) ==
    /\ reader[s] = "reading"
    /\ ~stopped
    /\ pipe[s] > 0
    /\ Watches(tool) \/ kept[s] < Capture
    /\ pipe' = [pipe EXCEPT ![s] = @ - 1]
    /\ IF Watches(tool)
       THEN reader' = [reader EXCEPT ![s] = "putting"] /\ UNCHANGED kept
       ELSE kept' = [kept EXCEPT ![s] = @ + 1] /\ UNCHANGED reader
    /\ UNCHANGED <<written, truncated, failed, queue>>

\* A chunk is retained as far as the capture allows; a line becomes an update.
Read(s) ==
    /\ reader[s] = "reading"
    /\ ~stopped
    /\ pipe[s] > 0
    /\ pipe' = [pipe EXCEPT ![s] = @ - 1]
    /\ IF Watches(tool)
       THEN /\ reader' = [reader EXCEPT ![s] = "putting"]
            /\ UNCHANGED <<kept, truncated>>
       ELSE /\ IF kept[s] < Capture
               THEN kept' = [kept EXCEPT ![s] = @ + 1] /\ UNCHANGED truncated
               ELSE truncated' = [truncated EXCEPT ![s] = TRUE] /\ UNCHANGED kept
            /\ UNCHANGED reader
    /\ UNCHANGED <<written, failed, queue>>

\* Mutant: waits for room only.
PutWaits(s) ==
    /\ reader[s] = "putting"
    /\ queue = 0
    /\ reader' = [reader EXCEPT ![s] = "reading"]
    /\ queue' = 1
    /\ UNCHANGED <<written, pipe, kept, truncated, failed>>

\* ollama.py: the reader waits for room in the queue, or to be stopped.
Put(s) ==
    /\ reader[s] = "putting"
    /\ stopped \/ queue = 0
    /\ reader' = [reader EXCEPT ![s] = "reading"]
    /\ queue' = IF stopped THEN queue ELSE 1
    /\ UNCHANGED <<written, pipe, kept, truncated, failed>>

\* The end of the stream, or the stop event after a read.
EndReading(s) ==
    /\ reader[s] = "reading"
    /\ pipe[s] = 0 => ~Writers
    /\ pipe[s] > 0 => stopped
    /\ reader' = [reader EXCEPT ![s] = "closing"]
    /\ UNCHANGED <<written, pipe, kept, truncated, failed, queue>>

\* A read error; only wsl.py's runner hears of it.
ReadFails(s) ==
    /\ reader[s] = "reading"
    /\ reader' = [reader EXCEPT ![s] = "closing"]
    /\ failed' = [failed EXCEPT ![s] = ~Watches(tool)]
    /\ UNCHANGED <<written, pipe, kept, truncated, queue>>

\* The reader closes its stream, which may fail, and only then is done.
CloseStream(s) ==
    /\ reader[s] = "closing"
    /\ reader' = [reader EXCEPT ![s] = "done"]
    /\ \/ UNCHANGED failed
       \/ ~Watches(tool) /\ failed' = [failed EXCEPT ![s] = TRUE]
    /\ UNCHANGED <<written, pipe, kept, truncated, queue>>

Reading ==
    /\ \E s \in Streams : Read(s) \/ Put(s) \/ EndReading(s) \/ CloseStream(s)
    /\ UNCHANGED <<tool, runner, outcome, childVars, stopped, allowance, late,
                   cancelled>>

ReadError ==
    /\ \E s \in Streams : ReadFails(s)
    /\ UNCHANGED <<tool, runner, outcome, childVars, stopped, allowance, late,
                   cancelled>>

-----------------------------------------------------------------------------
(* The child and its descendant *)

\* The writer blocks on a full pipe; a pipe whose reader has closed it fails
\* the write instead, and what was to be written is lost.
Write(s) ==
    /\ Writers
    /\ written[s] < output[s]
    /\ pipe[s] < PipeRoom \/ reader[s] = "done"
    /\ written' = [written EXCEPT ![s] = @ + 1]
    /\ pipe' = IF reader[s] = "done" THEN pipe ELSE [pipe EXCEPT ![s] = @ + 1]
    /\ UNCHANGED <<childVars, kept, truncated, reader, failed, queue>>

\* The child ends when it has written everything, or was asked to, or leaves
\* the rest to a descendant, which holds the pipes.
ChildEnds ==
    /\ child = "running"
    /\ child' = "ended"
    /\ asked \/ heir \/ (\A s \in Streams : written[s] = output[s])
    /\ exit' \in (IF asked THEN {"other"} ELSE Exits(tool))
    /\ UNCHANGED <<asked, heir, says, output, streamVars>>

HeirEnds ==
    /\ heir
    /\ child = "ended"
    /\ heir' = FALSE
    /\ UNCHANGED <<child, asked, exit, says, output, streamVars>>

Child ==
    /\ (\E s \in Streams : Write(s)) \/ ChildEnds
    /\ UNCHANGED <<tool, runner, outcome, stopped, allowance, late, cancelled>>
Heir ==
    /\ HeirEnds
    /\ UNCHANGED <<tool, runner, outcome, stopped, allowance, late, cancelled>>

-----------------------------------------------------------------------------
(* Properties *)

ProcessTypeOK ==
    /\ tool \in Tools \cup {"none"}
    /\ runner \in {"none", "watch", "turn", "pipes"} /\ outcome \in Outcomes
    /\ child \in {"none", "running", "ended"}
    /\ {asked, heir, says, stopped} \subseteq BOOLEAN
    /\ allowance \in {"unset", "running", "passed"}
    /\ exit \in {"zero", "3010", "other"}
    /\ output \in [Streams -> Nat] /\ written \in [Streams -> Nat]
    /\ \A s \in Streams : written[s] <= output[s]
    /\ pipe \in [Streams -> 0..PipeRoom]
    /\ kept \in [Streams -> 0..Capture]
    /\ truncated \in [Streams -> BOOLEAN] /\ failed \in [Streams -> BOOLEAN]
    /\ reader \in [Streams -> {"reading", "putting", "closing", "done"}]
    /\ queue \in 0..1

\* Output that wsl.py returns is everything that was written to both streams,
\* or says that it is cut off: a reader that failed just before it was done,
\* or a descendant that still writes, never shortens it silently.
CompleteOrFlagged ==
    ~Watches(tool) /\ outcome = "returned" =>
        \A s \in Piped(tool) :
            /\ ~Writers /\ pipe[s] = 0 /\ ~failed[s]
            /\ truncated[s] \/ kept[s] = written[s]

\* A runner that ended, whatever ended it, leaves no child that it has not
\* asked to end: shutdown waits for it (ProtectedShutdown) and the next
\* set-up would run beside it.
NoChildForgotten == runner = "none" => child # "running" \/ asked

\* What carries CompleteOrFlagged while a command of wsl.py runs: a reader that
\* has not failed accounts for every chunk, and gives up its stream only when
\* it is empty and nobody can write to it.
Accounted ==
    ~Watches(tool) /\ ~stopped =>
        \A s \in Streams : ~failed[s] =>
            /\ truncated[s] \/ kept[s] + pipe[s] = written[s]
            /\ reader[s] \in {"closing", "done"} => pipe[s] = 0 /\ ~Writers

ProcessInv ==
    /\ ProcessTypeOK /\ Accounted /\ CompleteOrFlagged /\ NoChildForgotten
    /\ runner # "none" => outcome = "none" /\ ~stopped
    /\ runner = "pipes" => Watches(tool)
    /\ ~Watches(tool) /\ outcome = "returned" => AllDone
=============================================================================
