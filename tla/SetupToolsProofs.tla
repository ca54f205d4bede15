---------------------------- MODULE SetupToolsProofs ----------------------------
(* Proofs about SetupTools for every artifact size, number of redirects,     *)
(* capture, pipe, set of outputs and agenda.  IInv has three parts: of the   *)
(* download, of the command and of the operation that runs them.  Each is    *)
(* preserved by the steps of its own component, proved one action at a time, *)
(* and by any step that leaves its variables alone.                          *)
EXTENDS SetupTools, TLAPS

USE DownloadAssumption, ProcessAssumption

-----------------------------------------------------------------------------
(* The download *)

\* Download variables that a step leaves alone keep their invariant.
LEMMA DownloadFrame ==
    ASSUME DownloadInv, UNCHANGED downloadVars,
           late' \in BOOLEAN, cancelled' \in BOOLEAN
    PROVE  DownloadInv'
BY DEF DownloadInv, downloadVars, DownloadTypeOK, OneLookup, Looking, Pinned

\* Giving the lookup up keeps the thread that runs it, and so the lock's owner.
LEMMA LeavingKeepsThread ==
    ASSUME lookups \subseteq Lookup, OneLookup, lock \in BOOLEAN,
           NEW o, Leave(o), lock' = lock
    PROVE  lookups' \subseteq Lookup /\ OneLookup'
<1> DEFINE give(l) == [l EXCEPT !.waited = FALSE]
<1>1. \A l \in lookups : give(l) \in Lookup /\ give(l).at = l.at
  BY DEF Lookup
<1>2. lookups' = {give(l) : l \in Looking} /\ Looking \subseteq lookups
  BY DEF Leave, Looking
<1>3. lookups' \subseteq Lookup
  BY <1>1, <1>2
<1>4. Looking' = {give(l) : l \in Looking}
  BY <1>1, <1>2 DEF Looking
<1>5. Looking' # {} <=> Looking # {}
  BY <1>4
<1>6. \A l, k \in Looking' : l = k
  BY <1>4 DEF OneLookup
<1>7. (lock <=> Looking # {})'
  BY <1>5 DEF OneLookup
<1> QED BY <1>3, <1>6, <1>7 DEF OneLookup

\* A download that ends keeps the invariant.
LEMMA LeavingKeepsInv ==
    ASSUME DownloadInv, NEW o \in Results, Leave(o), lock' = lock,
           published' \in {"none", "pinned"}, cancelled' \in BOOLEAN
    PROVE  DownloadInv'
<1>1. lookups' \subseteq Lookup /\ OneLookup'
  BY LeavingKeepsThread DEF DownloadInv, DownloadTypeOK
<1>2. NoFile \in [chunks: 0..Size + 1, intact: BOOLEAN] /\ 0 \in 0..MaxHops
  BY DEF NoFile
<1>3. /\ fetch' = "none" /\ result' = o /\ temporary' = NoFile
      /\ hop' = 0 /\ late' = FALSE
  BY DEF Leave
<1>4. DownloadTypeOK'
  <2>1. fetch' \in Places /\ result' \in Results /\ hop' \in 0..MaxHops
    BY <1>2, <1>3 DEF Places
  <2>2. late' \in BOOLEAN /\ lock' \in BOOLEAN
    BY <1>3 DEF DownloadInv, DownloadTypeOK
  <2>3. temporary' \in [chunks: 0..Size + 1, intact: BOOLEAN]
    BY <1>2, <1>3
  <2> QED BY <1>1, <2>1, <2>2, <2>3 DEF DownloadTypeOK
<1> QED BY <1>1, <1>3, <1>4 DEF DownloadInv

\* The lookups are left alone by the steps in the middle of a connection.
LEMMA SameLookups ==
    ASSUME DownloadInv, lookups' = lookups, lock' = lock
    PROVE  lookups' \subseteq Lookup /\ OneLookup'
BY DEF DownloadInv, DownloadTypeOK, OneLookup, Looking

\* One lookup begins only when nobody holds the lock.
LEMMA ResolveKeepsInv ==
    ASSUME DownloadInv, Resolve PROVE DownloadInv'
<1>1. CASE lock
  <2>1. Leave("failed") /\ lock' = lock /\ UNCHANGED <<published, cancelled>>
    BY <1>1 DEF Resolve
  <2> QED BY <2>1, LeavingKeepsInv DEF DownloadInv, DownloadTypeOK, Results
<1>2. CASE ~lock
  <2> DEFINE new == [waited |-> TRUE, at |-> "looking", found |-> FALSE]
  <2>1. /\ lock' = TRUE /\ lookups' = lookups \cup {new}
        /\ fetch' = "resolving"
        /\ UNCHANGED <<result, hop, late, temporary, published, cancelled>>
    BY <1>2 DEF Resolve
  <2>2. Looking = {}
    BY <1>2 DEF DownloadInv, OneLookup
  <2>3. Looking' = {new}
    BY <2>1, <2>2 DEF Looking
  <2>4. OneLookup'
    BY <2>1, <2>3 DEF OneLookup
  <2>5. lookups' \subseteq Lookup
    <3>1. new \in Lookup
      BY DEF Lookup
    <3> QED BY <2>1, <3>1 DEF DownloadInv, DownloadTypeOK
  <2>6. DownloadTypeOK'
    BY <2>1, <2>5 DEF DownloadInv, DownloadTypeOK, Places
  <2> QED BY <2>1, <2>4, <2>6 DEF DownloadInv
<1> QED BY <1>1, <1>2 DEF DownloadInv, DownloadTypeOK

LEMMA ResolvedKeepsInv ==
    ASSUME DownloadInv, Resolved PROVE DownloadInv'
<1>1. PICK l \in lookups :
        /\ l.waited /\ l.at = "done"
        /\ IF l.found
           THEN /\ fetch' = "connecting"
                /\ lookups' = lookups \ {l}
                /\ UNCHANGED <<result, hop, late, temporary>>
           ELSE Leave("failed")
  BY DEF Resolved
<1>2. UNCHANGED <<lock, published, cancelled>>
  BY DEF Resolved
<1>3. CASE l.found
  <2>1. /\ fetch' = "connecting" /\ lookups' = lookups \ {l}
        /\ UNCHANGED <<result, hop, late, temporary>>
    BY <1>1, <1>3
  <2>2. Looking' = Looking
    BY <1>1, <2>1 DEF Looking
  <2>3. OneLookup'
    BY <1>2, <2>2 DEF DownloadInv, OneLookup
  <2>4. DownloadTypeOK'
    BY <1>2, <2>1 DEF DownloadInv, DownloadTypeOK, Places
  <2> QED BY <1>2, <2>1, <2>3, <2>4 DEF DownloadInv
<1>4. CASE ~l.found
  <2>1. Leave("failed")
    BY <1>1, <1>4
  <2> QED BY <1>2, <2>1, LeavingKeepsInv DEF DownloadInv, DownloadTypeOK, Results
<1> QED BY <1>3, <1>4

\* The other steps of the downloading thread.
LEMMA RemainingKeepsInv ==
    ASSUME DownloadInv, Remaining \/ Breaks PROVE DownloadInv'
<1>1. Leave(IF cancelled THEN "cancelled" ELSE "failed")
  BY DEF Remaining, Breaks
<1>2. UNCHANGED <<lock, published, cancelled>>
  BY DEF Remaining, Breaks
<1>3. (IF cancelled THEN "cancelled" ELSE "failed") \in Results
  BY DEF Results
<1> QED BY <1>1, <1>2, <1>3, LeavingKeepsInv DEF DownloadInv, DownloadTypeOK

LEMMA PublishKeepsInv ==
    ASSUME DownloadInv, Publish PROVE DownloadInv'
<1>1. Pinned(temporary)
  BY DEF DownloadInv, Publish
<1>2. published' = "pinned" /\ Leave("published") /\ UNCHANGED <<lock, cancelled>>
  BY <1>1 DEF Publish
<1> QED BY <1>2, LeavingKeepsInv DEF DownloadInv, DownloadTypeOK, Results

LEMMA ConnectionKeepsInv ==
    ASSUME DownloadInv, Connect \/ Redirect \/ Respond \/ ReadChunk \/ Verify
    PROVE  DownloadInv'
<1>1. CASE Connect
  <2>1. DownloadTypeOK' /\ OneLookup'
    BY <1>1, SameLookups DEF Connect, DownloadInv, DownloadTypeOK, Places
  <2> QED BY <1>1, <2>1 DEF Connect, DownloadInv
<1>2. CASE Redirect
  <2>1. CASE Leave("failed")
    BY <1>2, <2>1, LeavingKeepsInv DEF Redirect, DownloadInv, DownloadTypeOK, Results
  <2>2. CASE /\ hop < MaxHops /\ hop' = hop + 1 /\ fetch' = "open"
             /\ UNCHANGED <<result, lookups, temporary, late>>
    <3>1. hop' \in 0..MaxHops
      BY <2>2 DEF DownloadInv, DownloadTypeOK
    <3>2. DownloadTypeOK' /\ OneLookup'
      BY <1>2, <2>2, <3>1, SameLookups DEF Redirect, DownloadInv, DownloadTypeOK, Places
    <3> QED BY <1>2, <2>2, <3>2 DEF Redirect, DownloadInv
  <2> QED BY <1>2, <2>1, <2>2 DEF Redirect
<1>3. CASE Respond
  <2>1. DownloadTypeOK' /\ OneLookup'
    BY <1>3, SameLookups DEF Respond, DownloadInv, DownloadTypeOK, Places
  <2> QED BY <1>3, <2>1 DEF Respond, DownloadInv
<1>4. CASE ReadChunk
  <2>1. PICK same \in BOOLEAN :
          temporary' = [chunks |-> temporary.chunks + 1,
                        intact |-> temporary.intact /\ same]
    BY <1>4 DEF ReadChunk
  <2>2. temporary.chunks + 1 \in 0..Size + 1
    BY <1>4 DEF ReadChunk, DownloadInv, DownloadTypeOK
  <2>3. (temporary.intact /\ same) \in BOOLEAN
    OBVIOUS
  <2>4. temporary' \in [chunks: 0..Size + 1, intact: BOOLEAN]
    BY <2>1, <2>2, <2>3
  <2>5. DownloadTypeOK' /\ OneLookup'
    BY <1>4, <2>4, SameLookups DEF ReadChunk, DownloadInv, DownloadTypeOK
  <2> QED BY <1>4, <2>5 DEF ReadChunk, DownloadInv
<1>5. CASE Verify
  <2>1. CASE Pinned(temporary)
    <3>1. DownloadTypeOK' /\ OneLookup'
      BY <1>5, <2>1, SameLookups DEF Verify, DownloadInv, DownloadTypeOK, Places
    <3> QED BY <1>5, <2>1, <3>1 DEF Verify, DownloadInv, Pinned
  <2>2. CASE ~Pinned(temporary)
    <3>1. Leave("failed") /\ UNCHANGED <<lock, published, cancelled>>
      BY <1>5, <2>2 DEF Verify
    <3> QED BY <3>1, LeavingKeepsInv DEF DownloadInv, DownloadTypeOK, Results
  <2> QED BY <2>1, <2>2
<1> QED BY <1>1, <1>2, <1>3, <1>4, <1>5

LEMMA FetchKeepsInv ==
    ASSUME DownloadInv, Fetch PROVE DownloadInv'
<1>1. hop' \in 0..MaxHops /\ MaxHops \in Nat
  BY DEF Fetch
<1>2. DownloadTypeOK' /\ OneLookup'
  BY <1>1, SameLookups DEF Fetch, DownloadInv, DownloadTypeOK, Places, Results
<1> QED BY <1>2 DEF Fetch, DownloadInv

\* The thread gives the lock back itself, and there is no other in getaddrinfo.
LEMMA LookupKeepsInv ==
    ASSUME DownloadInv, LookupReturns \/ LookupDone PROVE DownloadInv'
<1>1. CASE LookupReturns
  <2>1. PICK l \in Looking :
          /\ lock' = FALSE
          /\ \/ /\ l.waited
                /\ \E found \in BOOLEAN :
                      lookups' = (lookups \ {l}) \cup
                          {[l EXCEPT !.at = "released", !.found = found]}
             \/ ~l.waited /\ lookups' = lookups \ {l}
          /\ UNCHANGED <<fetch, result, hop, temporary, published, late, cancelled>>
    BY <1>1 DEF LookupReturns
  <2>2. l \in Lookup /\ l \in lookups /\ \A k \in lookups : k.at = "looking" => k = l
    BY <2>1 DEF DownloadInv, DownloadTypeOK, OneLookup, Looking
  <2>3. \A found \in BOOLEAN :
          LET left == [l EXCEPT !.at = "released", !.found = found]
          IN  left \in Lookup /\ left.at = "released"
    BY <2>2 DEF Lookup
  <2>4. lookups' \subseteq Lookup /\ Looking' = {}
    BY <2>1, <2>2, <2>3 DEF DownloadInv, DownloadTypeOK, Looking
  <2>5. OneLookup'
    BY <2>1, <2>4 DEF OneLookup
  <2>6. DownloadTypeOK'
    BY <2>1, <2>4 DEF DownloadInv, DownloadTypeOK
  <2> QED BY <2>1, <2>5, <2>6 DEF DownloadInv
<1>2. CASE LookupDone
  <2>1. PICK l \in lookups :
          /\ l.at = "released"
          /\ lookups' = (lookups \ {l}) \cup {[l EXCEPT !.at = "done"]}
          /\ UNCHANGED <<fetch, result, hop, lock, temporary, published, late,
                         cancelled>>
    BY <1>2 DEF LookupDone
  <2>2. [l EXCEPT !.at = "done"] \in Lookup /\ [l EXCEPT !.at = "done"].at = "done"
    BY <2>1 DEF DownloadInv, DownloadTypeOK, Lookup
  <2>3. lookups' \subseteq Lookup /\ Looking' = Looking
    BY <2>1, <2>2 DEF DownloadInv, DownloadTypeOK, Looking
  <2>4. OneLookup'
    BY <2>1, <2>3 DEF DownloadInv, OneLookup
  <2>5. DownloadTypeOK'
    BY <2>1, <2>3 DEF DownloadInv, DownloadTypeOK
  <2> QED BY <2>1, <2>4, <2>5 DEF DownloadInv
<1> QED BY <1>1, <1>2

LEMMA DownloadKeepsInv ==
    ASSUME DownloadInv, Downloading \/ Served \/ LookupReturns \/ LookupDone
    PROVE  DownloadInv'
BY ResolveKeepsInv, ResolvedKeepsInv, RemainingKeepsInv, PublishKeepsInv,
   ConnectionKeepsInv, LookupKeepsInv DEF Downloading, Served
-----------------------------------------------------------------------------
(* The command *)

\* Variables of the command that a step leaves alone keep their invariant.
LEMMA ProcessFrame ==
    ASSUME ProcessInv, UNCHANGED processVars PROVE ProcessInv'
<1>1. UNCHANGED <<tool, runner, outcome, child, asked, heir, exit, says, output,
                  written, pipe, kept, truncated, reader, failed, queue,
                  stopped, allowance>>
  BY DEF processVars, childVars, streamVars
<1> QED BY <1>1 DEF ProcessInv, ProcessTypeOK, Accounted, CompleteOrFlagged,
             NoChildForgotten, AllDone, Writers, Watches, Piped

\* A runner that ends leaves no child behind that was not asked to end, and
\* returns the output of a command of wsl.py when all of it was read.
LEMMA EndKeepsInv ==
    ASSUME ProcessInv, NEW o \in Outcomes \ {"none"}, End(o),
           UNCHANGED <<tool, child, heir, exit, says, output, written, pipe,
                       kept, truncated, reader, failed>>,
           queue' \in 0..1, runner # "none",
           ~Watches(tool) /\ o = "returned" =>
               child = "ended" /\ AllDone /\ ~AnyFailed
    PROVE  ProcessInv'
<1>1. /\ runner' = "none" /\ outcome' = o /\ stopped' = TRUE
      /\ allowance' = "unset" /\ asked' = (asked \/ child = "running")
  BY DEF End
<1>2. asked' \in BOOLEAN
  BY <1>1
<1>3. ProcessTypeOK'
  BY <1>1, <1>2 DEF ProcessInv, ProcessTypeOK
<1>4. Accounted'
  BY <1>1 DEF Accounted
<1>5. CompleteOrFlagged' /\ (~Watches(tool) /\ outcome = "returned" => AllDone)'
  <2>1. CASE Watches(tool) \/ o # "returned"
    BY <1>1, <2>1 DEF CompleteOrFlagged, Watches
  <2>2. CASE ~Watches(tool) /\ o = "returned"
    <3>1. child = "ended" /\ AllDone /\ ~AnyFailed /\ ~stopped
      BY <2>2 DEF ProcessInv
    <3>2. \A s \in Piped(tool) : reader[s] = "done" /\ ~failed[s] /\ s \in Streams
      BY <3>1 DEF AllDone, AnyFailed, Piped, Streams
    <3>3. \A s \in Piped(tool) :
            /\ ~Writers /\ pipe[s] = 0
            /\ truncated[s] \/ kept[s] + pipe[s] = written[s]
      BY <2>2, <3>1, <3>2 DEF ProcessInv, Accounted
    <3>4. \A s \in Piped(tool) : kept[s] \in Nat /\ pipe[s] \in Nat
      BY <3>2 DEF ProcessInv, ProcessTypeOK
    <3>5. \A s \in Piped(tool) :
            /\ ~Writers /\ pipe[s] = 0 /\ ~failed[s]
            /\ truncated[s] \/ kept[s] = written[s]
      BY <3>2, <3>3, <3>4
    <3>6. AllDone'
      BY <3>1 DEF AllDone, Piped, Watches
    <3> QED BY <3>5, <3>6 DEF CompleteOrFlagged, Writers, Piped, Watches
  <2> QED BY <2>1, <2>2
<1>6. NoChildForgotten'
  BY <1>1 DEF NoChildForgotten
<1>7. (runner # "none" => outcome = "none" /\ ~stopped)'
  BY <1>1
<1>8. (runner = "pipes" => Watches(tool))'
  BY <1>1
<1> QED BY <1>3, <1>4, <1>5, <1>6, <1>7, <1>8 DEF ProcessInv

\* A step of the loop changes where the runner is, and the time given to pipes.
LEMMA LoopKeepsInv ==
    ASSUME ProcessInv, runner # "none",
           runner' \in {"watch", "turn"} \/ (runner' = "pipes" /\ Watches(tool)),
           allowance' \in {"unset", "running", "passed"}, queue' \in 0..1,
           UNCHANGED <<tool, outcome, child, asked, heir, exit, says, output,
                       written, pipe, kept, truncated, reader, failed, stopped>>
    PROVE  ProcessInv'
<1>1. ProcessTypeOK'
  BY DEF ProcessInv, ProcessTypeOK
<1>2. Accounted' /\ CompleteOrFlagged'
  BY DEF ProcessInv, Accounted, CompleteOrFlagged, Writers, Watches, Piped
<1>3. NoChildForgotten'
  BY DEF NoChildForgotten
<1>4. (runner # "none" => outcome = "none" /\ ~stopped)'
  BY DEF ProcessInv
<1>5. /\ (runner = "pipes" => Watches(tool))'
      /\ (~Watches(tool) /\ outcome = "returned" => AllDone)'
  BY DEF ProcessInv, Watches, AllDone, Piped
<1> QED BY <1>1, <1>2, <1>3, <1>4, <1>5 DEF ProcessInv

LEMMA RunnerKeepsInv ==
    ASSUME ProcessInv, Running PROVE ProcessInv'
<1> USE DEF EndUnchanged, streamVars, childVars
<1>0. /\ allowance \in {"unset", "running", "passed"} /\ queue \in 0..1
      /\ runner \in {"none", "watch", "turn", "pipes"}
  BY DEF ProcessInv, ProcessTypeOK
<1>1. CASE Checks
  <2>1. runner = "watch"
    BY <1>1 DEF Checks
  <2>2. CASE \E o \in {"cancelled", "timeout", "failed"} : End(o)
    BY <1>0, <1>1, <2>1, <2>2, EndKeepsInv DEF Checks, Outcomes
  <2>3. CASE /\ runner' = "turn"
             /\ UNCHANGED <<outcome, stopped, asked, allowance, late>>
    BY <1>0, <1>1, <2>1, <2>3, LoopKeepsInv DEF Checks
  <2> QED BY <1>1, <2>2, <2>3 DEF Checks
<1>2. CASE Waits
  BY <1>0, <1>2, LoopKeepsInv DEF Waits
<1>3. CASE PipesHeldOpen
  BY <1>0, <1>3, EndKeepsInv DEF PipesHeldOpen, Outcomes
<1>4. CASE ReturnsOutput
  <2>1. /\ runner = "turn" /\ child = "ended" /\ AllDone
        /\ UNCHANGED EndUnchanged
    BY <1>4 DEF ReturnsOutput
  <2>2. CASE ~AnyFailed /\ End("returned")
    BY <1>0, <2>1, <2>2, EndKeepsInv DEF Outcomes
  <2>3. CASE \E o \in {"cancelled", "failed"} : End(o)
    BY <1>0, <2>1, <2>3, EndKeepsInv DEF Outcomes
  <2> QED BY <1>4, <2>2, <2>3 DEF ReturnsOutput
<1>5. CASE Polls
  BY <1>0, <1>5, LoopKeepsInv DEF Polls
<1>6. CASE Turns
  <2>1. runner = "turn"
    BY <1>6 DEF Turns
  <2>2. CASE \E o \in {"cancelled", "timeout"} : End(o)
    BY <1>0, <1>6, <2>1, <2>2, EndKeepsInv DEF Turns, Outcomes
  <2>3. CASE /\ runner' = "watch"
             /\ UNCHANGED <<outcome, stopped, asked, allowance, late>>
    BY <1>0, <1>6, <2>1, <2>3, LoopKeepsInv DEF Turns
  <2> QED BY <1>6, <2>2, <2>3 DEF Turns
<1>7. CASE Report
  BY <1>0, <1>7, LoopKeepsInv DEF Report, ProcessInv
<1>8. CASE ReturnsCode
  BY <1>0, <1>8, EndKeepsInv DEF ReturnsCode, Outcomes, ProcessInv
<1> QED BY <1>1, <1>2, <1>3, <1>4, <1>5, <1>6, <1>7, <1>8 DEF Running
LEMMA PipeTimeKeepsInv ==
    ASSUME ProcessInv, PipeTime PROVE ProcessInv'
<1>1. runner # "none" /\ allowance' = "passed" /\ queue \in 0..1
  BY DEF PipeTime, ProcessInv, ProcessTypeOK
<1>2. UNCHANGED <<tool, runner, outcome, child, asked, heir, exit, says, output,
                  written, pipe, kept, truncated, reader, failed, queue, stopped>>
  BY DEF PipeTime, childVars, streamVars
<1>3. ProcessTypeOK'
  BY <1>1, <1>2 DEF ProcessInv, ProcessTypeOK
<1> QED BY <1>2, <1>3 DEF ProcessInv, Accounted, CompleteOrFlagged,
             NoChildForgotten, AllDone, Writers, Watches, Piped

\* A reader that still has something to do belongs to a runner that has not
\* returned any output.
LEMMA NotReturned ==
    ASSUME ProcessInv, NEW s \in Streams, reader[s] # "done"
    PROVE  Watches(tool) \/ outcome # "returned"
BY DEF ProcessInv, AllDone, Piped

\* What a reader does keeps the invariant if it keeps the account.
LEMMA StreamKeepsInv ==
    ASSUME ProcessInv, Watches(tool) \/ outcome # "returned", Accounted',
           UNCHANGED <<tool, runner, outcome, child, asked, heir, exit, says,
                       output, stopped, allowance>>,
           /\ written' \in [Streams -> Nat]
           /\ \A s \in Streams : written'[s] <= output[s]
           /\ pipe' \in [Streams -> 0..PipeRoom]
           /\ kept' \in [Streams -> 0..Capture]
           /\ truncated' \in [Streams -> BOOLEAN] /\ failed' \in [Streams -> BOOLEAN]
           /\ reader' \in [Streams -> {"reading", "putting", "closing", "done"}]
           /\ queue' \in 0..1
    PROVE  ProcessInv'
<1>1. ProcessTypeOK'
  BY DEF ProcessInv, ProcessTypeOK
<1>2. CompleteOrFlagged' /\ (~Watches(tool) /\ outcome = "returned" => AllDone)'
  BY DEF CompleteOrFlagged, Watches
<1>3. NoChildForgotten'
  BY DEF ProcessInv, NoChildForgotten
<1>4. /\ (runner # "none" => outcome = "none" /\ ~stopped)'
      /\ (runner = "pipes" => Watches(tool))'
  BY DEF ProcessInv, Watches
<1> QED BY <1>1, <1>2, <1>3, <1>4 DEF ProcessInv

LEMMA ReadKeepsInv ==
    ASSUME ProcessInv, NEW s \in Streams, Read(s),
           UNCHANGED <<tool, runner, outcome, childVars, stopped, allowance>>
    PROVE  ProcessInv'
<1>1. reader[s] = "reading" /\ ~stopped /\ pipe[s] > 0
  BY DEF Read
<1>2. UNCHANGED <<tool, runner, outcome, child, asked, heir, exit, says, output,
                  stopped, allowance, written, failed, queue>>
  BY DEF Read, childVars
<1>3. Watches(tool) \/ outcome # "returned"
  BY <1>1, NotReturned
<1>4. /\ pipe \in [Streams -> 0..PipeRoom] /\ kept \in [Streams -> 0..Capture]
      /\ written \in [Streams -> Nat]
      /\ truncated \in [Streams -> BOOLEAN] /\ failed \in [Streams -> BOOLEAN]
      /\ reader \in [Streams -> {"reading", "putting", "closing", "done"}]
      /\ queue \in 0..1 /\ \A t \in Streams : written[t] <= output[t]
  BY DEF ProcessInv, ProcessTypeOK
<1>5. pipe' = [pipe EXCEPT ![s] = pipe[s] - 1]
  BY DEF Read
<1>6. pipe' \in [Streams -> 0..PipeRoom]
  BY <1>1, <1>4, <1>5
<1>7. CASE Watches(tool)
  <2>1. reader' = [reader EXCEPT ![s] = "putting"] /\ UNCHANGED <<kept, truncated>>
    BY <1>7 DEF Read
  <2>2. Accounted'
    BY <1>2, <1>7 DEF Accounted, Watches
  <2>3. reader' \in [Streams -> {"reading", "putting", "closing", "done"}]
    BY <1>4, <2>1
  <2> QED BY <1>2, <1>3, <1>4, <1>6, <2>1, <2>2, <2>3, StreamKeepsInv
<1>8. CASE ~Watches(tool) /\ kept[s] < Capture
  <2>1. kept' = [kept EXCEPT ![s] = kept[s] + 1] /\ UNCHANGED <<truncated, reader>>
    BY <1>8 DEF Read
  <2>2. kept' \in [Streams -> 0..Capture]
    BY <1>4, <1>8, <2>1
  <2>3. \A t \in Streams : kept'[t] + pipe'[t] = kept[t] + pipe[t]
    BY <1>4, <1>5, <2>1
  <2>4. \A t \in Streams : t # s => pipe'[t] = pipe[t]
    BY <1>4, <1>5
  <2>5. Accounted'
    BY <1>1, <1>2, <1>8, <2>1, <2>3, <2>4 DEF ProcessInv, Accounted, Writers, Watches
  <2> QED BY <1>2, <1>3, <1>4, <1>6, <2>1, <2>2, <2>5, StreamKeepsInv
<1>9. CASE ~Watches(tool) /\ ~(kept[s] < Capture)
  <2>1. truncated' = [truncated EXCEPT ![s] = TRUE] /\ UNCHANGED <<kept, reader>>
    BY <1>9 DEF Read
  <2>2. truncated' \in [Streams -> BOOLEAN] /\ truncated'[s]
    BY <1>4, <2>1
  <2>3. \A t \in Streams : t # s => pipe'[t] = pipe[t] /\ truncated'[t] = truncated[t]
    BY <1>4, <1>5, <2>1
  <2>4. Accounted'
    BY <1>1, <1>2, <1>9, <2>1, <2>2, <2>3 DEF ProcessInv, Accounted, Writers, Watches
  <2> QED BY <1>2, <1>3, <1>4, <1>6, <2>1, <2>2, <2>4, StreamKeepsInv
<1> QED BY <1>7, <1>8, <1>9

LEMMA PutKeepsInv ==
    ASSUME ProcessInv, NEW s \in Streams, Put(s),
           UNCHANGED <<tool, runner, outcome, childVars, stopped, allowance>>
    PROVE  ProcessInv'
<1>1. reader[s] = "putting" /\ reader' = [reader EXCEPT ![s] = "reading"]
  BY DEF Put
<1>2. UNCHANGED <<tool, runner, outcome, child, asked, heir, exit, says, output,
                  stopped, allowance, written, pipe, kept, truncated, failed>>
  BY DEF Put, childVars
<1>3. Watches(tool) \/ outcome # "returned"
  BY <1>1, NotReturned
<1>4. /\ pipe \in [Streams -> 0..PipeRoom] /\ kept \in [Streams -> 0..Capture]
      /\ written \in [Streams -> Nat]
      /\ truncated \in [Streams -> BOOLEAN] /\ failed \in [Streams -> BOOLEAN]
      /\ reader \in [Streams -> {"reading", "putting", "closing", "done"}]
      /\ queue \in 0..1 /\ \A t \in Streams : written[t] <= output[t]
  BY DEF ProcessInv, ProcessTypeOK
<1>5. reader' \in [Streams -> {"reading", "putting", "closing", "done"}]
  BY <1>1, <1>4
<1>6. \A t \in Streams : reader'[t] \in {"closing", "done"} =>
        reader[t] \in {"closing", "done"}
  BY <1>1, <1>4
<1>7. Accounted'
  BY <1>2, <1>6 DEF ProcessInv, Accounted, Writers, Watches
<1>8. queue' \in 0..1
  BY <1>4 DEF Put
<1> QED BY <1>2, <1>3, <1>4, <1>5, <1>7, <1>8, StreamKeepsInv

\* A reader leaves the loop at the end of the stream, or failed, or told to stop.
LEMMA EndReadingKeepsInv ==
    ASSUME ProcessInv, NEW s \in Streams,
           EndReading(s) \/ ReadFails(s) \/ CloseStream(s),
           UNCHANGED <<tool, runner, outcome, childVars, stopped, allowance>>
    PROVE  ProcessInv'
<1>1. reader[s] \in {"reading", "closing"}
  BY DEF EndReading, ReadFails, CloseStream
<1>2. UNCHANGED <<tool, runner, outcome, child, asked, heir, exit, says, output,
                  stopped, allowance, written, pipe, kept, truncated, queue>>
  BY DEF EndReading, ReadFails, CloseStream, childVars
<1>3. Watches(tool) \/ outcome # "returned"
  BY <1>1, NotReturned
<1>4. /\ pipe \in [Streams -> 0..PipeRoom] /\ kept \in [Streams -> 0..Capture]
      /\ written \in [Streams -> Nat]
      /\ truncated \in [Streams -> BOOLEAN] /\ failed \in [Streams -> BOOLEAN]
      /\ reader \in [Streams -> {"reading", "putting", "closing", "done"}]
      /\ queue \in 0..1 /\ \A t \in Streams : written[t] <= output[t]
  BY DEF ProcessInv, ProcessTypeOK
<1>5. /\ reader' \in [Streams -> {"reading", "putting", "closing", "done"}]
      /\ \A t \in Streams : t # s => reader'[t] = reader[t]
  BY <1>4 DEF EndReading, ReadFails, CloseStream
<1>6. /\ failed' \in [Streams -> BOOLEAN]
      /\ \A t \in Streams : t # s => failed'[t] = failed[t]
  <2>1. CASE ReadFails(s)
    <3>1. CASE Watches(tool)
      <4>1. failed' = [failed EXCEPT ![s] = FALSE]
        BY <2>1, <3>1 DEF ReadFails
      <4> QED BY <1>4, <4>1
    <3>2. CASE ~Watches(tool)
      <4>1. failed' = [failed EXCEPT ![s] = TRUE]
        BY <2>1, <3>2 DEF ReadFails
      <4> QED BY <1>4, <4>1
    <3> QED BY <3>1, <3>2
  <2>2. CASE EndReading(s) \/ CloseStream(s)
    BY <1>4, <2>2 DEF EndReading, CloseStream
  <2> QED BY <2>1, <2>2
<1>7. ~Watches(tool) /\ ~stopped /\ ~failed'[s] => ~failed[s] /\ pipe[s] = 0 /\ ~Writers
  <2> SUFFICES ASSUME ~Watches(tool), ~stopped, ~failed'[s]
               PROVE  ~failed[s] /\ pipe[s] = 0 /\ ~Writers
    OBVIOUS
  <2>1. CASE EndReading(s)
    BY <1>4, <2>1 DEF EndReading
  <2>2. CASE ReadFails(s)
    BY <1>4, <2>2 DEF ReadFails
  <2>3. CASE CloseStream(s)
    <3>1. ~failed[s] /\ reader[s] = "closing"
      BY <1>4, <2>3 DEF CloseStream
    <3> QED BY <3>1 DEF ProcessInv, Accounted
  <2> QED BY <2>1, <2>2, <2>3
<1>8. Accounted'
  BY <1>2, <1>5, <1>6, <1>7 DEF ProcessInv, Accounted, Writers, Watches
<1> QED BY <1>2, <1>3, <1>4, <1>5, <1>6, <1>8, StreamKeepsInv

LEMMA ReadingKeepsInv ==
    ASSUME ProcessInv, Reading \/ ReadError PROVE ProcessInv'
<1>1. UNCHANGED <<tool, runner, outcome, childVars, stopped, allowance>>
  BY DEF Reading, ReadError
<1>2. PICK s \in Streams :
        Read(s) \/ Put(s) \/ EndReading(s) \/ ReadFails(s) \/ CloseStream(s)
  BY DEF Reading, ReadError
<1> QED BY <1>1, <1>2, ReadKeepsInv, PutKeepsInv, EndReadingKeepsInv

\* Only a writer that is not cut off writes, and only while no reader that
\* answers for its output is done.
LEMMA WriteKeepsInv ==
    ASSUME ProcessInv, NEW s \in Streams, Write(s),
           UNCHANGED <<tool, runner, outcome, stopped, allowance>>
    PROVE  ProcessInv'
<1>1. /\ Writers /\ written[s] < output[s]
      /\ pipe[s] < PipeRoom \/ reader[s] = "done"
      /\ written' = [written EXCEPT ![s] = written[s] + 1]
      /\ pipe' = IF reader[s] = "done" THEN pipe ELSE [pipe EXCEPT ![s] = pipe[s] + 1]
  BY DEF Write
<1>2. UNCHANGED <<tool, runner, outcome, child, asked, heir, exit, says, output,
                  stopped, allowance, kept, truncated, reader, failed, queue>>
  BY DEF Write, childVars
<1>3. Watches(tool) \/ outcome # "returned"
  BY <1>1 DEF ProcessInv, CompleteOrFlagged, Piped, Streams
<1>4. /\ pipe \in [Streams -> 0..PipeRoom] /\ kept \in [Streams -> 0..Capture]
      /\ written \in [Streams -> Nat] /\ output \in [Streams -> Nat]
      /\ truncated \in [Streams -> BOOLEAN] /\ failed \in [Streams -> BOOLEAN]
      /\ reader \in [Streams -> {"reading", "putting", "closing", "done"}]
      /\ queue \in 0..1 /\ \A t \in Streams : written[t] <= output[t]
  BY DEF ProcessInv, ProcessTypeOK
<1>5. written' \in [Streams -> Nat] /\ \A t \in Streams : written'[t] <= output[t]
  BY <1>1, <1>4
<1>6. pipe' \in [Streams -> 0..PipeRoom]
  BY <1>1, <1>4
<1>7. \A t \in Streams : t # s => written'[t] = written[t] /\ pipe'[t] = pipe[t]
  BY <1>1, <1>4
<1>8. Accounted'
  <2> SUFFICES ASSUME ~Watches(tool), ~stopped, NEW t \in Streams, ~failed[t]
               PROVE  /\ truncated[t] \/ kept[t] + pipe'[t] = written'[t]
                      /\ reader[t] \in {"closing", "done"} =>
                           pipe'[t] = 0 /\ ~Writers
    BY <1>2 DEF Accounted, Writers, Watches
  <2>1. /\ truncated[t] \/ kept[t] + pipe[t] = written[t]
        /\ reader[t] \notin {"closing", "done"}
    BY <1>1 DEF ProcessInv, Accounted
  <2>2. CASE t = s
    BY <1>1, <1>4, <2>1, <2>2
  <2>3. CASE t # s
    BY <1>7, <2>1, <2>3
  <2> QED BY <2>2, <2>3
<1> QED BY <1>2, <1>3, <1>4, <1>5, <1>6, <1>8, StreamKeepsInv

\* The ends of the child and of its descendant take writers away.
LEMMA ChildKeepsInv ==
    ASSUME ProcessInv, Child \/ Heir PROVE ProcessInv'
<1>1. UNCHANGED <<tool, runner, outcome, stopped, allowance>>
  BY DEF Child, Heir
<1>2. CASE \E s \in Streams : Write(s)
  BY <1>1, <1>2, WriteKeepsInv
<1>3. CASE ChildEnds \/ HeirEnds
  <2>1. UNCHANGED <<asked, says, output, written, pipe, kept, truncated, reader,
                    failed, queue>>
    BY <1>3 DEF ChildEnds, HeirEnds, streamVars
  <2>2. /\ child' \in {child, "ended"} /\ heir' \in {heir, FALSE}
        /\ child' # "running" \/ child' = child
        /\ exit' \in {"zero", "3010", "other"}
        /\ Writers' => Writers
    BY <1>3 DEF ChildEnds, HeirEnds, Exits, Writers, ProcessInv, ProcessTypeOK
  <2>3. heir' \in BOOLEAN /\ child' \in {"none", "running", "ended"}
    BY <2>2 DEF ProcessInv, ProcessTypeOK
  <2>4. ProcessTypeOK'
    BY <1>1, <2>1, <2>2, <2>3 DEF ProcessInv, ProcessTypeOK
  <2>5. Accounted' /\ CompleteOrFlagged'
    BY <1>1, <2>1, <2>2 DEF ProcessInv, Accounted, CompleteOrFlagged, Piped, Watches
  <2>6. NoChildForgotten'
    BY <1>1, <2>1, <2>2 DEF ProcessInv, NoChildForgotten
  <2>7. (~Watches(tool) /\ outcome = "returned" => AllDone)'
    BY <1>1, <2>1 DEF ProcessInv, AllDone, Piped, Watches
  <2> QED BY <1>1, <2>4, <2>5, <2>6, <2>7 DEF ProcessInv, Watches
<1> QED BY <1>2, <1>3 DEF Child, Heir

\* A new command starts with empty pipes and nothing captured.
LEMMA SpawnKeepsInv ==
    ASSUME ProcessInv, NEW t \in Tools, Spawn(t) PROVE ProcessInv'
<1>1. /\ runner = "none" /\ tool' = t
      /\ allowance' = "unset" /\ stopped' = FALSE /\ queue' = 0
      /\ asked' = FALSE /\ exit' = "zero"
  BY DEF Spawn
<1>2. /\ written' \in [Streams -> Nat] /\ pipe' \in [Streams -> 0..PipeRoom]
      /\ kept' \in [Streams -> 0..Capture]
      /\ truncated' \in [Streams -> BOOLEAN] /\ failed' \in [Streams -> BOOLEAN]
      /\ \A s \in Streams : written'[s] = 0 /\ pipe'[s] = 0 /\ kept'[s] = 0
  BY DEF Spawn, Each
<1>3. CASE /\ runner' = "watch" /\ outcome' = "none"
           /\ child' = "running" /\ heir' \in BOOLEAN
           /\ says' \in (IF t = "enable" THEN BOOLEAN ELSE {FALSE})
           /\ output' \in {o \in Outputs : \A s \in Streams \ Piped(t) : o[s] = 0}
           /\ reader' = [s \in Streams |-> IF s \in Piped(t) THEN "reading" ELSE "done"]
  <2>1. output' \in [Streams -> Nat]
    BY <1>3, ProcessAssumption DEF ProcessAssumption, Streams
  <2>2. reader' \in [Streams -> {"reading", "putting", "closing", "done"}]
    BY <1>3
  <2>3. says' \in BOOLEAN
    BY <1>3
  <2>4. \A s \in Streams : written'[s] <= output'[s]
    BY <1>1, <1>2, <2>1
  <2>5. ProcessTypeOK'
    <3>1. asked' \in BOOLEAN /\ heir' \in BOOLEAN
      BY <1>1, <1>3
    <3>2. says' \in BOOLEAN /\ stopped' \in BOOLEAN
      BY <1>1, <2>3
    <3>3. {asked, heir, says, stopped}' \subseteq BOOLEAN
      BY <3>1, <3>2
    <3>4. queue' \in 0..1
      BY <1>1
    <3>5. (\A s \in Streams : written[s] <= output[s])'
      BY <2>4
    <3> QED BY <1>1, <1>2, <1>3, <2>1, <2>2, <3>3, <3>4, <3>5
         DEF ProcessTypeOK, Outcomes
  <2>6. Accounted'
    <3>1. CASE Watches(t)
      BY <1>1, <3>1 DEF Accounted, Watches
    <3>2. CASE ~Watches(t)
      <4>1. \A s \in Streams : reader'[s] = "reading"
        BY <1>3, <3>2 DEF Piped, Streams
      <4> QED BY <1>1, <1>2, <4>1 DEF Accounted
    <3> QED BY <3>1, <3>2
  <2>7. CompleteOrFlagged' /\ NoChildForgotten'
    BY <1>3 DEF CompleteOrFlagged, NoChildForgotten
  <2> QED BY <1>1, <1>3, <2>5, <2>6, <2>7 DEF ProcessInv
<1>4. CASE /\ runner' = "none" /\ outcome' = "failed"
           /\ child' = "none" /\ heir' = FALSE /\ says' = FALSE
           /\ output' = Each(0) /\ reader' = Each("done")
  <2>0. /\ runner' = "none" /\ outcome' = "failed"
        /\ child' = "none" /\ heir' = FALSE /\ says' = FALSE
    BY <1>4
  <2>1. /\ output' \in [Streams -> Nat]
        /\ reader' \in [Streams -> {"reading", "putting", "closing", "done"}]
        /\ \A s \in Streams : written'[s] <= output'[s]
    BY <1>2, <1>4 DEF Each
  <2>2. ProcessTypeOK' /\ Accounted'
    <3>1. ProcessTypeOK'
      <4>1. asked' \in BOOLEAN /\ heir' \in BOOLEAN
        BY <1>1, <2>0
      <4>2. says' \in BOOLEAN /\ stopped' \in BOOLEAN
        BY <1>1, <2>0
      <4>3. {asked, heir, says, stopped}' \subseteq BOOLEAN
        BY <4>1, <4>2
      <4>4. queue' \in 0..1
        BY <1>1
      <4>5. (\A s \in Streams : written[s] <= output[s])'
        BY <2>1
      <4> QED BY <1>1, <1>2, <2>0, <2>1, <4>3, <4>4, <4>5
           DEF ProcessTypeOK, Outcomes
    <3>2. Accounted'
      BY <1>2, <2>0 DEF Accounted, Writers
    <3> QED BY <3>1, <3>2
  <2>3. CompleteOrFlagged' /\ NoChildForgotten'
    BY <2>0 DEF CompleteOrFlagged, NoChildForgotten
  <2> QED BY <1>1, <2>0, <2>2, <2>3 DEF ProcessInv
<1> QED BY <1>3, <1>4 DEF Spawn

LEMMA NoCommandInv ==
    ASSUME NoCommand PROVE ProcessInv
<1>0. /\ tool = "none" /\ runner = "none" /\ outcome = "none"
      /\ child = "none" /\ asked = FALSE /\ heir = FALSE
      /\ exit = "zero" /\ says = FALSE /\ stopped = FALSE /\ queue = 0
      /\ allowance = "unset"
  BY DEF NoCommand
<1>1. /\ output \in [Streams -> Nat] /\ written \in [Streams -> Nat]
      /\ pipe \in [Streams -> 0..PipeRoom] /\ kept \in [Streams -> 0..Capture]
      /\ truncated \in [Streams -> BOOLEAN] /\ failed \in [Streams -> BOOLEAN]
      /\ reader \in [Streams -> {"reading", "putting", "closing", "done"}]
      /\ \A s \in Streams :
           /\ written[s] = 0 /\ output[s] = 0 /\ pipe[s] = 0 /\ kept[s] = 0
  BY DEF NoCommand, Each
<1>2. ProcessTypeOK
  <2>1. asked \in BOOLEAN /\ heir \in BOOLEAN
    BY <1>0, <1>1
  <2>2. says \in BOOLEAN /\ stopped \in BOOLEAN
    BY <1>0, <1>1
  <2>3. {asked, heir, says, stopped} \subseteq BOOLEAN
    BY <2>1, <2>2
  <2>4. queue \in 0..1
    BY <1>0, <1>1
  <2>5. (\A s \in Streams : written[s] <= output[s])
    BY <1>0, <1>1
  <2> QED BY <1>0, <1>1, <2>3, <2>4, <2>5 DEF ProcessTypeOK, Outcomes
<1>3. Accounted
  BY <1>0, <1>1 DEF Accounted, Writers
<1> QED BY <1>0, <1>2, <1>3 DEF ProcessInv, CompleteOrFlagged, NoChildForgotten

LEMMA ForgetKeepsInv ==
    ASSUME runner = "none", Forget PROVE ProcessInv'
<1>0. /\ tool' = "none" /\ runner' = "none" /\ outcome' = "none"
      /\ child' = "none" /\ asked' = FALSE /\ heir' = FALSE
      /\ exit' = "zero" /\ says' = FALSE /\ stopped' = FALSE /\ queue' = 0
      /\ allowance' = "unset"
  BY DEF Forget
<1>1. /\ output' \in [Streams -> Nat] /\ written' \in [Streams -> Nat]
      /\ pipe' \in [Streams -> 0..PipeRoom] /\ kept' \in [Streams -> 0..Capture]
      /\ truncated' \in [Streams -> BOOLEAN] /\ failed' \in [Streams -> BOOLEAN]
      /\ reader' \in [Streams -> {"reading", "putting", "closing", "done"}]
      /\ \A s \in Streams :
           /\ written'[s] = 0 /\ output'[s] = 0 /\ pipe'[s] = 0 /\ kept'[s] = 0
  BY DEF Forget, Each
<1>2. ProcessTypeOK'
  <2>1. asked' \in BOOLEAN /\ heir' \in BOOLEAN
    BY <1>0, <1>1
  <2>2. says' \in BOOLEAN /\ stopped' \in BOOLEAN
    BY <1>0, <1>1
  <2>3. {asked, heir, says, stopped}' \subseteq BOOLEAN
    BY <2>1, <2>2
  <2>4. queue' \in 0..1
    BY <1>0, <1>1
  <2>5. (\A s \in Streams : written[s] <= output[s])'
    BY <1>0, <1>1
  <2> QED BY <1>0, <1>1, <2>3, <2>4, <2>5 DEF ProcessTypeOK, Outcomes
<1>3. Accounted'
  BY <1>0, <1>1 DEF Accounted, Writers
<1> QED BY <1>0, <1>2, <1>3 DEF ProcessInv, CompleteOrFlagged, NoChildForgotten

-----------------------------------------------------------------------------
(* The operation *)

\* The download and the command of a step that touches neither.
LEMMA StillKeepsInv ==
    ASSUME DownloadInv, ProcessInv, Still PROVE DownloadInv' /\ ProcessInv'
<1>1. UNCHANGED downloadVars /\ UNCHANGED processVars /\ UNCHANGED <<late, cancelled>>
  BY DEF Still
<1>2. late' \in BOOLEAN /\ cancelled' \in BOOLEAN
  BY <1>1 DEF DownloadInv, DownloadTypeOK
<1> QED BY <1>1, <1>2, DownloadFrame, ProcessFrame

\* The types of the operation's own variables, and OperationInv.
ToolInv ==
    /\ step \in Steps /\ code \in Codes
    /\ operations \in Seq(Kinds) /\ fetched \in BOOLEAN
    /\ OperationInv

LEMMA Parts == IInv <=> DownloadInv /\ ProcessInv /\ ToolInv
BY DEF IInv, TypeOK, ToolInv, DownloadInv, ProcessInv

\* An operation answers once its command is over.
LEMMA AnswerKeepsInv ==
    ASSUME ToolInv, NEW c \in Codes, Answer(c), runner = "none",
           UNCHANGED <<operations, fetched, runner>>
    PROVE  ToolInv'
BY DEF ToolInv, OperationInv, Answer, Steps, kind

\* A command is started: the operation waits for it.
LEMMA RunKeepsInv ==
    ASSUME DownloadInv, ProcessInv, ToolInv, NEW t \in Tools, Spawn(t),
           step # "idle", step' \in {"run", "status"},
           step' = "run" /\ kind = "enable" => t = "enable",
           UNCHANGED <<downloadVars, cancelled, code, operations, fetched>>
    PROVE  DownloadInv' /\ ProcessInv' /\ ToolInv'
<1>1. /\ tool' = t /\ late' = FALSE
      /\ runner' = "none" => outcome' # "none"
  BY DEF Spawn
<1>2. cancelled' \in BOOLEAN
  BY DEF DownloadInv, DownloadTypeOK
<1>3. DownloadInv'
  BY <1>1, <1>2, DownloadFrame
<1>4. ProcessInv'
  BY SpawnKeepsInv
<1>5. kind' = kind
  BY DEF kind
<1>6. ToolInv'
  BY <1>1, <1>5 DEF ToolInv, OperationInv, Steps
<1> QED BY <1>3, <1>4, <1>6

\* The steps of the components and of time leave the operation where it is.
LEMMA ComponentKeepsTool ==
    ASSUME ToolInv, UNCHANGED toolVars, tool' = tool,
           \/ UNCHANGED <<runner, outcome>>
           \/ runner # "none" /\ (runner' # "none" \/ outcome' # "none")
    PROVE  ToolInv'
<1>1. UNCHANGED <<step, code, operations, fetched>> /\ kind' = kind
  BY DEF toolVars, kind
<1> QED BY <1>1 DEF ToolInv, OperationInv

LEMMA RunnerSteps ==
    ASSUME DownloadInv, ProcessInv, Running
    PROVE  /\ runner # "none" /\ tool' = tool
           /\ runner' # "none" \/ outcome' # "none"
           /\ late' \in BOOLEAN /\ cancelled' \in BOOLEAN
<1>1. late \in BOOLEAN /\ cancelled \in BOOLEAN
  BY DEF DownloadInv, DownloadTypeOK
<1>2. CASE Checks
  BY <1>1, <1>2 DEF Checks, End, EndUnchanged
<1>3. CASE Waits
  BY <1>1, <1>3 DEF Waits
<1>4. CASE PipesHeldOpen
  BY <1>1, <1>4 DEF PipesHeldOpen, End, EndUnchanged
<1>5. CASE ReturnsOutput
  BY <1>1, <1>5 DEF ReturnsOutput, End, EndUnchanged
<1>6. CASE Polls
  BY <1>1, <1>6 DEF Polls
<1>7. CASE Turns
  BY <1>1, <1>7 DEF Turns, End, EndUnchanged
<1>8. CASE Report
  BY <1>1, <1>8 DEF Report
<1>9. CASE ReturnsCode
  BY <1>1, <1>9 DEF ReturnsCode, End
<1> QED BY <1>2, <1>3, <1>4, <1>5, <1>6, <1>7, <1>8, <1>9 DEF Running

\* An operation that answers, or goes on with something that is no command.
LEMMA AnsweringKeepsInv ==
    ASSUME DownloadInv, ProcessInv, ToolInv,
           NoticesCancel \/ NotCancelled \/ NoDestination \/ DownloadAnswers
             \/ InstallerInvalid \/ InstallerFound \/ CommandAnswers
             \/ EnableAnswers \/ StatusAnswers \/ InspectModel
    PROVE  DownloadInv' /\ ProcessInv' /\ ToolInv'
<1>1. Still
  BY DEF NoticesCancel, NotCancelled, NoDestination, DownloadAnswers,
         InstallerInvalid, InstallerFound, CommandAnswers, EnableAnswers,
         StatusAnswers, InspectModel
<1>2. DownloadInv' /\ ProcessInv'
  BY <1>1, StillKeepsInv
<1>3. UNCHANGED <<runner, outcome, tool>>
  BY <1>1 DEF Still, processVars
<1>4. ToolInv'
  <2>1. CASE NoticesCancel
    BY <1>3, <2>1, AnswerKeepsInv DEF NoticesCancel, Codes, ToolInv, OperationInv
  <2>2. CASE NoDestination
    BY <1>3, <2>2, AnswerKeepsInv DEF NoDestination, Codes, ToolInv, OperationInv
  <2>3. CASE DownloadAnswers
    <3>1. step = "fetch" /\ runner = "none" /\ UNCHANGED operations
      BY <2>3 DEF DownloadAnswers, ToolInv, OperationInv
    <3>2. kind' = kind /\ kind \in Kinds
      BY <3>1 DEF kind, ToolInv, OperationInv
    <3>3. CASE result = "published"
      <4>1. step' = "ready" /\ code' = code /\ fetched' = TRUE
        BY <2>3, <3>3 DEF DownloadAnswers
      <4> QED BY <1>3, <3>1, <3>2, <4>1 DEF ToolInv, OperationInv, Steps
    <3>4. CASE result # "published"
      <4>1. step' = "idle" /\ code' \in Codes /\ fetched' = FALSE
        BY <2>3, <3>4 DEF DownloadAnswers, Answer, Codes
      <4> QED BY <1>3, <3>1, <3>2, <4>1 DEF ToolInv, OperationInv, Steps
    <3> QED BY <3>3, <3>4
  <2>4. CASE InstallerInvalid
    BY <1>3, <2>4, AnswerKeepsInv DEF InstallerInvalid, Codes, ToolInv, OperationInv
  <2>5. CASE CommandAnswers
    <3>1. /\ step = "run" /\ runner = "none" /\ kind \in {"install", "pull"}
          /\ outcome \in Outcomes \ {"none"} /\ UNCHANGED <<operations, fetched>>
      BY <2>5 DEF CommandAnswers, ToolInv, OperationInv, Kinds, ProcessInv, ProcessTypeOK
    <3>2. /\ outcome \in {"timeout", "failed"} => Failures[kind][outcome] \in Codes
          /\ Failures[kind].failed \in Codes
      BY <3>1 DEF Failures, Codes
    <3>3. (\E c \in Codes : Answer(c)) \/ (step' = "inspect" /\ UNCHANGED code)
      <4>1. "CANCELLED" \in Codes
        BY DEF Codes
      <4> QED BY <2>5, <3>1, <3>2, <4>1 DEF CommandAnswers, Outcomes
    <3>4. CASE \E c \in Codes : Answer(c)
      BY <1>3, <3>1, <3>4, AnswerKeepsInv
    <3>5. CASE step' = "inspect" /\ UNCHANGED code
      BY <1>3, <3>1, <3>5 DEF ToolInv, OperationInv, Steps, kind
    <3> QED BY <3>3, <3>4, <3>5
  <2>6. CASE EnableAnswers
    <3>1. step = "run" /\ runner = "none" /\ UNCHANGED <<operations, fetched>>
      BY <2>6 DEF EnableAnswers
    <3>2. (\E c \in Codes : Answer(c)) \/ (step' = "inspect" /\ UNCHANGED code)
      <4>1. {"CANCELLED", "WSL_ENABLE_FAILED", "RESTART_REQUIRED"} \subseteq Codes
        BY DEF Codes
      <4> QED BY <2>6, <4>1 DEF EnableAnswers
    <3>3. CASE \E c \in Codes : Answer(c)
      BY <1>3, <3>1, <3>3, AnswerKeepsInv
    <3>4. CASE step' = "inspect" /\ UNCHANGED code
      BY <1>3, <3>1, <3>4 DEF ToolInv, OperationInv, Steps, kind
    <3> QED BY <3>2, <3>3, <3>4
  <2>7. CASE StatusAnswers
    <3>1. \E c \in Codes : Answer(c)
      <4>1. {"CANCELLED", "WSL_UNAVAILABLE", "WSL_READY", "WSL2_REQUIRED"} \subseteq Codes
        BY DEF Codes
      <4> QED BY <2>7, <4>1 DEF StatusAnswers
    <3>2. runner = "none" /\ UNCHANGED <<operations, fetched>>
      BY <2>7 DEF StatusAnswers
    <3> QED BY <1>3, <3>1, <3>2, AnswerKeepsInv
  <2>8. CASE InspectModel
    BY <1>3, <2>8, AnswerKeepsInv DEF InspectModel, Codes, ToolInv, OperationInv
  <2>9. CASE NotCancelled
    <3>1. /\ step \in {"begin", "ready"} /\ UNCHANGED <<code, operations, fetched>>
          /\ step' = IF step = "ready" THEN "installer"
                     ELSE IF kind = "install" THEN "destination" ELSE "start"
      BY <2>9 DEF NotCancelled
    <3>2. kind' = kind /\ kind \in Kinds /\ runner = "none"
      BY <3>1 DEF kind, ToolInv, OperationInv
    <3> QED BY <1>3, <3>1, <3>2 DEF ToolInv, OperationInv, Steps
  <2>10. CASE InstallerFound
    <3>1. /\ step = "installer" /\ step' = "start"
          /\ UNCHANGED <<code, operations, fetched>>
      BY <2>10 DEF InstallerFound
    <3>2. kind' = kind /\ kind = "install" /\ fetched /\ runner = "none"
      BY <3>1 DEF kind, ToolInv, OperationInv
    <3> QED BY <1>3, <3>1, <3>2 DEF ToolInv, OperationInv, Steps, Kinds
  <2> QED BY <2>1, <2>2, <2>3, <2>4, <2>5, <2>6, <2>7, <2>8, <2>9, <2>10
<1> QED BY <1>2, <1>4

LEMMA OperatingKeepsInv ==
    ASSUME DownloadInv, ProcessInv, ToolInv, Operating
    PROVE  DownloadInv' /\ ProcessInv' /\ ToolInv'
<1>1. CASE BeginInstall
  <2>1. UNCHANGED <<operations, fetched, code>> /\ step = "destination" /\ step' = "fetch"
    BY <1>1 DEF BeginInstall
  <2>2. DownloadInv'
    BY <1>1, FetchKeepsInv DEF BeginInstall
  <2>3. ProcessInv' /\ UNCHANGED <<runner, outcome, tool>>
    BY <1>1, ProcessFrame DEF BeginInstall, processVars
  <2>4. kind = "install" /\ kind' = kind
    BY <2>1 DEF kind, ToolInv, OperationInv
  <2>5. ToolInv'
    BY <2>1, <2>3, <2>4 DEF ToolInv, OperationInv, Steps, Kinds
  <2> QED BY <2>2, <2>3, <2>5
<1>2. CASE RunInstaller
  <2>1. /\ Spawn("installer") /\ step = "start" /\ kind = "install" /\ step' = "run"
        /\ UNCHANGED <<downloadVars, cancelled, code, operations, fetched>>
    BY <1>2 DEF RunInstaller, Run
  <2> QED BY <2>1, RunKeepsInv DEF Tools
<1>3. CASE RunCommand
  <2>1. /\ Spawn(kind) /\ step = "start" /\ step' = "run" /\ kind # "install"
        /\ UNCHANGED <<downloadVars, cancelled, code, operations, fetched>>
    BY <1>3 DEF RunCommand, Run
  <2>2. kind \in Tools
    BY <2>1 DEF ToolInv, OperationInv, Kinds, Tools
  <2> QED BY <2>1, <2>2, RunKeepsInv
<1>4. CASE InspectWsl
  <2>1. /\ Spawn("status") /\ step = "inspect" /\ step' = "status"
        /\ UNCHANGED <<downloadVars, cancelled, code, operations, fetched>>
    BY <1>4 DEF InspectWsl
  <2> QED BY <2>1, RunKeepsInv DEF Tools
<1> QED BY <1>1, <1>2, <1>3, <1>4, AnsweringKeepsInv DEF Operating

LEMMA RequestKeepsInv ==
    ASSUME DownloadInv, ProcessInv, ToolInv, NEW k \in Kinds, Request(k)
    PROVE  DownloadInv' /\ ProcessInv' /\ ToolInv'
<1>1. /\ step = "idle" /\ step' = "begin" /\ code' = "NONE" /\ fetched' = FALSE
      /\ cancelled' = FALSE /\ Forget /\ UNCHANGED downloadVars /\ late' = late
      /\ operations' = Append(operations, k)
  BY DEF Request
<1>2. runner = "none" /\ late \in BOOLEAN /\ operations \in Seq(Kinds)
  BY <1>1 DEF ToolInv, OperationInv, DownloadInv, DownloadTypeOK
<1>3. DownloadInv'
  BY <1>1, <1>2, DownloadFrame
<1>4. ProcessInv'
  BY <1>1, <1>2, ForgetKeepsInv
<1>5. runner' = "none"
  BY <1>1, <1>2 DEF Forget
<1>6. operations' \in Seq(Kinds) /\ kind' \in Kinds
  BY <1>1, <1>2 DEF kind
<1>7. ToolInv'
  BY <1>1, <1>5, <1>6 DEF ToolInv, OperationInv, Steps, Codes
<1> QED BY <1>3, <1>4, <1>7

-----------------------------------------------------------------------------
(* The invariant *)

LEMMA InitInv == Init => DownloadInv /\ ProcessInv /\ ToolInv
<1> SUFFICES ASSUME Init PROVE DownloadInv /\ ProcessInv /\ ToolInv
  OBVIOUS
<1>1. DownloadInv
  <2>1. NoFile \in [chunks: 0..Size + 1, intact: BOOLEAN] /\ 0 \in 0..MaxHops
    BY DEF NoFile
  <2>2. DownloadTypeOK
    BY <2>1 DEF Init, DownloadInit, DownloadTypeOK, Places, Results
  <2>3. OneLookup
    BY DEF Init, DownloadInit, OneLookup, Looking
  <2> QED BY <2>2, <2>3 DEF Init, DownloadInit, DownloadInv
<1>2. ProcessInv
  BY NoCommandInv DEF Init
<1>3. ToolInv
  <2>1. runner = "none" /\ step = "idle" /\ code = "NONE" /\ operations = <<>>
        /\ fetched = FALSE
    BY DEF Init, NoCommand
  <2>2. operations \in Seq(Kinds)
    BY <2>1
  <2>3. fetched \in BOOLEAN
    BY <2>1
  <2> QED BY <2>1, <2>2, <2>3 DEF ToolInv, OperationInv, Steps, Codes
<1> QED BY <1>1, <1>2, <1>3

LEMMA StepInv ==
    ASSUME DownloadInv, ProcessInv, ToolInv, [Next]_vars
    PROVE  DownloadInv' /\ ProcessInv' /\ ToolInv'
<1>0. late \in BOOLEAN /\ cancelled \in BOOLEAN
  BY DEF DownloadInv, DownloadTypeOK
<1>1. CASE \E k \in Kinds : Request(k)
  BY <1>1, RequestKeepsInv
<1>2. CASE Operating
  BY <1>2, OperatingKeepsInv
<1>3. CASE Cancel \/ Deadline
  <2>1. /\ UNCHANGED downloadVars /\ UNCHANGED processVars /\ UNCHANGED toolVars
        /\ late' \in BOOLEAN /\ cancelled' \in BOOLEAN
    BY <1>0, <1>3 DEF Cancel, Deadline
  <2>2. DownloadInv' /\ ProcessInv'
    BY <2>1, DownloadFrame, ProcessFrame
  <2>3. ToolInv'
    BY <2>1, ComponentKeepsTool DEF processVars
  <2> QED BY <2>2, <2>3
<1>4. CASE Quarantine
  <2>1. UNCHANGED processVars /\ UNCHANGED toolVars
    BY <1>4 DEF Quarantine
  <2>2. DownloadInv'
    BY <1>4 DEF Quarantine, DownloadInv, DownloadTypeOK, OneLookup, Looking, Pinned
  <2>3. ProcessInv' /\ ToolInv'
    BY <2>1, ProcessFrame, ComponentKeepsTool DEF processVars
  <2> QED BY <2>2, <2>3
<1>5. CASE FetchStep \/ ServerStep \/ LookupStep \/ DoneStep
  <2>1. /\ Downloading \/ Served \/ LookupReturns \/ LookupDone
        /\ UNCHANGED processVars /\ UNCHANGED toolVars
    BY <1>5 DEF FetchStep, ServerStep, LookupStep, DoneStep
  <2>2. DownloadInv'
    BY <2>1, DownloadKeepsInv
  <2>3. ProcessInv' /\ ToolInv'
    BY <2>1, ProcessFrame, ComponentKeepsTool DEF processVars
  <2> QED BY <2>2, <2>3
<1>6. CASE RunnerStep
  <2>1. Running /\ UNCHANGED downloadVars /\ UNCHANGED toolVars
    BY <1>6 DEF RunnerStep
  <2>2. /\ runner # "none" /\ tool' = tool /\ (runner' # "none" \/ outcome' # "none")
        /\ late' \in BOOLEAN /\ cancelled' \in BOOLEAN
    BY <2>1, RunnerSteps
  <2>3. DownloadInv' /\ ProcessInv'
    BY <2>1, <2>2, DownloadFrame, RunnerKeepsInv
  <2>4. ToolInv'
    BY <2>1, <2>2, ComponentKeepsTool
  <2> QED BY <2>3, <2>4
<1>7. CASE ReaderStep \/ ErrorStep \/ PipeStep \/ ChildStep \/ HeirStep
  <2>1. /\ UNCHANGED downloadVars /\ UNCHANGED toolVars
        /\ Reading \/ ReadError \/ PipeTime \/ Child \/ Heir
    BY <1>7 DEF ReaderStep, ErrorStep, PipeStep, ChildStep, HeirStep
  <2>2. UNCHANGED <<tool, runner, outcome, late, cancelled>>
    BY <2>1 DEF Reading, ReadError, PipeTime, Child, Heir
  <2>3. DownloadInv'
    BY <1>0, <2>1, <2>2, DownloadFrame
  <2>4. ProcessInv'
    BY <2>1, ReadingKeepsInv, PipeTimeKeepsInv, ChildKeepsInv
  <2>5. ToolInv'
    BY <2>1, <2>2, ComponentKeepsTool
  <2> QED BY <2>3, <2>4, <2>5
<1>8. CASE UNCHANGED vars
  <2>1. UNCHANGED downloadVars /\ UNCHANGED processVars /\ UNCHANGED toolVars
        /\ UNCHANGED <<late, cancelled>>
    BY <1>8 DEF vars
  <2>2. DownloadInv' /\ ProcessInv'
    BY <1>0, <2>1, DownloadFrame, ProcessFrame
  <2>3. ToolInv'
    BY <2>1, ComponentKeepsTool DEF processVars
  <2> QED BY <2>2, <2>3
<1> QED BY <1>1, <1>2, <1>3, <1>4, <1>5, <1>6, <1>7, <1>8 DEF Next

\* The inductive invariant holds in every reachable state: a download, the
\* command after it and the operation around them agree with each other.
THEOREM Invariance == Spec => []IInv
<1>1. Init => IInv
  BY InitInv, Parts
<1>2. IInv /\ [Next]_vars => IInv'
  <2> SUFFICES ASSUME IInv, [Next]_vars PROVE IInv'
    OBVIOUS
  <2>1. DownloadInv' /\ ProcessInv' /\ ToolInv'
    BY StepInv, Parts
  <2> QED BY <2>1 DEF IInv, TypeOK, ToolInv, DownloadInv, ProcessInv
<1> QED BY <1>1, <1>2, PTL DEF Spec

\* Every variable keeps its type, whatever download, command or cancel does.
THEOREM TypeCorrectness == Spec => []TypeOK
<1>1. IInv => TypeOK
  BY DEF IInv
<1> QED BY <1>1, Invariance, PTL

\* At most one thread is in getaddrinfo, and it alone holds the lock, however
\* many downloads gave their lookups up.
THEOREM NoSecondLookup == Spec => []OneLookup
<1>1. IInv => OneLookup
  BY DEF IInv, DownloadInv
<1> QED BY <1>1, Invariance, PTL

\* Output that wsl.py returns is complete or marked as cut off, for any output,
\* capture and pipe.
THEOREM OutputIsComplete == Spec => []CompleteOrFlagged
<1>1. IInv => CompleteOrFlagged
  BY DEF IInv, ProcessInv
<1> QED BY <1>1, Invariance, PTL

\* A runner never ends without asking its child to end.
THEOREM ChildrenAreAsked == Spec => []NoChildForgotten
<1>1. IInv => NoChildForgotten
  BY DEF IInv, ProcessInv
<1> QED BY <1>1, Invariance, PTL

\* Only the pinned installer of the same operation's download is started.
THEOREM InstallerWasVerified == Spec => RunsVerified
<1>1. IInv /\ [Next]_vars =>
        [runner = "none" /\ runner' # "none" /\ tool' = "installer" =>
            published = "pinned" /\ fetched]_vars
  <2> SUFFICES ASSUME IInv, Next, runner = "none", runner' # "none",
                      tool' = "installer"
               PROVE  published = "pinned" /\ fetched
    BY DEF vars, processVars
  <2>1. DownloadInv /\ ProcessInv /\ ToolInv
    BY Parts
  <2>2. RunInstaller \/ RunCommand \/ InspectWsl
    <3>1. ~Running
      BY <2>1, RunnerSteps
    <3>2. CASE Operating
      BY <3>2 DEF Operating, Still, processVars, NoticesCancel, NotCancelled,
         BeginInstall, NoDestination, DownloadAnswers, InstallerInvalid,
         InstallerFound, CommandAnswers, EnableAnswers, StatusAnswers,
         InspectModel
    <3>3. ~Operating => runner' = runner
      BY <3>1 DEF Next, Request, Forget, Cancel, Quarantine, FetchStep, ServerStep,
         LookupStep, DoneStep, RunnerStep, ReaderStep, ErrorStep, PipeStep,
         ChildStep, HeirStep, Deadline, Reading, ReadError, PipeTime, Child, Heir,
         processVars
    <3> QED BY <3>2, <3>3
  <2>3. ~RunCommand
    <3> SUFFICES ASSUME RunCommand PROVE FALSE
      OBVIOUS
    <3>1. kind # "install" /\ step = "start" /\ tool' = kind
      BY DEF RunCommand, Run, Spawn
    <3> QED BY <2>1, <3>1 DEF ToolInv, OperationInv, Kinds
  <2>4. ~InspectWsl
    BY DEF InspectWsl, Spawn
  <2>5. RunInstaller
    BY <2>2, <2>3, <2>4
  <2>6. published # "none" /\ step = "start" /\ kind = "install"
    BY <2>5 DEF RunInstaller
  <2> QED BY <2>1, <2>6 DEF DownloadInv, DownloadTypeOK, ToolInv, OperationInv
<1> QED BY <1>1, Invariance, PTL DEF Spec, RunsVerified

\* WSL is not called ready over an announced restart.
THEOREM RestartIsHeard == Spec => RestartNotMissed
<1>1. IInv /\ [Next]_vars =>
        [step = "run" /\ step' = "inspect" /\ kind = "enable" =>
            ~(says /\ output["out"] > 0 /\ written["out"] = output["out"])]_vars
  <2> SUFFICES ASSUME IInv, Next, step = "run", step' = "inspect", kind = "enable",
                      says, output["out"] > 0, written["out"] = output["out"]
               PROVE  FALSE
    BY DEF vars
  <2>1. DownloadInv /\ ProcessInv /\ ToolInv
    BY Parts
  <2>2. EnableAnswers
    <3>1. Operating
      BY DEF Next, Request, Cancel, Quarantine, FetchStep, ServerStep, LookupStep,
         DoneStep, RunnerStep, ReaderStep, ErrorStep, PipeStep, ChildStep,
         HeirStep, Deadline, toolVars
    <3> QED BY <3>1 DEF Operating, NoticesCancel, NotCancelled, BeginInstall,
           NoDestination, DownloadAnswers, InstallerInvalid, InstallerFound,
           RunInstaller, RunCommand, Run, CommandAnswers, InspectWsl,
           StatusAnswers, InspectModel, Answer
  <2>3. outcome = "returned" /\ ~Incomplete /\ ~SaysRestart
    BY <2>2 DEF EnableAnswers, Answer
  <2>4. ~Watches(tool) /\ "out" \in Piped(tool) /\ "out" \in Streams
    BY <2>1 DEF ToolInv, OperationInv, Watches, Piped, Streams
  <2>5. kept["out"] = written["out"]
    BY <2>1, <2>3, <2>4 DEF ProcessInv, CompleteOrFlagged, Incomplete
  <2> QED BY <2>3, <2>5 DEF SaysRestart
<1> QED BY <1>1, Invariance, PTL DEF Spec, RestartNotMissed
-----------------------------------------------------------------------------
(* What an operation waits for *)

\* The last answer of the download, as far as the operation relies on it.
AnswerOf == result # "none" /\ (result = "cancelled" => cancelled)

\* A download that ends says how, and that it was cancelled only if it was.
LEMMA LeavingAnswers ==
    ASSUME NEW o \in Results \ {"none"}, Leave(o), o = "cancelled" => cancelled,
           cancelled' = cancelled
    PROVE  fetch' = "none" /\ AnswerOf'
BY DEF Leave, AnswerOf

\* Every step of a download leaves it at work or answered.
LEMMA DownloadWaits ==
    ASSUME Downloading \/ Served, result = "cancelled" => cancelled,
           fetch = "resolving" => \E l \in lookups : l.waited
    PROVE  /\ cancelled' = cancelled /\ fetch # "none"
           /\ result' = "cancelled" => cancelled'
           /\ fetch' = "none" => AnswerOf'
           /\ fetch' = "resolving" => \E l \in lookups' : l.waited
<1> DEFINE Fails == IF cancelled THEN "cancelled" ELSE "failed"
<1>0. {Fails, "failed", "published"} \subseteq Results \ {"none"}
  BY DEF Results
<1>1. CASE Remaining \/ Breaks \/ Publish
  <2>1. /\ fetch # "none" /\ cancelled' = cancelled
        /\ Leave(Fails) \/ Leave("published")
    BY <1>1 DEF Remaining, Breaks, Publish
  <2> QED BY <1>0, <2>1, LeavingAnswers DEF AnswerOf
<1>2. CASE Resolve
  <2>1. fetch = "open" /\ cancelled' = cancelled
    BY <1>2 DEF Resolve
  <2>2. CASE lock
    <3>1. Leave("failed")
      BY <1>2, <2>2 DEF Resolve
    <3> QED BY <1>0, <2>1, <3>1, LeavingAnswers DEF AnswerOf
  <2>3. CASE ~lock
    <3>1. /\ fetch' = "resolving" /\ result' = result
          /\ [waited |-> TRUE, at |-> "looking", found |-> FALSE] \in lookups'
      BY <1>2, <2>3 DEF Resolve
    <3> QED BY <2>1, <3>1
  <2> QED BY <2>2, <2>3
<1>3. CASE Resolved \/ Redirect \/ Verify
  <2>1. fetch # "none" /\ cancelled' = cancelled
    BY <1>3 DEF Resolved, Redirect, Verify
  <2>2. CASE Leave("failed")
    BY <1>0, <2>1, <2>2, LeavingAnswers DEF AnswerOf
  <2>3. CASE ~Leave("failed")
    <3>1. fetch' \in {"connecting", "open", "verified"} /\ result' = result
      BY <1>3, <2>3 DEF Resolved, Redirect, Verify
    <3> QED BY <2>1, <3>1
  <2> QED BY <2>2, <2>3
<1>4. CASE Connect \/ Respond \/ ReadChunk
  <2>1. /\ fetch # "none" /\ cancelled' = cancelled /\ result' = result
        /\ fetch' \in {"responding", "streaming"}
    BY <1>4 DEF Connect, Respond, ReadChunk
  <2> QED BY <2>1
<1> QED BY <1>1, <1>2, <1>3, <1>4 DEF Downloading, Served

\* A resolver thread answers the download that waits for it, or nobody.
LEMMA LookupWaits ==
    ASSUME LookupReturns \/ LookupDone, lookups \subseteq Lookup,
           \E l \in lookups : l.waited
    PROVE  \E l \in lookups' : l.waited
<1>1. PICK w \in lookups : w.waited
  OBVIOUS
<1>2. CASE LookupReturns
  <2>1. PICK l \in Looking :
          \/ /\ l.waited
             /\ \E found \in BOOLEAN : lookups' = (lookups \ {l}) \cup
                    {[l EXCEPT !.at = "released", !.found = found]}
          \/ ~l.waited /\ lookups' = lookups \ {l}
    BY <1>2 DEF LookupReturns
  <2>2. l \in Lookup
    BY <2>1 DEF Looking
  <2>3. CASE l.waited
    <3>1. PICK found \in BOOLEAN : lookups' = (lookups \ {l}) \cup
            {[l EXCEPT !.at = "released", !.found = found]}
      BY <2>1, <2>3
    <3>2. [l EXCEPT !.at = "released", !.found = found].waited
      BY <2>2, <2>3 DEF Lookup
    <3> QED BY <3>1, <3>2
  <2>4. CASE ~l.waited
    BY <1>1, <2>1, <2>4
  <2> QED BY <2>3, <2>4
<1>3. CASE LookupDone
  <2>1. PICK l \in lookups :
          lookups' = (lookups \ {l}) \cup {[l EXCEPT !.at = "done"]}
    BY <1>3 DEF LookupDone
  <2>2. [l EXCEPT !.at = "done"].waited = l.waited
    BY DEF Lookup
  <2> QED BY <1>1, <2>1, <2>2
<1> QED BY <1>2, <1>3
-----------------------------------------------------------------------------
(* What a reader thread waits for *)

\* The readers of a step that is not theirs.
LEMMA ReadersFrame ==
    ASSUME ReaderInv, UNCHANGED <<tool, reader>>,
           runner' = "none" => stopped' \/ (runner = "none" /\ stopped' = stopped)
    PROVE  ReaderInv'
BY DEF ReaderInv, Watches

LEMMA RunnerKeepsReaders ==
    ASSUME ReaderInv, Running PROVE ReaderInv'
<1> USE DEF EndUnchanged, streamVars, childVars, End
<1>1. UNCHANGED <<tool, reader>>
  BY DEF Running, Checks, Waits, PipesHeldOpen, ReturnsOutput, Polls, Turns,
         Report, ReturnsCode
<1>2. runner' = "none" => stopped'
  BY DEF Running, Checks, Waits, PipesHeldOpen, ReturnsOutput, Polls, Turns,
         Report, ReturnsCode
<1> QED BY <1>1, <1>2, ReadersFrame

LEMMA ReadingKeepsReaders ==
    ASSUME ReaderInv, ProcessInv, Reading \/ ReadError PROVE ReaderInv'
<1>1. UNCHANGED <<tool, runner, stopped>>
  BY DEF Reading, ReadError
<1>2. PICK s \in Streams :
        Read(s) \/ Put(s) \/ EndReading(s) \/ CloseStream(s) \/ ReadFails(s)
  BY DEF Reading, ReadError
<1>3. \E at \in {"reading", "putting", "closing", "done"} :
        /\ reader[s] # "done" /\ reader' = [reader EXCEPT ![s] = at]
        /\ at = "putting" => Watches(tool)
  <2>1. reader \in [Streams -> {"reading", "putting", "closing", "done"}]
    BY DEF ProcessInv, ProcessTypeOK
  <2>2. CASE Read(s)
    <3>1. reader[s] = "reading"
      BY <2>2 DEF Read
    <3>2. \/ reader' = [reader EXCEPT ![s] = "putting"] /\ Watches(tool)
          \/ reader' = [reader EXCEPT ![s] = "reading"]
      BY <2>1, <2>2, <3>1 DEF Read
    <3> QED BY <3>1, <3>2
  <2> QED BY <1>2, <2>2 DEF Put, EndReading, CloseStream, ReadFails
<1> QED BY <1>1, <1>3 DEF ReaderInv, Watches, ProcessInv, ProcessTypeOK

\* The readers of a new command belong to its runner.
LEMMA SpawnKeepsReaders ==
    ASSUME NEW t, Spawn(t) PROVE ReaderInv' /\ outcome' # "cancelled"
<1>1. /\ outcome' \in {"none", "failed"}
      /\ \/ runner' = "watch"
            /\ reader' = [s \in Streams |-> IF s \in Piped(t) THEN "reading" ELSE "done"]
         \/ reader' = Each("done")
  BY DEF Spawn
<1>2. \A s \in Streams : reader'[s] # "putting"
  BY <1>1 DEF Each
<1>3. \A s \in Streams : runner' = "none" => reader'[s] = "done"
  BY <1>1 DEF Each
<1> QED BY <1>1, <1>2, <1>3 DEF ReaderInv

\* A runner ends with a cancel only if its operation was cancelled.
LEMMA RunnerHearsCancel ==
    ASSUME Running, outcome = "cancelled" => cancelled
    PROVE  outcome' = "cancelled" => cancelled'
BY DEF Running, Checks, Waits, PipesHeldOpen, ReturnsOutput, Polls, Turns,
       Report, ReturnsCode, End, EndUnchanged, Cancelled

-----------------------------------------------------------------------------
(* The operation that waits *)

\* What an operation does without its components.
LEMMA Answers ==
    ASSUME Operating, ~(BeginInstall \/ RunInstaller \/ RunCommand \/ InspectWsl)
    PROVE  Still /\ step' # "fetch" /\ (step = "fetch" => fetch = "none")
BY DEF Operating, NoticesCancel, NotCancelled, NoDestination, DownloadAnswers,
       InstallerInvalid, InstallerFound, CommandAnswers, EnableAnswers,
       StatusAnswers, InspectModel, Answer

LEMMA OperatingWaits ==
    ASSUME IInv, WaitInv, ReaderInv, Operating PROVE WaitInv' /\ ReaderInv'
<1>1. CASE BeginInstall
  <2>1. /\ Fetch /\ step' = "fetch" /\ step = "destination"
        /\ UNCHANGED processVars
    BY <1>1 DEF BeginInstall
  <2>2. ReaderInv'
    BY <2>1, ReadersFrame DEF processVars, streamVars
  <2>3. WaitInv'
    BY <2>1 DEF WaitInv, Fetch, processVars
  <2> QED BY <2>2, <2>3
<1>2. CASE RunInstaller \/ RunCommand \/ InspectWsl
  <2>1. /\ \E t \in Tools \cup Kinds : Spawn(t)
        /\ step # "fetch" /\ step' \in {"run", "status"}
        /\ UNCHANGED <<downloadVars, cancelled>>
    BY <1>2 DEF RunInstaller, RunCommand, InspectWsl, Run, Tools, IInv,
       OperationInv
  <2>2. ReaderInv' /\ outcome' # "cancelled"
    BY <2>1, SpawnKeepsReaders
  <2>3. WaitInv'
    BY <2>1, <2>2 DEF WaitInv, downloadVars
  <2> QED BY <2>2, <2>3
<1>3. CASE ~(BeginInstall \/ RunInstaller \/ RunCommand \/ InspectWsl)
  <2>1. /\ UNCHANGED <<fetch, result, lookups, cancelled, outcome>>
        /\ UNCHANGED <<tool, reader, runner, stopped>>
    BY <1>3, Answers DEF Still, downloadVars, processVars, streamVars
  <2>2. ReaderInv'
    BY <2>1, ReadersFrame
  <2>3. step' # "fetch" /\ (step = "fetch" => fetch = "none")
    BY <1>3, Answers
  <2>4. WaitInv'
    BY <2>1, <2>3 DEF WaitInv
  <2> QED BY <2>2, <2>4
<1> QED BY <1>1, <1>2, <1>3
\* WaitInv and ReaderInv are inductive beside IInv.
LEMMA StepWaits ==
    ASSUME IInv, WaitInv, ReaderInv, [Next]_vars PROVE WaitInv' /\ ReaderInv'
<1>0. DownloadInv /\ ProcessInv
  BY Parts
<1>1. CASE \E k \in Kinds : Request(k)
  <2>1. /\ step = "idle" /\ step' = "begin" /\ cancelled' = FALSE
        /\ Forget /\ UNCHANGED downloadVars
    BY <1>1 DEF Request
  <2>2. WaitInv'
    BY <2>1 DEF WaitInv, Forget, downloadVars
  <2>3. ReaderInv'
    BY <2>1 DEF ReaderInv, Forget, Each
  <2> QED BY <2>2, <2>3
<1>2. CASE Operating
  BY <1>2, OperatingWaits
<1>3. CASE Cancel \/ Deadline \/ Quarantine \/ UNCHANGED vars
  <2>1. /\ UNCHANGED <<fetch, result, lookups, outcome, step>>
        /\ UNCHANGED <<tool, reader, runner, stopped>>
        /\ cancelled => cancelled'
    BY <1>3 DEF Cancel, Deadline, Quarantine, vars, downloadVars, processVars,
       streamVars, toolVars
  <2>2. ReaderInv'
    BY <2>1, ReadersFrame
  <2>3. WaitInv'
    BY <2>1 DEF WaitInv
  <2> QED BY <2>2, <2>3
<1>4. CASE FetchStep \/ ServerStep
  <2>1. /\ Downloading \/ Served
        /\ UNCHANGED <<outcome, step>> /\ UNCHANGED <<tool, reader, runner, stopped>>
    BY <1>4 DEF FetchStep, ServerStep, processVars, streamVars, toolVars
  <2>2. step = "fetch" /\ (result = "cancelled" => cancelled)
    BY <2>1 DEF WaitInv, Downloading, Served, Remaining, Resolve, Resolved, Publish,
       Breaks, Connect, Redirect, Respond, ReadChunk, Verify
  <2>3. ReaderInv'
    BY <2>1, ReadersFrame
  <2>4. WaitInv'
    BY <2>1, <2>2, DownloadWaits DEF WaitInv, AnswerOf
  <2> QED BY <2>3, <2>4
<1>5. CASE LookupStep \/ DoneStep
  <2>1. /\ LookupReturns \/ LookupDone
        /\ UNCHANGED <<fetch, result, cancelled, outcome, step>>
        /\ UNCHANGED <<tool, reader, runner, stopped>>
    BY <1>5 DEF LookupStep, DoneStep, LookupReturns, LookupDone, processVars,
       streamVars, toolVars
  <2>2. fetch' = "resolving" => \E l \in lookups' : l.waited
    BY <1>0, <2>1, LookupWaits DEF WaitInv, DownloadInv, DownloadTypeOK
  <2>3. ReaderInv'
    BY <2>1, ReadersFrame
  <2>4. WaitInv'
    BY <2>1, <2>2 DEF WaitInv
  <2> QED BY <2>3, <2>4
<1>6. CASE RunnerStep
  <2>1. Running /\ UNCHANGED <<fetch, result, lookups, step>>
    BY <1>6 DEF RunnerStep, downloadVars, toolVars
  <2>2. cancelled' = cancelled
    BY <2>1 DEF Running, Checks, Waits, PipesHeldOpen, ReturnsOutput, Polls,
       Turns, Report, ReturnsCode, EndUnchanged
  <2>3. ReaderInv'
    BY <2>1, RunnerKeepsReaders
  <2>4. WaitInv'
    BY <2>1, <2>2, RunnerHearsCancel DEF WaitInv
  <2> QED BY <2>3, <2>4
<1>7. CASE ReaderStep \/ ErrorStep \/ PipeStep \/ ChildStep \/ HeirStep
  <2>1. /\ Reading \/ ReadError \/ PipeTime \/ Child \/ Heir
        /\ UNCHANGED <<fetch, result, lookups, step>>
    BY <1>7 DEF ReaderStep, ErrorStep, PipeStep, ChildStep, HeirStep,
       downloadVars, toolVars
  <2>2. UNCHANGED <<outcome, cancelled>>
    BY <2>1 DEF Reading, ReadError, PipeTime, Child, Heir
  <2>3. WaitInv'
    BY <2>1, <2>2 DEF WaitInv
  <2>4. CASE PipeTime \/ Heir
    <3>1. UNCHANGED <<tool, reader, runner, stopped>>
      BY <2>4 DEF PipeTime, Heir, HeirEnds, streamVars
    <3> QED BY <2>3, <3>1, ReadersFrame
  <2>5. CASE Child
    <3>1. UNCHANGED <<tool, reader, runner, stopped>>
      BY <2>5 DEF Child, Write, ChildEnds, streamVars
    <3> QED BY <2>3, <3>1, ReadersFrame
  <2> QED BY <1>0, <2>1, <2>3, <2>4, <2>5, ReadingKeepsReaders
<1> QED BY <1>1, <1>2, <1>3, <1>4, <1>5, <1>6, <1>7 DEF Next

\* The safety half of OperationEnds: in every reachable state an operation that
\* waits for a download, a lookup or a command waits for something that is at
\* work or that has answered it (download_verified, _run_cancellable, _run).
THEOREM WaitsAreServed == Spec => [](WaitInv /\ ReaderInv)
<1>1. Init => WaitInv /\ ReaderInv
  <2>1. Init => /\ step = "idle" /\ fetch = "none" /\ outcome = "none"
               /\ reader = Each("done")
    BY DEF Init, DownloadInit, NoCommand
  <2> QED BY <2>1 DEF WaitInv, ReaderInv, Each
<1>2. IInv /\ (WaitInv /\ ReaderInv) /\ [Next]_vars => (WaitInv /\ ReaderInv)'
  BY StepWaits
<1> QED BY <1>1, <1>2, Invariance, PTL DEF Spec

\* The safety half of OperationEnds in terms of the code: download_verified has
\* a thread that looks up the name it waits for, and whoever waits for a
\* download or a command has it at work or its answer at hand.
THEOREM OperationIsServed ==
    Spec => [](/\ step = "fetch" => fetch # "none" \/ result # "none"
               /\ step \in {"run", "status"} => runner # "none" \/ outcome # "none"
               /\ fetch = "resolving" => \E l \in lookups : l.waited)
<1>1. IInv /\ WaitInv =>
        /\ step = "fetch" => fetch # "none" \/ result # "none"
        /\ step \in {"run", "status"} => runner # "none" \/ outcome # "none"
        /\ fetch = "resolving" => \E l \in lookups : l.waited
  BY DEF IInv, OperationInv, WaitInv
<1> QED BY <1>1, Invariance, WaitsAreServed, PTL

\* The safety half of ReadersEnd: a reader of progress lines that finds the
\* queue full has a runner that will empty it, and every reader that a runner
\* left behind, however it ended, has been told to stop (_read_progress_lines).
THEOREM ReadersAreReleased ==
    Spec => [](\A s \in Streams :
                 /\ reader[s] = "putting" /\ queue = 1 /\ ~stopped =>
                      runner # "none" /\ Watches(tool)
                 /\ runner = "none" => stopped \/ reader[s] = "done")
<1>1. ReaderInv =>
        \A s \in Streams :
          /\ reader[s] = "putting" /\ queue = 1 /\ ~stopped =>
               runner # "none" /\ Watches(tool)
          /\ runner = "none" => stopped \/ reader[s] = "done"
  BY DEF ReaderInv
<1> QED BY <1>1, WaitsAreServed, PTL

-----------------------------------------------------------------------------
(* SetupTools implements InstallerContract *)

\* An answer is one the contract allows.
LEMMA AnswerReturns ==
    ASSUME NEW c \in Codes \ {"NONE"}, Answer(c), step # "idle",
           cancelled' = cancelled, c = "CANCELLED" => cancelled
    PROVE  Contract!ContractNext
<1>1. /\ StageOf(c) \in Contract!InstallerStages
      /\ StageOf(c) = "cancelled" => cancelled
  BY DEF StageOf, Contract!InstallerStages
<1>2. Contract!Return(StageOf(c))
  BY <1>1 DEF Answer, Contract!Return
<1> QED BY <1>1, <1>2 DEF Contract!ContractNext

\* A step that answers nothing is none of the contract's.
LEMMA SilentRefines ==
    ASSUME UNCHANGED <<code, cancelled>>, step' = "idle" <=> step = "idle"
    PROVE  UNCHANGED Contract!contract
BY DEF Contract!contract

\* Each place where an operation notices a cancel.
LEMMA OperatingRefines ==
    ASSUME IInv, WaitInv, Operating
    PROVE  [Contract!ContractNext]_(Contract!contract)
<1>0. UNCHANGED cancelled /\ step # "idle"
  BY DEF Operating, NoticesCancel, NotCancelled, BeginInstall, NoDestination,
     DownloadAnswers, InstallerInvalid, InstallerFound, RunInstaller, RunCommand,
     Run, CommandAnswers, EnableAnswers, InspectWsl, StatusAnswers, InspectModel,
     Still, Fetch
<1>1. CASE BeginInstall \/ RunInstaller \/ RunCommand \/ InspectWsl
  <2>1. UNCHANGED code /\ step' # "idle"
    BY <1>1 DEF BeginInstall, RunInstaller, RunCommand, InspectWsl, Run
  <2> QED BY <1>0, <2>1, SilentRefines
<1>2. CASE \/ step' # "idle" /\ UNCHANGED code
           \/ \E c \in Codes \ {"NONE"} :
                 Answer(c) /\ (c = "CANCELLED" => cancelled)
  BY <1>0, <1>2, AnswerReturns, SilentRefines
<1>3. CASE NoticesCancel \/ NoDestination \/ InstallerInvalid \/ InspectModel
  BY <1>2, <1>3 DEF NoticesCancel, NoDestination, InstallerInvalid, InspectModel, Codes
<1>4. CASE DownloadAnswers
  BY <1>2, <1>4 DEF DownloadAnswers, WaitInv, Codes
<1>5. CASE CommandAnswers
  <2>1. kind \in {"install", "pull"} /\ outcome \in Outcomes \ {"none"}
    BY <1>5 DEF CommandAnswers, IInv, TypeOK, ProcessTypeOK, OperationInv, Kinds
  <2>2. /\ outcome \in {"timeout", "failed"} =>
             Failures[kind][outcome] \in Codes \ {"NONE", "CANCELLED"}
        /\ Failures[kind].failed \in Codes \ {"NONE", "CANCELLED"}
        /\ "CANCELLED" \in Codes \ {"NONE"}
    BY <2>1 DEF Failures, Codes
  <2> QED BY <1>2, <1>5, <2>1, <2>2 DEF CommandAnswers, WaitInv, Outcomes
<1>6. CASE EnableAnswers
  <2>1. {"CANCELLED", "WSL_ENABLE_FAILED", "RESTART_REQUIRED"} \subseteq Codes \ {"NONE"}
    BY DEF Codes
  <2> QED BY <1>2, <1>6, <2>1 DEF EnableAnswers, WaitInv
<1>7. CASE StatusAnswers
  <2>1. {"CANCELLED", "WSL_UNAVAILABLE", "WSL_READY", "WSL2_REQUIRED"}
          \subseteq Codes \ {"NONE"}
    BY DEF Codes
  <2> QED BY <1>2, <1>7, <2>1 DEF StatusAnswers
<1>8. CASE NotCancelled \/ InstallerFound
  BY <1>2, <1>8 DEF NotCancelled, InstallerFound
<1> QED BY <1>1, <1>3, <1>4, <1>5, <1>6, <1>7, <1>8 DEF Operating

LEMMA NextRefines ==
    ASSUME IInv, WaitInv, [Next]_vars
    PROVE  [Contract!ContractNext]_(Contract!contract)
<1>1. CASE \E k \in Kinds : Request(k)
  <2>1. Contract!Call
    BY <1>1 DEF Request, Contract!Call, StageOf
  <2> QED BY <2>1 DEF Contract!ContractNext
<1>2. CASE Cancel
  <2>1. Contract!Cancel
    BY <1>2 DEF Cancel, toolVars, Contract!Cancel
  <2> QED BY <2>1 DEF Contract!ContractNext
<1>3. CASE Operating
  BY <1>3, OperatingRefines
<1>4. CASE ~(Operating \/ Cancel \/ \E k \in Kinds : Request(k))
  <2>1. UNCHANGED <<step, code>>
    BY <1>4 DEF Next, Quarantine, FetchStep, ServerStep, LookupStep, DoneStep,
       RunnerStep, ReaderStep, ErrorStep, PipeStep, ChildStep, HeirStep,
       Deadline, vars, toolVars
  <2>2. UNCHANGED cancelled
    <3>1. CASE RunnerStep
      BY <3>1 DEF RunnerStep, Running, Checks, Waits, PipesHeldOpen,
         ReturnsOutput, Polls, Turns, Report, ReturnsCode, EndUnchanged
    <3>2. CASE FetchStep \/ ServerStep \/ LookupStep \/ DoneStep
      BY <3>2 DEF FetchStep, ServerStep, LookupStep, DoneStep, Downloading,
         Served, Remaining, Resolve, Resolved, Publish, Breaks, Connect,
         Redirect, Respond, ReadChunk, Verify, LookupReturns, LookupDone
    <3>3. CASE ReaderStep \/ ErrorStep \/ PipeStep \/ ChildStep \/ HeirStep
      BY <3>3 DEF ReaderStep, ErrorStep, PipeStep, ChildStep, HeirStep,
         Reading, ReadError, PipeTime, Child, Heir
    <3>4. CASE Quarantine \/ Deadline \/ UNCHANGED vars
      BY <3>4 DEF Quarantine, Deadline, vars
    <3> QED BY <1>4, <3>1, <3>2, <3>3, <3>4 DEF Next
  <2> QED BY <2>1, <2>2, SilentRefines
<1> QED BY <1>1, <1>2, <1>3, <1>4

\* install, pull_model and enable keep the promise their repair relies on
\* (setup_api.py, _repair), for every artifact, output and order of requests.
THEOREM Refinement == Spec => ImplementsContract
<1>1. Init => Contract!ContractInit
  BY DEF Init, StageOf, Contract!ContractInit
<1>2. IInv /\ WaitInv /\ [Next]_vars =>
        [Contract!ContractNext]_(Contract!contract)
  BY NextRefines
<1> QED BY <1>1, <1>2, Invariance, WaitsAreServed, PTL
       DEF Spec, ImplementsContract, Contract!ContractSpec
=============================================================================
