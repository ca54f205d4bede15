-------------------------- MODULE VerifiedDownload --------------------------
(* The download of one pinned artifact: the resolver thread that may outlive *)
(* the download that started it, the connections and their redirects, the    *)
(* chunks under a temporary name, their verification and the publication     *)
(* under the artifact's name.  Source: redpath_setup/downloads.py.           *)
(*                                                                           *)
(* Abstracted: the bytes are counted chunks, of the artifact or not; the     *)
(* socket's own timeouts, the connection's share of the deadline and the     *)
(* download's are one deadline, which may pass whenever it is asked for      *)
(* (_remaining); the addresses of one lookup are tried as one connection.    *)
EXTENDS Naturals, FiniteSets, SetupSignals

CONSTANTS
    Size,           \* chunks of the pinned artifact
    MaxHops         \* bound: connections of one download (urllib's redirects)

ASSUME DownloadAssumption ==
    Size \in Nat \ {0} /\ MaxHops \in Nat \ {0}

VARIABLES
    fetch,          \* where download_verified is
    result,         \* how the last download ended
    hop,            \* connections of this download
    lock,           \* _resolver_lock is held
    lookups,        \* the resolver threads, and the answer waited for
    temporary,      \* the chunks under the temporary name
    published       \* the bytes under the artifact's name

downloadVars == <<fetch, result, hop, lock, lookups, temporary, published>>

Places == {"none", "open", "resolving", "connecting", "responding",
           "streaming", "verified"}
Results == {"none", "published", "cancelled", "failed"}
\* hmac.compare_digest and the size of everything that was written.
NoFile == [chunks |-> 0, intact |-> TRUE]
Pinned(file) == file.intact /\ file.chunks = Size

\* waited: the download that started it has not given it up.
Lookup == [waited: BOOLEAN, at: {"looking", "released", "done"}, found: BOOLEAN]
Looking == {l \in lookups : l.at = "looking"}

DownloadInit ==
    /\ fetch = "none" /\ result = "none"
    /\ hop = 0
    /\ lock = FALSE /\ lookups = {}
    /\ temporary = NoFile /\ published = "none"

\* _remaining raises.
Stopped == cancelled \/ late

\* The download ends, its temporary file is removed, and nobody waits for its
\* lookup any more: the thread, if it still runs, goes on alone.
Leave(outcome) ==
    /\ fetch' = "none"
    /\ result' = outcome
    /\ temporary' = NoFile
    /\ hop' = 0 /\ late' = FALSE
    /\ lookups' = {[l EXCEPT !.waited = FALSE] : l \in Looking}

-----------------------------------------------------------------------------
(* The downloading thread *)

\* download_verified of an artifact whose own URL is HTTPS.
Fetch ==
    /\ fetch = "none"
    /\ hop' = 1
    /\ fetch' = "open" /\ result' = "none"
    /\ late' = FALSE
    /\ UNCHANGED <<cancelled, lock, lookups, temporary, published>>

\* Mutant: gives the lock back with the lookup.
RemainingReleases ==
    /\ fetch # "none"
    /\ Stopped
    /\ Leave(IF cancelled THEN "cancelled" ELSE "failed")
    /\ lock' = (lock /\ fetch # "resolving")
    /\ UNCHANGED <<published, cancelled>>

\* Mutant: the lookup is waited for to its end.
RemainingUnlessResolving ==
    /\ fetch \notin {"none", "resolving"}
    /\ Stopped
    /\ Leave(IF cancelled THEN "cancelled" ELSE "failed")
    /\ UNCHANGED <<lock, published, cancelled>>

\* A check of the deadline and the event; cancellation is looked at first.
Remaining ==
    /\ fetch # "none"
    /\ Stopped
    /\ Leave(IF cancelled THEN "cancelled" ELSE "failed")
    /\ UNCHANGED <<lock, published, cancelled>>

\* The network or the disk fails: an OSError, cancelled if it is noticed first.
Breaks ==
    /\ fetch \notin {"none", "resolving"}
    /\ Leave(IF cancelled THEN "cancelled" ELSE "failed")
    /\ UNCHANGED <<lock, published, cancelled>>

\* _resolve: one lookup at a time in the process, and no waiting for the lock.
Resolve ==
    /\ fetch = "open"
    /\ ~Stopped
    /\ IF lock
       THEN Leave("failed") /\ UNCHANGED lock
       ELSE /\ lock' = TRUE
            /\ lookups' = lookups \cup
                   {[waited |-> TRUE, at |-> "looking", found |-> FALSE]}
            /\ fetch' = "resolving"
            /\ UNCHANGED <<result, hop, late, temporary>>
    /\ UNCHANGED <<published, cancelled>>

\* done is set in time: the addresses of this call's own lookup.
Resolved ==
    /\ fetch = "resolving"
    /\ ~Stopped
    /\ \E l \in lookups :
        /\ l.waited /\ l.at = "done"
        /\ IF l.found
           THEN /\ fetch' = "connecting"
                /\ lookups' = lookups \ {l}
                /\ UNCHANGED <<result, hop, late, temporary>>
           ELSE Leave("failed")
    /\ UNCHANGED <<lock, published, cancelled>>

\* _connect and the TLS handshake, for the first address that accepts.
Connect ==
    /\ fetch = "connecting"
    /\ ~Stopped
    /\ fetch' = "responding"
    /\ UNCHANGED <<result, hop, lock, lookups, temporary, published,
                   late, cancelled>>

\* A redirect, refused unless it is HTTPS, opens the next connection.
Redirect ==
    /\ fetch = "responding"
    /\ ~Stopped
    /\ \/ /\ hop < MaxHops
          /\ hop' = hop + 1 /\ fetch' = "open"
          /\ UNCHANGED <<result, lookups, temporary, late>>
       \/ Leave("failed")
    /\ UNCHANGED <<lock, published, cancelled>>

Respond ==
    /\ fetch = "responding"
    /\ ~Stopped
    /\ fetch' = "streaming"
    /\ UNCHANGED <<result, hop, lock, lookups, temporary, published,
                   late, cancelled>>

\* read1 returns a chunk, of the artifact or of something else.
ReadChunk ==
    /\ fetch = "streaming"
    /\ ~Stopped
    /\ temporary.chunks <= Size
    /\ \E same \in BOOLEAN :
        temporary' = [chunks |-> temporary.chunks + 1,
                      intact |-> temporary.intact /\ same]
    /\ UNCHANGED <<fetch, result, hop, lock, lookups, published, late,
                   cancelled>>

\* Mutant: the size is enough.
VerifyLength ==
    /\ fetch = "streaming"
    /\ ~Stopped
    /\ IF temporary.chunks = Size
       THEN fetch' = "verified" /\ UNCHANGED <<result, hop, late, lookups, temporary>>
       ELSE Leave("failed")
    /\ UNCHANGED <<lock, published, cancelled>>

\* read1 returns nothing, at the artifact's end or when the server hung up.
Verify ==
    /\ fetch = "streaming"
    /\ ~Stopped
    /\ IF Pinned(temporary)
       THEN fetch' = "verified" /\ UNCHANGED <<result, hop, late, lookups, temporary>>
       ELSE Leave("failed")
    /\ UNCHANGED <<lock, published, cancelled>>

\* os.replace; a cancel after the last check is for the caller to notice.
Publish ==
    /\ fetch = "verified"
    /\ published' = IF Pinned(temporary) THEN "pinned" ELSE "other"
    /\ Leave("published")
    /\ UNCHANGED <<lock, cancelled>>

-----------------------------------------------------------------------------
(* The resolver threads *)

\* getaddrinfo returns or raises: the lock is released first,
LookupReturns ==
    \E l \in Looking :
        /\ lock' = FALSE
        /\ \/ /\ l.waited
              /\ \E found \in BOOLEAN :
                    lookups' = (lookups \ {l}) \cup
                        {[l EXCEPT !.at = "released", !.found = found]}
           \/ ~l.waited /\ lookups' = lookups \ {l}
        /\ UNCHANGED <<fetch, result, hop, temporary, published, late, cancelled>>

\* and then done is set, which matters to a download that still waits.
LookupDone ==
    \E l \in lookups :
        /\ l.at = "released"
        /\ lookups' = (lookups \ {l}) \cup {[l EXCEPT !.at = "done"]}
        /\ UNCHANGED <<fetch, result, hop, lock, temporary, published, late,
                       cancelled>>

\* What the thread does by itself, and what the network and the disk do to it.
Downloading == Remaining \/ Resolve \/ Resolved \/ Publish
Served == Breaks \/ Connect \/ Redirect \/ Respond \/ ReadChunk \/ Verify

-----------------------------------------------------------------------------
(* Properties *)

DownloadTypeOK ==
    /\ fetch \in Places /\ result \in Results
    /\ hop \in 0..MaxHops
    /\ late \in BOOLEAN /\ cancelled \in BOOLEAN /\ lock \in BOOLEAN
    /\ lookups \subseteq Lookup
    /\ temporary \in [chunks: 0..Size + 1, intact: BOOLEAN]
    /\ published \in {"none", "pinned", "other"}

\* The lock is held exactly while a thread is in getaddrinfo, and there is
\* never a second one: a download that gave its lookup up neither releases the
\* lock of a thread that still runs nor lets hung threads accumulate
\* (test_os_resolver_wait_is_bounded_and_cannot_accumulate_threads).
OneLookup ==
    /\ lock <=> Looking # {}
    /\ \A l, k \in Looking : l = k

\* What carries them: only pinned bytes get as far as their publication.
DownloadInv ==
    /\ DownloadTypeOK /\ OneLookup
    /\ fetch = "verified" => Pinned(temporary)
    /\ published # "other"
=============================================================================
