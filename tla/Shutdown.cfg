\* Two processes, each with one worker that may leave a child behind.
SPECIFICATION FairSpec
CONSTANTS
    Hosts = {h1, h2}
    Workers = {w1}
    NoHost = NoHost
INVARIANTS
    NoOverlap
    StorageOutlivesWork
PROPERTIES
    GuardIsReleased
\* Every process may have ended.
CHECK_DEADLOCK FALSE
