\* Two threads repair two components, are cancelled and are shut down.
SPECIFICATION FairSpec
CONSTANTS
    Threads = {t1, t2}
    Components = {ollama, kali}
    NoThread = NoThread
    MaxRepairs = 4
INVARIANTS
    CancelledIsNotReady
    NoStrayCancel
    ShutdownCancelsAll
PROPERTIES
    ImplementsContract
    RepairsEnd
\* Every repair may be answered and the bound spent.
CHECK_DEADLOCK FALSE
