\* A confirmed cancel of a repair that then fails for another reason.
SPECIFICATION Spec
CONSTANTS
    Threads = {t1, t2}
    Components = {ollama, kali}
    NoThread = NoThread
    MaxRepairs = 2
INVARIANTS
    CancelIsReflected
\* Every repair may be answered and the bound spent.
CHECK_DEADLOCK FALSE
