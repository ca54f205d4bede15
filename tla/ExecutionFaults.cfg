\* Two threads race for two proposals of one session while stops, failed
\* writes, a crash and a close happen, and the target expires before the session.
SPECIFICATION Spec
CONSTANTS
    s1 = s1
    p1 = p1
    p2 = p2
    w1 = w1
    w2 = w2
    o1 = o1
    Nobody = Nobody
    NoProposal = NoProposal
    Sessions = {s1}
    Proposals = {p1, p2}
    Workers = {w1, w2}
    Operators = {o1}
    SessionOf <- MCOneSessionOf
    SessionExpiry <- MCLateExpiry
    TargetExpiry <- MCShortExpiry
    ApprovalTtl = 2
    MaxNow = 1
    MaxStops = 2
    MaxFaults = 1
    MaxCrashes = 1
INVARIANTS
    AtMostOneDispatch
    StatusTellsTheTruth
    IInv
PROPERTIES
    StopBlocksStart
    ClosedSessionStartsNothing
    OnlyClearLiftsStop
    ImplementsContract
SYMMETRY WorkerSymmetry
\* Every proposal may be settled, every session over and every bound spent.
CHECK_DEADLOCK FALSE
