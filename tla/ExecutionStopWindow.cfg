\* The stop is stored between the fence's grant and the dispatch.
SPECIFICATION Spec
CONSTANTS
    s1 = s1
    p1 = p1
    p2 = p2
    w1 = w1
    w2 = w2
    o1 = o1
    Nobody = Nobody
    NoProposal = NoProposal
    Sessions = {s1}
    Proposals = {p1}
    Workers = {w1, w2}
    Operators = {o1}
    SessionOf <- MCSingleJob
    SessionExpiry <- MCLateExpiry
    TargetExpiry <- MCLateExpiry
    ApprovalTtl = 2
    MaxNow = 2
    MaxStops = 2
    MaxFaults = 0
    MaxCrashes = 0
PROPERTIES
    NothingSentWhileStopped
\* Every proposal may be settled, every session over and every bound spent.
CHECK_DEADLOCK FALSE
