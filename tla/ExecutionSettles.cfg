\* Fair threads: claims settle and the fence is not left locked, whatever
\* stops, closes, expires or fails beside them; nothing starts once its target,
\* which expires before its session, is over.
SPECIFICATION FairSpec
CONSTANTS
    s1 = s1
    p1 = p1
    p2 = p2
    w1 = w1
    w2 = w2
    o1 = o1
    Nobody = Nobody
    NoProposal = NoProposal
    Sessions = {s1}
    Proposals = {p1, p2}
    Workers = {w1, w2}
    Operators = {o1}
    SessionOf <- MCOneSessionOf
    SessionExpiry <- MCLateExpiry
    TargetExpiry <- MCShortExpiry
    ApprovalTtl = 2
    MaxNow = 2
    MaxStops = 1
    MaxFaults = 1
    MaxCrashes = 0
PROPERTIES
    StartBeforeExpiry
    ClaimSettles
    FenceIsReleased
\* Every proposal may be settled, every session over and every bound spent.
CHECK_DEADLOCK FALSE
