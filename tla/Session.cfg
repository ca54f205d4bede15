\* Two requests at a time on a confirmed and an unconfirmed session.
SPECIFICATION Spec
CONSTANTS
    Sessions = {s1, s2}
    Confirmed = {s1}
    Requests = {r1, r2}
    MaxRequests = 5
INVARIANTS
    AuditMatchesRecords
    IInv
PROPERTIES
    ImplementsContract
SYMMETRY RequestSymmetry
\* The bound on requests may be spent.
CHECK_DEADLOCK FALSE
