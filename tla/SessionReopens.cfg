\* A target registered beside a close.
SPECIFICATION Spec
CONSTANTS
    Sessions = {s1}
    Confirmed = {s1}
    Requests = {r1, r2}
    MaxRequests = 4
PROPERTIES
    OverIsFinal
SYMMETRY RequestSymmetry
\* The bound on requests may be spent.
CHECK_DEADLOCK FALSE
