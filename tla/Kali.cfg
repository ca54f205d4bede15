SPECIFICATION Spec
CONSTANTS
    MaxAbandoned = 2
    Actions = {a1, a2}
SYMMETRY ActionSymmetry
INVARIANTS ForeignNeverMarked ActionsStayInside UnmarkedIsLeftover
