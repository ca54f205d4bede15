SPECIFICATION Spec
CONSTANTS
    MaxAbandoned = 2
    Actions = {a1}
PROPERTY MismatchIsForeign
