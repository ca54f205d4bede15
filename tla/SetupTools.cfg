SPECIFICATION FairSpec
CONSTANTS
    Size = 1
    MaxHops = 2
    Outputs <- MCOutputs
    Capture = 1
    PipeRoom = 1
    Agendas <- MCAgendas
INVARIANTS OneLookup CompleteOrFlagged NoChildForgotten
PROPERTIES RunsVerified RestartNotMissed OperationEnds CommandEnds ReadersEnd
CHECK_DEADLOCK FALSE
