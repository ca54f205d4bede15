SPECIFICATION FairSpec
CONSTANTS
    p1 = p1
    Proposals = {p1}
    Exports <- MCExports
    Written <- MCWritten
    MaxImports = 2
    Retries = 1
    InspectedChars = 2
    ActionChars = 4
    CaptureBytes = 12
    Outputs <- MCOutputs
INVARIANTS SentIsSupported SentAsShown StaysApprovable RenderAgrees
    FallbackFindsStep FormatMatchesChecks EvidenceIsWhole
PROPERTY AskSettles
CHECK_DEADLOCK FALSE
