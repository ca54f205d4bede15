------------------------- MODULE MCProposalPipeline -------------------------
(* Exports with two services, two elements of one port, a service no action  *)
(* fits beside an impossible port, a closed port and an overlong hint.       *)
(* Sizes are scaled down, in the order of the source's.                      *)
EXTENDS ProposalPipeline

MCElement(protocol, port, state, hint) ==
    [protocol |-> protocol, port |-> port, state |-> state, hint |-> hint]
MCExports ==
    {{MCElement("tcp", 80, "open", "http"), MCElement("tcp", 22, "open", "ssh")},
     {MCElement("tcp", 80, "open", "http"), MCElement("tcp", 80, "open", "ssl")},
     {MCElement("udp", 53, "open", "other"), MCElement("tcp", 0, "open", "http")},
     {MCElement("tcp", 80, "open", "ssl"), MCElement("tcp", 22, "closed", "ssh")},
     {MCElement("tcp", 9, "open", "overlong")}}

MCArguments(target, port, timeout, extra) ==
    [target_id |-> target, port |-> port, timeout_seconds |-> timeout,
     extra |-> extra]
MCWritten ==
    {MCArguments("ours", port, timeout, FALSE) :
        port \in {80, 22, 53}, timeout \in {-1, 10}}
    \cup {MCArguments("other", 80, -1, FALSE), MCArguments("absent", 22, 5, FALSE),
          MCArguments("ours", -1, -1, FALSE), MCArguments("ours", 0, -1, FALSE),
          MCArguments("ours", 22, 11, FALSE), MCArguments("ours", 22, 0, FALSE),
          MCArguments("ours", 80, -1, TRUE)}

MCOutputs ==
    {o \in [length: {0, 3, 5, 14}, width: {1, 4}, line: {0, 2, 3, 5},
            lower: BOOLEAN] :
        o.line <= o.length}
=============================================================================
