----------------------------- MODULE MCSetupTools -----------------------------
(* Two installations, an artifact of one chunk, one redirect, and commands   *)
(* that write to one stream: what is captured, or one chunk more, or more    *)
(* than the capture and the pipe hold together.                              *)
EXTENDS SetupTools

MCWrites(out, err) == [s \in Streams |-> IF s = "out" THEN out ELSE err]
MCOutputs == {MCWrites(1, 0), MCWrites(2, 0), MCWrites(0, 3)}

MCAgendas == {<<"install", "install">>, <<"pull">>, <<"enable">>}
=============================================================================
