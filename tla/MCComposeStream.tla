-------------------------- MODULE MCComposeStream --------------------------
(* Small instances of ComposeStream: silent, short and clogging outputs.   *)
EXTENDS ComposeStream

CONSTANTS stdout, stderr

MCPipes == {stdout, stderr}

\* No line; two lines; a line after an overlong one (the tail still fits the
\* pipe); an overlong line whose tail does not fit.
MCPipeOutputs == {[len |-> 0, long |-> 0], [len |-> 2, long |-> 0],
                  [len |-> 3, long |-> 2], [len |-> 3, long |-> 1]}

MCOutputs == [MCPipes -> MCPipeOutputs]
=============================================================================
