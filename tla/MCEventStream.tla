--------------------------- MODULE MCEventStream ---------------------------
(***************************************************************************)
(* EventStream on small instances.                                         *)
(***************************************************************************)
EXTENDS EventStream

\* Web runs the conversation, or a worker does.
Everywhere == {[remote |-> FALSE, incidents |-> 2], [remote |-> TRUE, incidents |-> 1]}

\* Nothing goes wrong.
Undisturbed == {[remote |-> FALSE, incidents |-> 0]}
=============================================================================
