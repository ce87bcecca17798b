------------------------------- MODULE MCPipe -------------------------------
(* Pipes of every mode with three subtasks. *)
EXTENDS Pipe

MCModes == AllModes

MCExitReasons == {Nil, "failure"}

\* A pipe within a pipe has a parent that may end well.
MCParentCauses == {ErrOk, "cancelled"}
=============================================================================
