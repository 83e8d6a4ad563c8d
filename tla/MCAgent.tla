------------------------------ MODULE MCAgent ------------------------------
(***************************************************************************)
(* Instances of Agent for TLC: what the platforms read back.               *)
(***************************************************************************)
EXTENDS Agent

\* Every platform returns what was written.
Faithful == [n \in Nodes |-> [c \in Contents |-> c]]

=============================================================================
