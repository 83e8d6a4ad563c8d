------------------------------ MODULE MCStream ------------------------------
(***************************************************************************)
(* Instances of HubStream for TLC.  Payloads and clients are symmetric.    *)
(***************************************************************************)
EXTENDS HubStream, TLC

PayloadSymmetry == Permutations(Payloads)

\* No action reads the variables that only the properties of Hub use, and no
\* property of HubStream does: states that differ in them alone are one.
StreamView == <<up, run, memVars, clock, storeVars, streamVars>>

=============================================================================
