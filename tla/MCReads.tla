------------------------------ MODULE MCReads ------------------------------
(***************************************************************************)
(* Instances of HubReads for TLC.  The payloads are symmetric.             *)
(***************************************************************************)
EXTENDS HubReads, TLC

PayloadSymmetry == Permutations(Payloads)

=============================================================================
