------------------------------- MODULE MCHub -------------------------------
(***************************************************************************)
(* Instances of Hub for TLC.  p1 and p2 stand for two contents; nothing    *)
(* tells them apart but their names, so they are symmetric.                *)
(***************************************************************************)
EXTENDS Hub, TLC

PayloadSymmetry == Permutations(Payloads)

=============================================================================
