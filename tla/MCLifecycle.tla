---------------------------- MODULE MCLifecycle ----------------------------
(***************************************************************************)
(* The instance of HubLifecycle for TLC.  Payloads are not made symmetric: *)
(* most of what the run checks is liveness.                                *)
(***************************************************************************)
EXTENDS HubLifecycle

=============================================================================
