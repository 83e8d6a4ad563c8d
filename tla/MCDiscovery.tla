---------------------------- MODULE MCDiscovery ----------------------------
(***************************************************************************)
(* The instance of Discovery for TLC.                                      *)
(***************************************************************************)
EXTENDS Discovery

MCFlags == {[scheme |-> "http", dns |-> CHOOSE n \in Names : TRUE]}

=============================================================================
