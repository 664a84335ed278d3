--------------------------- MODULE MCLeaderLease ----------------------------
(***************************************************************************)
(* LeaderLease on small instances.                                          *)
(***************************************************************************)
EXTENDS LeaderLease

CONSTANTS s1, s2
=============================================================================
