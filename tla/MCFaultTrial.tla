---------------------------- MODULE MCFaultTrial ----------------------------
(***************************************************************************)
(* FaultTrial with the defaults of the three benches, rounded to units of   *)
(* 0.7 s: the half period of the flapping arm, and a seventh of the lease.  *)
(***************************************************************************)
EXTENDS FaultTrial

\* The hypotheses of the theorems about the leader trials.
ASSUME DefaultsAreTimely == Timely /\ Measured
=============================================================================
