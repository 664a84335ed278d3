----------------------------- MODULE EpochFence -----------------------------
(***************************************************************************)
(* fenceGuard of internal/broker/scripts.go, the first statement of every   *)
(* script that only the scheduler leader may run.  Redis remembers the      *)
(* highest epoch that has written; a positive epoch below it is refused, a  *)
(* higher one becomes the new floor.  NoEpoch, leader election switched     *)
(* off, passes and moves nothing.                                           *)
(***************************************************************************)
EXTENDS Integers

VARIABLE fence   \* highest epoch that has written

\* The epoch of a write made while leader election is off, and of a retry.
NoEpoch == 0

\* Defect: the fence is never consulted.
DefectNeverFenced(epoch) == FALSE

\* Defect: an epoch equal to the fence is refused as well.
DefectFencedOrEqual(epoch) == epoch > 0 /\ epoch <= fence

Fenced(epoch) == epoch > 0 /\ epoch < fence

\* Defect: the floor is never raised.
DefectNeverRaise(epoch) == fence' = fence

RaiseFence(epoch) == fence' = IF epoch > fence THEN epoch ELSE fence
=============================================================================
