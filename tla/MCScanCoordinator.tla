-------------------------- MODULE MCScanCoordinator --------------------------
(* Instances of ScanCoordinator for TLC. *)
EXTENDS ScanCoordinator

\* Ranges that the step divides and that it does not, one point, and a range
\* shorter than the step.
MCScans ==
  {[start |-> -1, stop |-> 1, step |-> 1], [start |-> 0, stop |-> 3, step |-> 2],
   [start |-> 1, stop |-> 1, step |-> 1], [start |-> 0, stop |-> 1, step |-> 2]}
=============================================================================
