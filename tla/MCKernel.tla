------------------------------ MODULE MCKernel ------------------------------
(***************************************************************************)
(* The core alone, on small instances.                                     *)
(***************************************************************************)
EXTENDS Kernel

\* Handles in an order different from that of the priorities.
MCTaskPriority == [t \in 1..NumTasks |-> IF t = 1 THEN 2 ELSE IF t = 2 THEN 5 ELSE 1]
=============================================================================
