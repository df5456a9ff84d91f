------------------------------ MODULE MCQueue -------------------------------
(***************************************************************************)
(* Queues on small instances.                                              *)
(***************************************************************************)
EXTENDS Queue, TLC

MCTaskPriority == [t \in 1..NumTasks |-> IF t = 1 THEN 2 ELSE 5]

\* Task 2 receives from the table queues, task 1 from the dynamic queues.
MCReceivers ==
  [q \in Queues |-> IF q \in TableQueues THEN {2}
                    ELSE IF q \in DynamicQueues THEN {1} ELSE {}]

\* Both tasks receive.
MCSharedReceivers == [q \in Queues |-> IF q \in EventQueues THEN Tasks ELSE {}]

\* No action distinguishes the data.
MCSymmetry == Permutations(Data)

=============================================================================
