------------------------------- MODULE MCMbox -------------------------------
(***************************************************************************)
(* Mailboxes on small instances.                                           *)
(***************************************************************************)
EXTENDS Mbox

MCTaskPriority ==
  [t \in 1..NumTasks |-> IF t = 1 THEN 2 ELSE IF t = 2 THEN 5 ELSE 1]

=============================================================================
