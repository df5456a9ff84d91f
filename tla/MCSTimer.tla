------------------------------ MODULE MCSTimer ------------------------------
(***************************************************************************)
(* The timer task and a client of lower priority.                          *)
(***************************************************************************)
EXTENDS STimer

MCTaskPriority == <<1, 2>>
=============================================================================
