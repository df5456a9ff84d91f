---------------------------- MODULE SAScheduler ----------------------------
(***************************************************************************)
(* The successive approximation scheduler of BRTOS.c: the priority of the  *)
(* most significant bit of a priority list.  A list of type PriorityType   *)
(* (OSReadyList, OSBlockedList, OSEventWaitList) is modelled by the set of *)
(* its bit positions; PriorityMask[p] is {p}, "| PriorityMask[p]" is union *)
(* and "& ~PriorityMask[p]" is set difference.                             *)
(***************************************************************************)
EXTENDS Integers

\* configMAX_TASK_PRIORITY with NUMBER_OF_PRIORITIES > 16.
MAX_PRIORITY == 31

Priorities == 0..MAX_PRIORITY

\* The comparison "ReadyList > 2^k - 1" of the C code: a bit at or above k.
Above(ReadyList, k) == \E b \in ReadyList : b >= k

(***************************************************************************)
(* The decision tree.  SAn decides among the n priorities from base on,    *)
(* halving the interval with one comparison, as the nested ifs do.         *)
(***************************************************************************)
SA2(ReadyList, base) ==
  IF Above(ReadyList, base + 1) THEN base + 1 ELSE base

\* A possible slip in one threshold of the tree, 0x7 in place of 0x3.
SA4OffByOne(ReadyList, base) ==
  IF Above(ReadyList, base + 3)
    THEN SA2(ReadyList, base + 2) ELSE SA2(ReadyList, base)

SA4(ReadyList, base) ==
  IF Above(ReadyList, base + 2)
    THEN SA2(ReadyList, base + 2) ELSE SA2(ReadyList, base)

SA8(ReadyList, base) ==
  IF Above(ReadyList, base + 4)
    THEN SA4(ReadyList, base + 4) ELSE SA4(ReadyList, base)

SA16(ReadyList, base) ==
  IF Above(ReadyList, base + 8)
    THEN SA8(ReadyList, base + 8) ELSE SA8(ReadyList, base)

SAScheduler(ReadyList) ==
  IF Above(ReadyList, 16) THEN SA16(ReadyList, 16) ELSE SA16(ReadyList, 0)

=============================================================================
