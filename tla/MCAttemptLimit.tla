--------------------------- MODULE MCAttemptLimit ---------------------------
(***************************************************************************)
(* A one-slot table holding one code, valid from second 1 to second 6, or  *)
(* no code at all; one hash that matches nothing.                          *)
(***************************************************************************)
EXTENDS AttemptLimit

MCCode == [occupied |-> TRUE, transient |-> FALSE, id |-> "a",
           hash |-> "good", valid_from |-> 1, valid_until |-> 6]

MCTables == {[i \in SlotIndex |-> MCCode], [i \in SlotIndex |-> EmptySlot]}
=============================================================================
