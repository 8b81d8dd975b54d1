----------------------------- MODULE MCGateCtrl -----------------------------
(***************************************************************************)
(* A pad with two keys and codes of three; one slot, holding nothing or    *)
(* the code 112, valid from second 1 to 2.  Every other entry hashes to    *)
(* "other".                                                                *)
(***************************************************************************)
EXTENDS GateCtrl

MCHashOf == [c \in [1..CodeLen -> Keys \union {NoKey}] |->
               IF c = <<1, 1, 2>> THEN "good" ELSE "other"]

MCCode == [occupied |-> TRUE, transient |-> FALSE, id |-> "a",
           hash |-> "good", valid_from |-> 1, valid_until |-> 2]

MCTables == {[i \in SlotIndex |-> MCCode], [i \in SlotIndex |-> EmptySlot]}

MCNoticeSpan == [n \in Notices |-> IF n = "DENIED" THEN 1 ELSE 2]
=============================================================================
