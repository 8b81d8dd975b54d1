----------------------------- MODULE MCCodeSync -----------------------------
(***************************************************************************)
(* A table of two slots, and an EEPROM that holds a code of the backend    *)
(* and one of `code persist`, or (with room) a code of the backend that    *)
(* the last set drops.  In MCSetOf one code replaces another, the one on   *)
(* the EEPROM.  In MCSetOfWithBad a set of two may meet a dev code, the    *)
(* next has an entry that is not the backend's to send, and the last one   *)
(* an empty window.                                                        *)
(***************************************************************************)
EXTENDS CodeSync

MCEntry(id) == [id |-> id, hash |-> "h", valid_from |-> 0, valid_until |-> 1]

\* A window that the parser accepts and ac_upsert refuses.
MCEmptyWindow == [MCEntry("c") EXCEPT !.valid_until = 0]

MCSetOf == [g \in 0..1 |-> IF g = 0 THEN <<MCEntry("a")>> ELSE <<MCEntry("b")>>]

MCSetOfWithBad ==
  [g \in 0..2 |-> CASE g = 0 -> <<MCEntry("a"), MCEntry("b")>>
                    [] g = 1 -> <<MCEntry("a"), MCEntry("dev")>>
                    [] g = 2 -> <<MCEmptyWindow, MCEntry("b")>>]

MCStored(id) == [occupied |-> TRUE, transient |-> FALSE, id |-> id,
                 hash |-> "h", valid_from |-> 0, valid_until |-> 1]

MCImages == {<<MCStored("a"), MCStored("t")>>}

MCImagesWithRoom == {<<EmptySlot, MCStored("a")>>}
=============================================================================
