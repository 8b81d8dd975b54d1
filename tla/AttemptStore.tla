---------------------------- MODULE AttemptStore ----------------------------
(***************************************************************************)
(* What persist_store promises of each thing it keeps - the attempt record *)
(* the attempt limit is built on, and each code slot: a cell that keeps    *)
(* `value` across power cuts.                                              *)
(*                                                                         *)
(* An acknowledged write lasts.  A write that fails, or that a power cut   *)
(* interrupts, may leave the cell as it was, may have taken effect, or may *)
(* bring back the last acknowledged record; it never brings back anything  *)
(* older, and never anything that was not written.  A boot that cannot     *)
(* read the chip starts from Initial, and what it writes from then on      *)
(* leaves some record behind: persist_store does not say which.            *)
(***************************************************************************)
CONSTANTS
  Values,   \* records
  Initial   \* what the gate holds without one: no failures, no code

VARIABLES
  value,    \* what the gate holds in RAM and wants kept
  latest,   \* what a boot would restore now
  durable,  \* the last acknowledged, or restored, record
  ready     \* this boot could read the chip

vars == <<value, latest, durable, ready>>

Init ==
  /\ value = Initial
  /\ latest = Initial
  /\ durable = Initial
  /\ ready = TRUE

\* The gate changes what it holds.
Change ==
  /\ value' \in Values
  /\ UNCHANGED <<latest, durable, ready>>

Write ==
  /\ ready
  /\ latest' = value
  /\ durable' = value
  /\ UNCHANGED <<value, ready>>

WriteFails ==
  /\ ready
  /\ latest' \in {latest, value, durable}
  /\ UNCHANGED <<value, durable, ready>>

WriteBlind ==
  /\ ~ready
  /\ latest' \in Values
  /\ durable' = latest'
  /\ UNCHANGED <<value, ready>>

\* A power cycle; it may interrupt a write.
Restart ==
  /\ ready' \in BOOLEAN
  /\ latest' \in IF ready THEN {latest, value, durable} ELSE Values
  /\ durable' = latest'
  /\ value' = IF ready' THEN latest' ELSE Initial

Next == Change \/ Write \/ WriteFails \/ WriteBlind \/ Restart

Spec == Init /\ [][Next]_vars
=============================================================================
