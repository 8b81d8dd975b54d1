------------------------------- MODULE Millis -------------------------------
(***************************************************************************)
(* The 32-bit millisecond readings every timer of the firmware compares.   *)
(* A reading is the time since boot modulo Wrap.  Three idioms compare     *)
(* them, each right only for the spans it is meant for: Elapsed below      *)
(* Wrap, Reached and NotBefore below half of it.                           *)
(***************************************************************************)
EXTENDS Integers

CONSTANT Wrap  \* 2^32 on the chip

ASSUME WrapAssumption == Wrap \in Nat \ {0}

Reading == 0..(Wrap - 1)

\* (uint32_t)(now - since) >= span
Elapsed(now_ms, since_ms, span_ms) == (now_ms - since_ms) % Wrap >= span_ms

\* Mutant of Reached: the two readings compared without the wrap.
ReachedNoWrap(deadline_ms, now_ms) == deadline_ms <= now_ms

\* (int32_t)(deadline - now) <= 0
Reached(deadline_ms, now_ms) ==
  LET d == (deadline_ms - now_ms) % Wrap IN d = 0 \/ 2 * d >= Wrap

\* (int32_t)(now - since) >= 0
NotBefore(now_ms, since_ms) == 2 * ((now_ms - since_ms) % Wrap) < Wrap
=============================================================================
