----------------------------- MODULE MCTgClient -----------------------------
(***************************************************************************)
(* A code is added and revoked, and a code of the console's range follows. *)
(***************************************************************************)
EXTENDS TgClient

MCMessage(op, id) ==
  [op |-> op, id |-> id, hash |-> "h", valid_from |-> 0, valid_until |-> 1]

MCScript == <<MCMessage("add", "a"), MCMessage("rev", "a"), MCMessage("add", "dev")>>
=============================================================================
