----------------------------- MODULE GuestTable -----------------------------
(***************************************************************************)
(* The code table as the backend's writers see it: which codes are guests' *)
(* and which are the console's own, and the replacement of the first by a  *)
(* whole set (the second half of sync_apply).                              *)
(***************************************************************************)
EXTENDS AccessCore, Sequences

Guests(ac) ==
  {[id |-> ac.slots[i].id, hash |-> ac.slots[i].hash,
    valid_from |-> ac.slots[i].valid_from, valid_until |-> ac.slots[i].valid_until] :
     i \in {j \in SlotIndex : ac.slots[j].occupied /\ ~ac.slots[j].transient}}

Transients(ac) ==
  {ac.slots[i] : i \in {j \in SlotIndex : ac.slots[j].occupied /\ ac.slots[j].transient}}

-----------------------------------------------------------------------------
\* Mutants of WithoutGuests: the set is merged in; the dev codes go too.
WithoutGuestsMerged(ac) == ac

WithoutGuestsAtAll(ac) == [ac EXCEPT !.slots = [i \in SlotIndex |-> EmptySlot]]

\* Every slot that holds a guest code is free.
WithoutGuests(ac) ==
  [ac EXCEPT !.slots = [i \in SlotIndex |->
     IF ac.slots[i].occupied /\ ~ac.slots[i].transient
     THEN EmptySlot ELSE ac.slots[i]]]

\* ac_upsert for each entry in order; one that does not fit is skipped.
Install(ac, set) ==
  LET upserted[n \in 0..Len(set)] ==
        IF n = 0 THEN ac
        ELSE AcUpsert(upserted[n - 1], set[n].id, set[n].hash,
                      set[n].valid_from, set[n].valid_until).ac
  IN  upserted[Len(set)]
=============================================================================
