---------------------------- MODULE PersistRing ----------------------------
(***************************************************************************)
(* components/persist_store/persist_ring.c and the half of persist_store.c *)
(* that uses it: the attempt record in a ring of EEPROM slots, one page    *)
(* each, every save in the slot after the newest with a sequence number    *)
(* one higher; a boot takes the valid record with the highest number.      *)
(*                                                                         *)
(* A page is a record, or NoRecord: blank, or torn by a write that was     *)
(* interrupted, which the CRC tells (assumed of crc16).  What is shown is  *)
(* that the ring keeps the promise of AttemptStore.                        *)
(***************************************************************************)
EXTENDS Integers

CONSTANTS
  RingSlots,  \* PR_SLOTS
  Values,     \* contents of an attempt record (pr_state_t)
  Initial,    \* what the gate starts from when there is no record
  MaxSeq      \* bound on the sequence numbers

ASSUME RingAssumption ==
  /\ RingSlots \in Nat \ {0, 1}
  /\ Initial \in Values
  /\ MaxSeq \in Nat

VARIABLES
  chip,     \* the ring on the EEPROM
  cur,      \* s_cur: slot and sequence number of the newest record
  ready,    \* persist_init succeeded on this boot
  value,    \* the attempt record in RAM
  pending   \* handle() has still to save it

vars == <<chip, cur, ready, value, pending>>

Ring == 0..(RingSlots - 1)

Record == [seq : Nat, value : Values]

\* pr_decode fails.  Sequence numbers of records start at 1.
NoRecord == [seq |-> 0, value |-> Initial]

NoCursor == [slot |-> -1, seq |-> 0]

TypeOK ==
  /\ chip \in [Ring -> Record]
  /\ cur \in [slot : Ring \union {-1}, seq : Nat]
  /\ ready \in BOOLEAN
  /\ value \in Values
  /\ pending \in BOOLEAN

-----------------------------------------------------------------------------
\* Mutant of Newest: the scan keeps the first valid record it meets.
FirstValid(c) ==
  CHOOSE i \in Ring : \A j \in Ring :
    (c[i].seq # 0 /\ (c[j].seq # 0 => i <= j)) \/ \A k \in Ring : c[k].seq = 0

\* pr_find_latest: the first of the records with the highest number.
Newest(c) ==
  CHOOSE i \in Ring : \A j \in Ring :
    c[j].seq < c[i].seq \/ (c[j].seq = c[i].seq /\ i <= j)

CursorOf(c) ==
  IF c[Newest(c)].seq = 0 THEN NoCursor
  ELSE [slot |-> Newest(c), seq |-> c[Newest(c)].seq]

\* What persist_load leaves in RAM.
Restored(c) == c[Newest(c)].value

\* Mutants of Advance: the newest record is overwritten; the number is not
\* raised when the ring wraps; the slot does not wrap.
AdvanceInPlace(c) ==
  [slot |-> IF c.slot < 0 THEN 0 ELSE c.slot, seq |-> c.seq + 1]

AdvanceStuck(c) ==
  [slot |-> IF c.slot < 0 THEN 0 ELSE (c.slot + 1) % RingSlots,
   seq |-> IF c.slot = RingSlots - 1 THEN c.seq ELSE c.seq + 1]

AdvanceNoWrap(c) ==
  [slot |-> IF c.slot < 0 THEN 0 ELSE c.slot + 1, seq |-> c.seq + 1]

\* pr_advance
Advance(c) ==
  [slot |-> IF c.slot < 0 THEN 0 ELSE (c.slot + 1) % RingSlots,
   seq |-> c.seq + 1]

Target == Advance(cur)

Written == [chip EXCEPT ![Target.slot] = [seq |-> Target.seq, value |-> value]]

Torn == [chip EXCEPT ![Target.slot] = NoRecord]

\* A factory-fresh chip.
Init ==
  /\ chip = [i \in Ring |-> NoRecord]
  /\ cur = NoCursor
  /\ ready = TRUE
  /\ value = Initial
  /\ pending = TRUE

\* The gate's counter or lockout changes, under the mutex.
Change(v) ==
  /\ ~pending
  /\ value' = v
  /\ pending' = TRUE
  /\ UNCHANGED <<chip, cur, ready>>

\* persist_save() = ESP_OK.  After a failed persist_init the cursor is
\* still -1: the save goes to slot 0 with number 1.
PersistSave ==
  /\ pending
  /\ Target.seq <= MaxSeq
  /\ chip' = Written
  /\ cur' = Target
  /\ pending' = FALSE
  /\ UNCHANGED <<ready, value>>

\* persist_save() fails: no such device, or an I2C error before, in or after
\* the page.  The cursor stays, so the next save goes to the same slot.
PersistSaveFails ==
  /\ pending
  /\ Target.seq <= MaxSeq
  /\ chip' \in {chip, Torn, Written}
  /\ pending' = FALSE
  /\ UNCHANGED <<cur, ready, value>>

\* Power off, maybe in the middle of a write; then persist_init(), whose
\* read of the ring may fail, and the save that ends boot_persist().
Reboot(ok) ==
  /\ chip' \in IF pending /\ Target.seq <= MaxSeq THEN {chip, Torn, Written}
                                                ELSE {chip}
  /\ ready' = ok
  /\ cur' = IF ok THEN CursorOf(chip') ELSE NoCursor
  /\ value' = IF ok THEN Restored(chip') ELSE Initial
  /\ pending' = ok

Next ==
  \/ \E v \in Values : Change(v)
  \/ PersistSave
  \/ PersistSaveFails
  \/ \E ok \in BOOLEAN : Reboot(ok)

Spec == Init /\ [][Next]_vars

-----------------------------------------------------------------------------
\* The cursor points at the newest record on the chip, whatever writes were
\* lost before: every other slot is older or holds no record, except the slot
\* the next save goes to, which may hold what a failed save left.
CursorIsNewest ==
  ready =>
    /\ cur.slot = -1 => cur.seq = 0
    /\ cur.slot # -1 => chip[cur.slot].seq = cur.seq /\ cur.seq # 0
    /\ \A i \in Ring \ {cur.slot, Target.slot} :
         chip[i].seq = 0 \/ chip[i].seq < cur.seq
    /\ Target.slot # cur.slot /\ chip[Target.slot].seq <= cur.seq + 1

\* No two slots carry the same number, so "the highest" names one record,
\* even after boots that wrote without having read the ring.
NumbersDiffer ==
  \A i, j \in Ring : i # j /\ chip[i].seq # 0 => chip[i].seq # chip[j].seq

\* The order of the numbers is the order of the saves, for pr_find_latest and for
\* persist_save alike.
RingOrdered == CursorIsNewest /\ NumbersDiffer

\* The ring keeps the promise of AttemptStore.
Acknowledged ==
  IF ready /\ cur.slot # -1 THEN chip[cur.slot].value
  ELSE IF ready THEN Initial ELSE Restored(chip)

Store == INSTANCE AttemptStore
           WITH latest <- Restored(chip), durable <- Acknowledged

KeepsAttempts == Store!Spec
=============================================================================
