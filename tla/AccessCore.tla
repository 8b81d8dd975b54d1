----------------------------- MODULE AccessCore -----------------------------
(***************************************************************************)
(* components/access_core: the code table and the attempt counter of the   *)
(* gate.  The C code is a set of functions over one ac_ctx_t; so is this   *)
(* module: every operator takes a context record and returns the record    *)
(* the function leaves behind (and its result, where it has one).  The     *)
(* modules that own the state (AttemptLimit, GateCtrl, ...) apply them.    *)
(*                                                                         *)
(* Hashes and ids are opaque: ct_equal and strncmp are equality.  Slots    *)
(* are numbered from 1, so the C code's -1 ("no slot") is 0 here.          *)
(***************************************************************************)
EXTENDS Integers

CONSTANTS
  Slots,              \* AC_MAX_SLOTS
  Ids, NoId,          \* code ids; NoId is the id of a zeroed slot
  Hashes, NoHash,     \* hashes a slot may hold; NoHash of a zeroed slot
  MaxFailedAttempts,  \* ctx->max_failed_attempts (1..20 by Kconfig)
  LockoutSeconds,     \* ctx->lockout_seconds
  TransientMax,       \* AC_TRANSIENT_MAX_S
  CounterMax          \* 255: the largest uint8_t

ASSUME PolicyAssumption ==
  /\ MaxFailedAttempts \in Nat \ {0}
  /\ LockoutSeconds \in Nat \ {0}
  /\ CounterMax \in Nat /\ MaxFailedAttempts <= CounterMax
  /\ TransientMax \in Nat \ {0}

ASSUME TableAssumption ==
  /\ Slots \in Nat \ {0}
  /\ NoId \notin Ids
  /\ NoHash \notin Hashes

SlotIndex == 1..Slots

Slot == [occupied : BOOLEAN, transient : BOOLEAN,
         id : Ids \union {NoId}, hash : Hashes \union {NoHash},
         valid_from : Int, valid_until : Int]

\* memset(slot, 0)
EmptySlot == [occupied |-> FALSE, transient |-> FALSE, id |-> NoId,
              hash |-> NoHash, valid_from |-> 0, valid_until |-> 0]

Context == [slots : [SlotIndex -> Slot],
            clock_trusted : BOOLEAN,
            failed_attempts : 0..CounterMax,
            lockout_until : Int]

Results == {"GRANTED", "UNKNOWN", "NOT_YET", "EXPIRED", "LOCKOUT", "NO_CLOCK"}

-----------------------------------------------------------------------------
\* The policy arguments of ac_init are this module's constants.
AcInit == [slots |-> [i \in SlotIndex |-> EmptySlot],
           clock_trusted |-> FALSE,
           failed_attempts |-> 0,
           lockout_until |-> 0]

AcRestoreAttempts(ac, failed, until) ==
  [ac EXCEPT !.failed_attempts = failed, !.lockout_until = until]

AcIsLockedOut(ac, now) == ac.lockout_until > now

\* Mutants of AcTick: the lift forgets the counter; the lift one second early.
AcTickKeepsCounter(ac, now) ==
  IF ac.lockout_until # 0 /\ ac.lockout_until <= now
  THEN [ac EXCEPT !.lockout_until = 0] ELSE ac

AcTickEarly(ac, now) ==
  IF ac.lockout_until # 0 /\ ac.lockout_until <= now + 1
  THEN [ac EXCEPT !.lockout_until = 0, !.failed_attempts = 0] ELSE ac

AcTick(ac, now) ==
  IF ac.lockout_until # 0 /\ ac.lockout_until <= now
  THEN [ac EXCEPT !.lockout_until = 0, !.failed_attempts = 0]
  ELSE ac

\* Mutant of RegisterFailure: the lockout arms one failure late.
RegisterFailureLate(ac, now) ==
  LET f == IF ac.failed_attempts < CounterMax THEN ac.failed_attempts + 1
                                              ELSE ac.failed_attempts
  IN  [ac EXCEPT !.failed_attempts = f,
                 !.lockout_until = IF f > MaxFailedAttempts
                                   THEN now + LockoutSeconds ELSE @]

\* The counter saturates and stays at the maximum while the lockout runs.
RegisterFailure(ac, now) ==
  LET f == IF ac.failed_attempts < CounterMax THEN ac.failed_attempts + 1
                                              ELSE ac.failed_attempts
  IN  [ac EXCEPT !.failed_attempts = f,
                 !.lockout_until = IF f >= MaxFailedAttempts
                                   THEN now + LockoutSeconds ELSE @]

\* The scan never stops early, so the last occupied slot with the hash wins.
Matches(ac, hash) ==
  {i \in SlotIndex : ac.slots[i].occupied /\ ac.slots[i].hash = hash}

LastOf(S) == CHOOSE i \in S : \A j \in S : j <= i

FirstOf(S) == CHOOSE i \in S : \A j \in S : i <= j

\* Mutant of Verdict: the last second is one too late.
VerdictLate(slot, now) ==
  IF now < slot.valid_from THEN "NOT_YET"
  ELSE IF now > slot.valid_until + 1 THEN "EXPIRED"
  ELSE "GRANTED"

\* Verdict of the matched slot: outside its window a code costs no attempt.
Verdict(slot, now) ==
  IF now < slot.valid_from THEN "NOT_YET"
  ELSE IF now > slot.valid_until THEN "EXPIRED"
  ELSE "GRANTED"

AcEvaluate(ac, hash, now) ==
  LET ticked == AcTick(ac, now)
      found  == Matches(ticked, hash)
      v      == Verdict(ticked.slots[LastOf(found)], now)
  IN  IF ~ac.clock_trusted THEN [ac |-> ac, result |-> "NO_CLOCK"]
      ELSE IF AcIsLockedOut(ticked, now)
           THEN [ac |-> ticked, result |-> "LOCKOUT"]
      ELSE IF found = {}
           THEN [ac |-> RegisterFailure(ticked, now), result |-> "UNKNOWN"]
      ELSE IF v = "GRANTED"
           THEN [ac |-> AcRestoreAttempts(ticked, 0, 0), result |-> v]
      ELSE [ac |-> ticked, result |-> v]

-----------------------------------------------------------------------------
ById(ac, id) == {i \in SlotIndex : ac.slots[i].occupied /\ ac.slots[i].id = id}

FreeSlots(ac) == {i \in SlotIndex : ~ac.slots[i].occupied}

\* Replace the slot that has the id, else take the first free one, else 0.
TargetSlot(ac, id) ==
  IF ById(ac, id) # {} THEN FirstOf(ById(ac, id))
  ELSE IF FreeSlots(ac) # {} THEN FirstOf(FreeSlots(ac))
  ELSE 0

Upsert(ac, id, hash, from, until, transient) ==
  LET idx == TargetSlot(ac, id)
  IN  IF until <= from \/ idx = 0
      THEN [ac |-> ac, slot |-> 0]
      ELSE [ac |-> [ac EXCEPT !.slots[idx] =
                      [occupied |-> TRUE, transient |-> transient, id |-> id,
                       hash |-> hash, valid_from |-> from,
                       valid_until |-> until]],
            slot |-> idx]

AcUpsert(ac, id, hash, from, until) == Upsert(ac, id, hash, from, until, FALSE)

AcUpsertTransient(ac, id, hash, from, until) ==
  Upsert(ac, id, hash, from,
         IF until > from + TransientMax THEN from + TransientMax ELSE until,
         TRUE)

AcRevokeTransient(ac) ==
  [ac EXCEPT !.slots = [i \in SlotIndex |->
     IF ac.slots[i].occupied /\ ac.slots[i].transient
     THEN EmptySlot ELSE ac.slots[i]]]

AcRevoke(ac, id) ==
  IF ById(ac, id) = {} THEN ac
  ELSE [ac EXCEPT !.slots[FirstOf(ById(ac, id))] = EmptySlot]
=============================================================================
