---------------------------- MODULE AttemptLimit ----------------------------
(***************************************************************************)
(* The attempt limit of the gate across power cuts: ac_evaluate and        *)
(* ac_tick change the counter and the lockout in RAM, gate_ctrl reports    *)
(* the change, app_main's handle() writes it to the EEPROM later in the    *)
(* same loop iteration, and boot_persist() reads it back.                  *)
(*                                                                         *)
(* Between the change and the write `pending` holds: the main task has the *)
(* mutex, so no other submission or tick can run, but the supply can fail  *)
(* (Boot), the write can fail (SaveAttemptsFails) and the wall clock, which*)
(* SNTP and the console set from other tasks, can move.  The ring on the   *)
(* chip is abstracted to two pairs, the one a boot would restore now and   *)
(* the last one whose write was acknowledged; AttemptStore states what the *)
(* model assumes of it, and PersistRing shows that the ring keeps it.      *)
(*                                                                         *)
(* `hist` is a history variable, read by no action: what happened since    *)
(* the last granted code.                                                  *)
(***************************************************************************)
EXTENDS AccessCore

CONSTANTS
  Guesses,     \* hashes that can be typed (a superset of Hashes)
  Tables,      \* contents of the code table; no action here changes it
  MaxNow,      \* bound on the wall clock
  MaxJumps,    \* bound on the steps that set the clock
  MaxLapses    \* bound on writes that fail or are interrupted

ASSUME BoundsAssumption ==
  /\ MaxNow \in Nat /\ MaxJumps \in Nat /\ MaxLapses \in Nat
  /\ Tables \subseteq [SlotIndex -> Slot]

VARIABLES
  access,   \* s_access
  saved,    \* the attempt records on the chip
  eeprom,   \* persist_init succeeded on this boot
  pending,  \* gate_out_t.persist_attempts, not yet handled
  now,      \* time(NULL); not read while the clock is not trusted
  jumps,    \* how often the clock was set
  hist      \* history since the last grant

vars == <<access, saved, eeprom, pending, now, jumps, hist>>

AttemptPair == [failed : 0..CounterMax, until : Int]

\* The record a boot would restore; the last one acknowledged.
Copies == {"latest", "durable"}

Both(p) == [k \in Copies |-> p]

PairOf(ac) == [failed |-> ac.failed_attempts, until |-> ac.lockout_until]

\* wrong: verdicts UNKNOWN; arms: lockouts armed; forward: seconds the clock
\* moved forward; lapses: writes that failed or were cut off; resets: boots
\* that found no EEPROM.
NoHistory == [wrong |-> 0, arms |-> 0, forward |-> 0, lapses |-> 0, resets |-> 0]

History == [wrong : Nat, arms : Nat, forward : Nat, lapses : Nat, resets : Nat]

TypeOK ==
  /\ access \in Context
  /\ saved \in [Copies -> AttemptPair]
  /\ eeprom \in BOOLEAN
  /\ pending \in BOOLEAN
  /\ now \in Nat
  /\ jumps \in Nat
  /\ hist \in History

Init ==
  /\ \E t \in Tables, trusted \in BOOLEAN :
       access = [AcInit EXCEPT !.slots = t, !.clock_trusted = trusted]
  /\ saved = Both(PairOf(AcInit))
  /\ eeprom = TRUE
  /\ pending = FALSE
  /\ now = 0
  /\ jumps = 0
  /\ hist = NoHistory

\* The counter is at the maximum exactly while a lockout is armed.
Coupled(p) ==
  /\ p.failed <= MaxFailedAttempts
  /\ (p.failed = MaxFailedAttempts) <=> (p.until # 0)

-----------------------------------------------------------------------------
\* attempts_changed() against the values read before the call.
AttemptsChanged(ac) == PairOf(ac) # PairOf(access)

\* submit(): nine keys were typed, their hash is h.
\* (The bound keeps every lockout deadline within MaxNow.)
Submit(h) ==
  LET e == AcEvaluate(access, h, now)
  IN  /\ ~pending
      /\ now + LockoutSeconds <= MaxNow
      /\ access' = e.ac
      /\ pending' = AttemptsChanged(e.ac)
      /\ hist' = CASE e.result = "GRANTED" -> NoHistory
                   [] e.result = "UNKNOWN" ->
                        [hist EXCEPT !.wrong = @ + 1,
                                     !.arms = IF e.ac.lockout_until # 0
                                              THEN @ + 1 ELSE @]
                   [] OTHER -> hist
      /\ UNCHANGED <<saved, eeprom, now, jumps>>

\* Mutant of GateTick: the ui ticks, access_core does not.
GateTickUiOnly ==
  /\ ~pending
  /\ UNCHANGED vars

\* gate_tick(): the lockout lifts without a keypress.
GateTick ==
  /\ ~pending
  /\ access.clock_trusted
  /\ access' = AcTick(access, now)
  /\ pending' = AttemptsChanged(access')
  /\ UNCHANGED <<saved, eeprom, now, jumps, hist>>

\* handle() -> persist_attempts() -> persist_save().
SaveAttempts ==
  /\ pending
  /\ eeprom
  /\ saved' = Both(PairOf(access))
  /\ pending' = FALSE
  /\ UNCHANGED <<access, eeprom, now, jumps, hist>>

\* What a write that is not acknowledged may leave to be restored: the slot
\* untouched, written or torn.
Outcomes == {saved["latest"], PairOf(access), saved["durable"]}

\* The same, and persist_save() fails: logged, never retried.
SaveAttemptsFails ==
  /\ pending
  /\ eeprom
  /\ hist.lapses < MaxLapses
  /\ \E p \in Outcomes : saved' = [saved EXCEPT !["latest"] = p]
  /\ pending' = FALSE
  /\ hist' = [hist EXCEPT !.lapses = @ + 1]
  /\ UNCHANGED <<access, eeprom, now, jumps>>

\* The same after persist_init() failed on this boot.  It knows no cursor:
\* it fails, or it writes slot 0 with sequence number 1, and what the next
\* boot restores is some record of this gate.
SaveAttemptsBlind(p) ==
  /\ pending
  /\ ~eeprom
  /\ Coupled(p)
  /\ saved' \in {saved, Both(p)}
  /\ pending' = FALSE
  /\ UNCHANGED <<access, eeprom, now, jumps, hist>>

\* Mutants of RestoredContext: the two values swapped; only the counter comes
\* back.
RestoredContextSwapped(rtc, chip, p) ==
  LET blank == [AcInit EXCEPT !.slots = access.slots, !.clock_trusted = rtc]
  IN  IF chip THEN AcRestoreAttempts(blank, p.until, p.failed) ELSE blank

RestoredContextCounterOnly(rtc, chip, p) ==
  LET blank == [AcInit EXCEPT !.slots = access.slots, !.clock_trusted = rtc]
  IN  IF chip THEN AcRestoreAttempts(blank, p.failed, 0) ELSE blank

\* ac_init(), boot_clock() and boot_persist(): the clock is trusted iff the
\* RTC gave a time, the attempts come back iff the EEPROM answered.
RestoredContext(rtc, chip, p) ==
  LET blank == [AcInit EXCEPT !.slots = access.slots, !.clock_trusted = rtc]
  IN  IF chip THEN AcRestoreAttempts(blank, p.failed, p.until) ELSE blank

\* A power cycle or a reset, at any point, after which the chip holds p.  (The
\* save that ends boot_persist rewrites p and changes neither copy.)  It may
\* cut a write in flight; the counter of a boot without EEPROM is lost,
\* whichever side of the boot the EEPROM was missing on.
Boot(rtc, chip, p) ==
  LET lapse == IF pending /\ eeprom /\ chip THEN 1 ELSE 0
      reset == IF eeprom /\ chip THEN 0 ELSE 1
  IN  /\ hist.lapses + lapse <= MaxLapses
      /\ hist.resets + reset <= MaxLapses
      /\ p = saved["latest"] \/ (pending /\ eeprom)
      /\ access' = RestoredContext(rtc, chip, p)
      /\ saved' = Both(p)
      /\ eeprom' = chip
      /\ pending' = FALSE
      /\ hist' = [hist EXCEPT !.lapses = @ + lapse, !.resets = @ + reset]
      /\ UNCHANGED <<now, jumps>>

\* A second passes.
Advance ==
  /\ now < MaxNow
  /\ now' = now + 1
  /\ hist' = [hist EXCEPT !.forward = @ + 1]
  /\ UNCHANGED <<access, saved, eeprom, pending, jumps>>

\* SNTP sets the system clock to t; it does not touch the trust flag.
SetClock(t) ==
  /\ jumps < MaxJumps
  /\ now' = t
  /\ jumps' = jumps + 1
  /\ hist' = [hist EXCEPT !.forward = @ + (IF t > now THEN t - now ELSE 0)]
  /\ UNCHANGED <<access, saved, eeprom, pending>>

\* `time set` ends by marking the clock trusted, under the mutex.
TrustClock ==
  /\ ~pending
  /\ access' = [access EXCEPT !.clock_trusted = TRUE]
  /\ UNCHANGED <<saved, eeprom, pending, now, jumps, hist>>

\* handle() comes to persist_attempts().
HandleWrite ==
  \/ SaveAttempts
  \/ SaveAttemptsFails
  \/ \E f \in 0..MaxFailedAttempts, u \in 0..MaxNow :
       SaveAttemptsBlind([failed |-> f, until |-> u])

Next ==
  \/ \E h \in Guesses : Submit(h)
  \/ GateTick
  \/ HandleWrite
  \/ \E rtc, chip \in BOOLEAN, p \in Outcomes : Boot(rtc, chip, p)
  \/ Advance
  \/ \E t \in 0..MaxNow : SetClock(t)
  \/ TrustClock

Spec == Init /\ [][Next]_vars

\* The main loop keeps running (the task watchdog restarts it otherwise)
\* and time passes.
FairSpec ==
  Spec /\ WF_vars(GateTick) /\ WF_vars(HandleWrite)
       /\ WF_vars(Advance)

-----------------------------------------------------------------------------
\* The counter and the deadline never disagree: the counter is at the
\* maximum exactly while a lockout is armed, in RAM and on the chip.
\* (register_failure arms, ac_tick and a grant clear both together.)
CounterAndLockoutAgree ==
  Coupled(PairOf(access)) /\ \A k \in Copies : Coupled(saved[k])

\* However the supply, the EEPROM and the clock behave, between two grants
\* the wrong codes evaluated are at most MaxFailedAttempts per lockout, plus
\* one per lost write and one round per boot without EEPROM; and lockouts
\* are LockoutSeconds of clock apart, but for the same allowances.
WrongCodesBound ==
  /\ hist.wrong <= MaxFailedAttempts * (hist.arms + hist.resets)
                   + (MaxFailedAttempts - 1) + hist.lapses
  /\ LockoutSeconds * (hist.arms - 1)
       <= hist.forward + LockoutSeconds * (hist.lapses + hist.resets)

\* A lockout that is in force and on the chip ends by the clock only: no
\* submission, no tick and no power cycle that finds the EEPROM ends it.
LockoutHolds ==
  [][ access.lockout_until > now /\ saved = Both(PairOf(access))
      /\ hist'.resets = hist.resets
      => PairOf(access') = PairOf(access) ]_vars

\* With the clock trusted, every lockout lifts (gate_tick, or the first
\* submission after the deadline), whatever power cuts happen on the way.
LockoutLifts ==
  (access.clock_trusted /\ access.lockout_until # 0)
     ~> (access.lockout_until = 0 \/ ~access.clock_trusted)

\* What the model assumes of the EEPROM is what AttemptStore states, and
\* PersistRing keeps: the pair in RAM is the cell's value, an acknowledged
\* pair is never lost to an older one, and a boot takes what the cell holds.
Store == INSTANCE AttemptStore
           WITH Values <- AttemptPair, Initial <- PairOf(AcInit),
                value <- PairOf(access), latest <- saved["latest"],
                durable <- saved["durable"], ready <- eeprom

TrustsStoreOnly == Store!Spec

-----------------------------------------------------------------------------
\* The inductive strengthening of WrongCodesBound.  A pair of counter and
\* deadline, in RAM or on the chip, carries what is still charged: failures
\* already counted towards the next lockout, and seconds still to run.
Charged(p) == IF p.until = 0 THEN p.failed ELSE 0

Remaining(p) == IF p.until > now THEN p.until - now ELSE 0

InFlight == IF pending THEN 1 ELSE 0

\* The pair p accounts for every wrong code and every lockout, up to slack.
Accounts(p, slack) ==
  /\ hist.wrong <= MaxFailedAttempts * (hist.arms + hist.resets)
                   + Charged(p) + hist.lapses + slack
  /\ LockoutSeconds * hist.arms
       <= hist.forward + Remaining(p)
          + LockoutSeconds * (hist.lapses + hist.resets + slack)

\* RAM does; both records on the chip do too, up to the one change waiting to be written.
Ledger ==
  /\ access.lockout_until \in Nat
  /\ \A k \in Copies : saved[k].until \in Nat
  /\ Accounts(PairOf(access), 0)
  /\ eeprom => \A k \in Copies : Accounts(saved[k], InFlight)
  /\ LockoutSeconds * (hist.arms - 1)
       <= hist.forward + LockoutSeconds * (hist.lapses + hist.resets)

IndInv == TypeOK /\ CounterAndLockoutAgree /\ Ledger
=============================================================================
