------------------------------ MODULE GateCtrl ------------------------------
(***************************************************************************)
(* components/gate_ctrl in the main loop of main/app_main.c: from the key  *)
(* on the pad to the verdict.  One iteration takes the mutex, reads both   *)
(* clocks once into `now`, handles every queued key with that reading,     *)
(* ticks, renders and releases the mutex.                                  *)
(*                                                                         *)
(* Three parts keep state about one entry: the ui counts keys, gate_ctrl   *)
(* keeps the characters, access_core the attempts.  The module is about    *)
(* whether they stay in step while iterations are late, notices and        *)
(* entries run out, the counter of milliseconds wraps, the wall clock is   *)
(* set and the code table changes between two iterations, and the chip     *)
(* restarts.                                                               *)
(*                                                                         *)
(* `pressed` and `lastEvent` are history variables: what was really        *)
(* pressed, whatever the three parts make of it.                           *)
(***************************************************************************)
EXTENDS Ui, Sequences

CONSTANTS
  Keys,      \* the pad's characters
  NoKey,     \* a wiped character
  HashOf,    \* gate_hash_fn, a function of the CodeLen characters
  Tables,    \* contents the code table may have
  Stall,     \* longest time between two iterations (the watchdog)
  MaxTime,   \* bound on the true time since boot
  MaxEpoch   \* bound on the wall clock

ASSUME GateAssumption ==
  /\ NoKey \notin Keys
  /\ Stall \in Nat \ {0} /\ MaxTime \in Nat /\ MaxEpoch \in Nat
  /\ Tables \subseteq [SlotIndex -> Slot]
  /\ DOMAIN HashOf = [1..CodeLen -> Keys \union {NoKey}]

VARIABLES
  access,     \* s_access
  ui,         \* s_ui
  buf,        \* s_gate.buf, without its terminator
  out,        \* the gate_out_t of the call just made
  phase,      \* "asleep", or "awake": inside an iteration, with the mutex
  now,        \* the reading this iteration works with
  t,          \* true time since boot, in ms
  lastWake,   \* t when the iteration fed the watchdog, or 0
  pressed,    \* history: the last CodeLen keys since boot
  lastEvent   \* history: t of the last key event outside a lockout

vars == <<access, ui, buf, out, phase, now, t, lastWake,
          pressed, lastEvent>>

Never == -1

Wiped == [i \in 1..CodeLen |-> NoKey]

Silent == [result |-> "NONE", persist_attempts |-> FALSE]

TypeOK ==
  /\ access \in Context
  /\ ui \in UiContext
  /\ buf \in [1..CodeLen -> Keys \union {NoKey}]
  /\ out \in [result : Results \union {"NONE"}, persist_attempts : BOOLEAN]
  /\ phase \in {"asleep", "awake"}
  /\ now \in Now
  /\ t \in Nat /\ lastWake \in 0..t
  /\ pressed \in Seq(Keys) /\ Len(pressed) <= CodeLen
  /\ lastEvent \in {Never} \union 0..t

\* The clock is trusted iff the RTC gave a time; both copies of the flag are
\* set together.
Trusting(ac, rtc) ==
  /\ access' = [ac EXCEPT !.clock_trusted = rtc]
  /\ ui' = UiSetClockTrusted(UiInit, rtc)

Init ==
  /\ \E table \in Tables, rtc \in BOOLEAN :
       /\ access = [AcInit EXCEPT !.slots = table, !.clock_trusted = rtc]
       /\ ui = UiSetClockTrusted(UiInit, rtc)
  /\ buf = Wiped
  /\ out = Silent
  /\ phase = "asleep"
  /\ now = [ms |-> 0, epoch |-> 0]
  /\ t = 0
  /\ lastWake = 0
  /\ pressed = <<>>
  /\ lastEvent = Never

-----------------------------------------------------------------------------
AttemptsChanged(ac) ==
  \/ ac.failed_attempts # access.failed_attempts
  \/ ac.lockout_until # access.lockout_until

\* The main loop comes round: gate_app_lock(), now_pair().
\* The wall clock may read anything: time passed, SNTP or the console set it.
Wake ==
  /\ phase = "asleep"
  /\ phase' = "awake"
  /\ \E epoch \in 0..MaxEpoch : now' = [ms |-> t % Wrap, epoch |-> epoch]
  /\ lastWake' = t
  /\ out' = Silent
  /\ UNCHANGED <<access, ui, buf, t, pressed, lastEvent>>

\* The buffer after a key: the ui's entry length says where it goes, 0 that
\* it was refused, 1 that an entry begins.
Typed(u, key) ==
  IF u.entry_len = 0 THEN buf
  ELSE [ (IF u.entry_len = 1 THEN Wiped ELSE buf) EXCEPT ![u.entry_len] = key]

\* Mutant of Submit: the plaintext stays.
SubmitUnwiped(u, b) ==
  LET e == AcEvaluate(access, HashOf[b], now.epoch)
  IN  /\ access' = e.ac
      /\ ui' = UiOnResult(u, e.ac, e.result, now)
      /\ buf' = b
      /\ out' = [result |-> e.result, persist_attempts |-> AttemptsChanged(e.ac)]

\* submit(): u and b are the ui and the buffer with the last key in place.
\* open_lock is result = GRANTED.
Submit(u, b) ==
  LET e == AcEvaluate(access, HashOf[b], now.epoch)
  IN  /\ access' = e.ac
      /\ ui' = UiOnResult(u, e.ac, e.result, now)
      /\ buf' = Wiped
      /\ out' = [result |-> e.result, persist_attempts |-> AttemptsChanged(e.ac)]

LastKeys(s) == IF Len(s) > CodeLen THEN Tail(s) ELSE s

\* gate_on_key(), for a key taken from the queue.
GateOnKey(key) ==
  LET r == UiOnKey(ui, access, now)
      b == Typed(r.ui, key)
  IN  /\ phase = "awake"
      /\ IF r.submit THEN Submit(r.ui, b)
         ELSE /\ ui' = r.ui
              /\ buf' = b
              /\ out' = Silent
              /\ UNCHANGED access
      /\ pressed' = LastKeys(Append(pressed, key))
      /\ lastEvent' = IF Locked(ui, access, now) THEN lastEvent ELSE t
      /\ UNCHANGED <<phase, now, t, lastWake>>

\* gate_on_long_press().
GateOnLongPress ==
  LET r == UiOnLongPress(ui, access, now)
  IN  /\ phase = "awake"
      /\ ui' = r.ui
      /\ buf' = IF r.clear THEN Wiped ELSE buf
      /\ out' = Silent
      /\ lastEvent' = IF Locked(ui, access, now) THEN lastEvent ELSE t
      /\ UNCHANGED <<access, phase, now, t, lastWake, pressed>>

\* gate_tick(), then the end of the iteration.
GateTick ==
  LET ac == IF ui.clock_trusted THEN AcTick(access, now.epoch) ELSE access
      r  == UiTick(ui, ac, now)
  IN  /\ phase = "awake"
      /\ phase' = "asleep"
      /\ access' = ac
      /\ ui' = r.ui
      /\ buf' = IF r.clear THEN Wiped ELSE buf
      /\ out' = [result |-> "NONE", persist_attempts |-> AttemptsChanged(ac)]
      /\ UNCHANGED <<now, t, lastWake, pressed, lastEvent>>

-----------------------------------------------------------------------------
\* Time passes.
Elapse ==
  /\ t < MaxTime
  /\ t - lastWake < Stall
  /\ t' = t + 1
  /\ UNCHANGED <<access, ui, buf, out, phase, now, lastWake, pressed, lastEvent>>

\* Mutant of TrustClock: only access_core hears of it.
TrustClockHalf ==
  /\ phase = "asleep"
  /\ access' = [access EXCEPT !.clock_trusted = TRUE]
  /\ UNCHANGED <<ui, buf, out, phase, now, t, lastWake, pressed,
                 lastEvent>>

\* gate_app_set_clock_trusted(true), from `time set`, under the mutex.
TrustClock ==
  /\ phase = "asleep"
  /\ access' = [access EXCEPT !.clock_trusted = TRUE]
  /\ ui' = UiSetClockTrusted(ui, TRUE)
  /\ UNCHANGED <<buf, out, phase, now, t, lastWake, pressed,
                 lastEvent>>

\* The console, the sync task or the Telegram task changes the code table,
\* under the mutex.
ChangeTable(table) ==
  /\ phase = "asleep"
  /\ access' = [access EXCEPT !.slots = table]
  /\ UNCHANGED <<ui, buf, out, phase, now, t, lastWake, pressed,
                 lastEvent>>

\* A restart: the attempts come back from the EEPROM or start from zero
\* (AttemptLimit is about which), the rest starts afresh.
Restart(rtc, chip) ==
  LET blank == [AcInit EXCEPT !.slots = access.slots]
      p     == IF chip THEN access ELSE AcInit
  IN  /\ Trusting(AcRestoreAttempts(blank, p.failed_attempts, p.lockout_until),
                  rtc)
      /\ buf' = Wiped
      /\ out' = Silent
      /\ phase' = "asleep"
      /\ now' = [ms |-> 0, epoch |-> 0]
      /\ t' = 0
      /\ lastWake' = 0
      /\ pressed' = <<>>
      /\ lastEvent' = Never

Next ==
  \/ Wake
  \/ \E key \in Keys : GateOnKey(key)
  \/ GateOnLongPress
  \/ GateTick
  \/ Elapse
  \/ TrustClock
  \/ \E table \in Tables : ChangeTable(table)
  \/ \E rtc, chip \in BOOLEAN : Restart(rtc, chip)

Spec == Init /\ [][Next]_vars

-----------------------------------------------------------------------------
\* gate_ctrl.h: the plaintext never outlives the entry that produced it.  No
\* character is in the buffer unless the panel is in the middle of an entry.
BufferWiped == ui.screen # "ENTRY" => buf = Wiped

\* While it is, the buffer holds the keys last pressed, as many as the ui
\* has counted, and nothing else: no key of an earlier entry, of a refused
\* key press, or of another guest is ever part of what is hashed.
BufferIsEntry ==
  ui.screen = "ENTRY" =>
    /\ ui.entry_len \in 1..(CodeLen - 1)
    /\ Len(pressed) >= ui.entry_len
    /\ \A i \in 1..CodeLen :
         buf[i] = IF i <= ui.entry_len
                  THEN pressed[Len(pressed) - ui.entry_len + i] ELSE NoKey

\* The two copies of the trust flag never differ, so the ui's guards and
\* access_core's are the same guards: no nine keys are spent on an
\* evaluation that the lockout or the missing clock has already decided.
NeverEvaluatedBlind ==
  /\ ui.clock_trusted = access.clock_trusted
  /\ out.result \notin {"LOCKOUT", "NO_CLOCK"}

\* ui, gate_ctrl and access_core agree about the entry: what is shown, what is in
\* the buffer, and whether there will be anything to evaluate.
EntryInStep == BufferWiped /\ BufferIsEntry /\ NeverEvaluatedBlind

\* The lock is told to open only for a code that is in the table, inside its
\* window, and is exactly the last CodeLen keys pressed; and never while the
\* lockout is in force or the clock is not trusted.
OpensForTypedCode ==
  out'.result = "GRANTED" /\ out.result # "GRANTED"
  => /\ access.clock_trusted /\ access.lockout_until <= now.epoch
     /\ \E i \in SlotIndex : /\ access.slots[i].occupied
                             /\ access.slots[i].hash = HashOf[pressed']
                             /\ access.slots[i].valid_from <= now.epoch
                             /\ now.epoch <= access.slots[i].valid_until

OpensOnlyForTypedCode == [][OpensForTypedCode]_vars

\* ui.h: the panel is dark unless someone is at the pad or a lockout runs.
\* Between iterations an entry or a notice is up only until its span, and
\* the time the loop was away, have passed since the last key event.  The
\* exception is a notice whose deadline is the reading 0.  (Half the counter
\* after a deadline, up to a stall, it reads as a future one again; a lockout
\* would have to hide the notice that long, 24 days.)
Span == IF ui.screen = "ENTRY" THEN EntryTimeout ELSE NoticeSpan[ui.screen]

Overdue ==
  /\ phase = "asleep"
  /\ ui.screen # "IDLE"
  /\ ~Locked(ui, access, now)
  /\ t - lastEvent >= Span + Stall
  /\ 2 * (t - lastEvent + Stall - Span) < Wrap

PanelGoesDark == Overdue => ui.screen # "ENTRY" /\ ui.screen_until_ms = 0
=============================================================================
