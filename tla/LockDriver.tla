----------------------------- MODULE LockDriver -----------------------------
(***************************************************************************)
(* components/lock_driver: lock_logic's three states, and the pin that     *)
(* lock_driver writes.  lock_logic sees time as a 32-bit millisecond       *)
(* counter that wraps; `t` is the true time, and the counter is t % Wrap.  *)
(*                                                                         *)
(* The pin changes only when lock_driver_open or lock_driver_tick writes   *)
(* it, so what the coil sees depends on how long the main loop may take    *)
(* between two ticks: up to Watchdog, after which the task watchdog resets *)
(* the chip (CONFIG_ESP_TASK_WDT_PANIC).                                   *)
(***************************************************************************)
EXTENDS Millis

CONSTANTS
  ConfigPulse,  \* lock_driver_config_t.pulse_ms
  DefaultPulse, \* LOCK_DEFAULT_PULSE_MS
  MaxPulse,     \* LOCK_MAX_PULSE_MS
  Cooldown,     \* LOCK_COOLDOWN_MS
  Watchdog,     \* longest time between two ticks before the reset
  MaxTime       \* bound on the true time

\* lock_logic_init: 0 selects the default, and nothing exceeds the ceiling.
Pulse ==
  LET asked == IF ConfigPulse = 0 THEN DefaultPulse ELSE ConfigPulse
  IN  IF asked > MaxPulse THEN MaxPulse ELSE asked

ASSUME LockAssumption ==
  /\ ConfigPulse \in Nat
  /\ {DefaultPulse, MaxPulse, Cooldown, Watchdog} \subseteq Nat \ {0}
  /\ MaxTime \in Nat
  /\ 2 * (MaxPulse + Cooldown + 2 * Watchdog) < Wrap

VARIABLES
  lock,      \* s_logic
  pin,       \* level of the GPIO: TRUE energises the coil
  t,         \* true time since the chip started
  lastTick,  \* when lock_driver_tick last ran, or the chip started
  onAt       \* history: when the last pulse since the start began, or Never

vars == <<lock, pin, t, lastTick, onAt>>

Never == -1

Logic == [state : {"IDLE", "PULSING", "COOLDOWN"},
          pulse_started_ms : Reading, cooldown_until_ms : Reading]

LogicInit == [state |-> "IDLE", pulse_started_ms |-> 0, cooldown_until_ms |-> 0]

TypeOK ==
  /\ lock \in Logic
  /\ pin \in BOOLEAN
  /\ t \in Nat /\ lastTick \in 0..t
  /\ onAt \in {Never} \union 0..t

-----------------------------------------------------------------------------
\* Mutants of LogicTick: the deadline in more than 32 bits; the pulse ends
\* without a cooldown.
LogicTickWide(st, now_ms) ==
  IF st.state = "PULSING" /\ Elapsed(now_ms, st.pulse_started_ms, Pulse)
  THEN [st EXCEPT !.state = "COOLDOWN",
                  !.cooldown_until_ms = st.pulse_started_ms + Pulse + Cooldown]
  ELSE IF st.state = "COOLDOWN" /\ Reached(st.cooldown_until_ms, now_ms)
  THEN [st EXCEPT !.state = "IDLE"] ELSE st

LogicTickNoCooldown(st, now_ms) ==
  IF st.state = "PULSING" /\ Elapsed(now_ms, st.pulse_started_ms, Pulse)
  THEN [st EXCEPT !.state = "IDLE"] ELSE st

LogicTick(st, now_ms) ==
  CASE st.state = "PULSING" /\ Elapsed(now_ms, st.pulse_started_ms, Pulse) ->
         [st EXCEPT !.state = "COOLDOWN",
                    !.cooldown_until_ms =
                       (st.pulse_started_ms + Pulse + Cooldown) % Wrap]
    [] st.state = "COOLDOWN" /\ Reached(st.cooldown_until_ms, now_ms) ->
         [st EXCEPT !.state = "IDLE"]
    [] OTHER -> st

\* Mutant of LogicRequest: a request during a pulse is merged into it.
LogicRequestMerged(st, now_ms) ==
  LET ticked == LogicTick(st, now_ms)
  IN  IF ticked.state = "COOLDOWN" THEN ticked
      ELSE [ticked EXCEPT !.state = "PULSING", !.pulse_started_ms = now_ms]

\* A request ticks first; it is refused unless the logic is idle.
LogicRequest(st, now_ms) ==
  LET ticked == LogicTick(st, now_ms)
  IN  IF ticked.state # "IDLE" THEN ticked
      ELSE [ticked EXCEPT !.state = "PULSING", !.pulse_started_ms = now_ms]

LogicOutput(st, now_ms) ==
  st.state = "PULSING" /\ ~Elapsed(now_ms, st.pulse_started_ms, Pulse)

WriteCoil(st) ==
  /\ pin' = LogicOutput(st, t % Wrap)
  /\ onAt' = IF pin' /\ ~pin THEN t ELSE onAt

-----------------------------------------------------------------------------
\* lock_driver_init, on a chip that has just started.
Init ==
  /\ lock = LogicInit
  /\ pin = FALSE
  /\ t = 0
  /\ lastTick = 0
  /\ onAt = Never

\* lock_driver_open, on a granted code.
LockDriverOpen ==
  LET st == LogicRequest(lock, t % Wrap)
  IN  /\ lock' = st
      /\ WriteCoil(st)
      /\ UNCHANGED <<t, lastTick>>

\* lock_driver_tick, once per iteration of the main loop.
LockDriverTick ==
  LET st == LogicTick(lock, t % Wrap)
  IN  /\ lock' = st
      /\ WriteCoil(st)
      /\ lastTick' = t
      /\ UNCHANGED t

\* The rest of the loop, an EEPROM write, a blocked call: time passes.
Elapse ==
  /\ t < MaxTime
  /\ t - lastTick < Watchdog
  /\ t' = t + 1
  /\ UNCHANGED <<lock, pin, lastTick, onAt>>

\* The watchdog's panic, a brown-out or a power cycle: the pin is released,
\* esp_timer and the driver start again.
Reset ==
  /\ lock' = LogicInit
  /\ pin' = FALSE
  /\ t' = 0
  /\ lastTick' = 0
  /\ onAt' = Never

Next == LockDriverOpen \/ LockDriverTick \/ Elapse \/ Reset

Spec == Init /\ [][Next]_vars

-----------------------------------------------------------------------------
\* The coil is never energised longer than the pulse plus the time the loop
\* may take to come round, across any wrap of the millisecond counter.
\* (elapsed(); a request mid-pulse is refused and cannot stretch the pulse.)
PulseBounded == pin => t - onAt < Pulse + Watchdog

\* Between two resets, pulses start at least pulse and cooldown apart,
\* however late the ticks come and wherever the counter wraps.
StartsSpaced ==
  [][ onAt' # onAt /\ onAt # Never /\ onAt' # Never
      => onAt' - onAt >= Pulse + Cooldown ]_vars

\* A grant is refused only while the last pulse is recent: within the cooldown
\* plus the loop's longest absence (twice it, if the loop was away longer than
\* the cooldown) the lock is ready again.
BusyBounded ==
  lock.state # "IDLE"
    => t - onAt < Pulse + Watchdog + (IF Cooldown > Watchdog THEN Cooldown
                                                             ELSE Watchdog)

\* Both bounds at once: how long the coil may be energised, and for how long after
\* that a grant - which the panel has shown as OK by then (handle) - is refused.
LockBounded == PulseBounded /\ BusyBounded
=============================================================================
