---------------------------- MODULE DriverProofs ----------------------------
(***************************************************************************)
(* Proofs about the two drivers the main loop polls, for every value of    *)
(* the constants that their assumptions admit.                             *)
(*                                                                         *)
(* LockDriver: IndInv is an inductive invariant.  It says what each state  *)
(* of lock_logic knows of the true time of the last pulse, which the       *)
(* readings it keeps only show modulo Wrap.                                *)
(*                                                                         *)
(* Keypad: KeypadInv is one.  It relates what kp_logic keeps to the        *)
(* history of readings that the properties keep, and the length of the     *)
(* queue to the time the loop has been away.                               *)
(***************************************************************************)
EXTENDS LockDriver, Keypad, OperatorProofs

-----------------------------------------------------------------------------
(* LockDriver *)

\* The longest the cooldown state can last, and the longest the loop is away.
Slack == IF Cooldown > Watchdog THEN Cooldown ELSE Watchdog

\* The pin follows the state, and only an idle lock has no pulse to remember.
CoilFollows ==
  /\ pin <=> lock.state = "PULSING"
  /\ lock.state # "IDLE" => onAt # Never

\* A pulse: its start is a reading of onAt, and the last tick came before
\* its end.
PulsingKnows ==
  lock.state = "PULSING" =>
    /\ lock.pulse_started_ms = onAt % Wrap
    /\ lastTick - onAt < Pulse

\* A cooldown: its deadline is a reading of the true one, and the last tick
\* came no later than the longest cooldown after the pulse.
CoolingKnows ==
  lock.state = "COOLDOWN" =>
    /\ lock.cooldown_until_ms = (onAt + Pulse + Cooldown) % Wrap
    /\ t - onAt >= Pulse
    /\ lastTick - onAt < Pulse + Slack

\* A lock that is idle again has rested for the whole cooldown.
RestingKnows ==
  lock.state = "IDLE" /\ onAt # Never => t - onAt >= Pulse + Cooldown

IndInv ==
  /\ TypeOK
  /\ t - lastTick <= Watchdog
  /\ CoilFollows /\ PulsingKnows /\ CoolingKnows /\ RestingKnows
-----------------------------------------------------------------------------
\* lock_logic_init's pulse is never empty, and never exceeds the ceiling.
LEMMA PulseFacts == Pulse \in Nat \ {0} /\ Pulse <= MaxPulse
BY LockAssumption DEF Pulse

\* lock_logic_tick, in true time: a pulse ends, and a cooldown ends, exactly
\* when its span has passed since the pulse began.
LEMMA TickFacts ==
  ASSUME IndInv
  PROVE  LET st == LogicTick(lock, t % Wrap)
         IN  \/ lock.state = "IDLE" /\ st = lock
             \/ lock.state = "PULSING" /\ t - onAt < Pulse /\ st = lock
             \/ /\ lock.state = "PULSING" /\ t - onAt >= Pulse
                /\ st = [lock EXCEPT !.state = "COOLDOWN",
                            !.cooldown_until_ms = (onAt + Pulse + Cooldown) % Wrap]
             \/ /\ lock.state = "COOLDOWN" /\ t - onAt < Pulse + Cooldown
                /\ st = lock
             \/ /\ lock.state = "COOLDOWN" /\ t - onAt >= Pulse + Cooldown
                /\ st = [lock EXCEPT !.state = "IDLE"]
<1>0. /\ Pulse \in Int /\ Cooldown \in Int /\ Pulse + Cooldown \in Int
      /\ Pulse > 0 /\ Cooldown > 0 /\ Watchdog \in Nat /\ Wrap \in Nat
      /\ 2 * (Pulse + Cooldown + 2 * Watchdog) < Wrap
  BY PulseFacts, LockAssumption, WrapAssumption
<1> DEFINE st == LogicTick(lock, t % Wrap)
<1>1. lock.state \in {"IDLE", "PULSING", "COOLDOWN"} /\ t \in Nat /\ lastTick \in 0..t
  BY DEF IndInv, TypeOK, Logic
<1>2. CASE lock.state = "IDLE"
  BY <1>2 DEF LogicTick
<1>3. ASSUME lock.state # "IDLE" PROVE onAt \in Nat /\ onAt <= t
  BY <1>1, <1>3 DEF IndInv, TypeOK, CoilFollows
<1>4. CASE lock.state = "PULSING"
  <2>1. onAt \in Nat /\ onAt <= t
    BY <1>3, <1>4
  <2>2. lock.pulse_started_ms = onAt % Wrap /\ lastTick - onAt < Pulse
    BY <1>4 DEF IndInv, PulsingKnows
  <2>3. t - onAt < Wrap
    BY <1>0, <1>1, <2>1, <2>2 DEF IndInv
  <2>4. Elapsed(t % Wrap, lock.pulse_started_ms, Pulse) <=> t - onAt >= Pulse
    <3>1. t \in Int /\ onAt \in Int
      BY <1>1, <2>1
    <3>2. Elapsed(t % Wrap, onAt % Wrap, Pulse) <=> t - onAt >= Pulse
      BY <1>0, <2>1, <2>3, <3>1, ElapsedIsTrue
    <3> QED
      BY <2>2, <3>2
  <2>5. (lock.pulse_started_ms + Pulse + Cooldown) % Wrap
          = (onAt + Pulse + Cooldown) % Wrap
    <3>1. ((onAt % Wrap) + (Pulse + Cooldown)) % Wrap
            = (onAt + (Pulse + Cooldown)) % Wrap
      <4>1. onAt \in Int
        BY <2>1
      <4> QED
        BY <1>0, <4>1, ModSum
    <3>2. onAt % Wrap \in Int
      BY <1>0, <2>1, WrapAssumption
    <3>3. /\ lock.pulse_started_ms + Pulse + Cooldown
                = (onAt % Wrap) + (Pulse + Cooldown)
          /\ onAt + Pulse + Cooldown = onAt + (Pulse + Cooldown)
      BY <1>0, <2>1, <2>2, <3>2
    <3> QED
      BY <3>1, <3>3
  <2>6. CASE t - onAt >= Pulse
    BY <1>4, <2>4, <2>5, <2>6 DEF LogicTick
  <2>7. CASE t - onAt < Pulse
    BY <1>0, <1>1, <1>4, <2>1, <2>4, <2>7 DEF LogicTick
  <2> QED
    BY <1>0, <1>1, <2>1, <2>6, <2>7
<1>5. CASE lock.state = "COOLDOWN"
  <2>1. onAt \in Nat /\ onAt <= t
    BY <1>3, <1>5
  <2>2. /\ lock.cooldown_until_ms = (onAt + Pulse + Cooldown) % Wrap
        /\ t - onAt >= Pulse /\ lastTick - onAt < Pulse + Slack
    BY <1>5 DEF IndInv, CoolingKnows
  <2>3. t - onAt < Pulse + Slack + Watchdog
    BY <1>0, <1>1, <2>1, <2>2 DEF IndInv, Slack
  <2> DEFINE end == onAt + Pulse + Cooldown
  <2>4. /\ 2 * (t - end) <= Wrap /\ 2 * (end - t) < Wrap
        /\ end \in Int /\ t \in Int
    BY <1>0, <1>1, <2>1, <2>2, <2>3 DEF Slack
  <2>5. Reached(lock.cooldown_until_ms, t % Wrap) <=> t >= end
    <3>1. lock.cooldown_until_ms = end % Wrap
      BY <2>2
    <3> HIDE DEF end
    <3>2. Reached(end % Wrap, t % Wrap) <=> t >= end
      BY <2>4, ReachedIsTrue
    <3> QED
      BY <3>1, <3>2
  <2>6. CASE t >= end
    <3>1. st = [lock EXCEPT !.state = "IDLE"]
      BY <1>5, <2>5, <2>6 DEF LogicTick
    <3> HIDE DEF st
    <3> QED
      BY <1>0, <1>1, <1>5, <2>1, <2>6, <3>1 DEF st
  <2>7. CASE ~(t >= end)
    <3>1. st = lock
      BY <1>5, <2>5, <2>7 DEF LogicTick
    <3> HIDE DEF st
    <3> QED
      BY <1>0, <1>1, <1>5, <2>1, <2>7, <3>1 DEF st
  <2> QED
    BY <2>6, <2>7
<1> QED
  BY <1>1, <1>2, <1>4, <1>5

\* A pulse that is not over keeps the coil on.
LEMMA PulsingOutput ==
  ASSUME IndInv, lock.state = "PULSING"
  PROVE  Elapsed(t % Wrap, lock.pulse_started_ms, Pulse) <=> t - onAt >= Pulse
<1>1. t \in Nat /\ lastTick \in 0..t /\ onAt \in 0..t
  BY DEF IndInv, TypeOK, CoilFollows
<1>2. lock.pulse_started_ms = onAt % Wrap /\ lastTick - onAt < Pulse
  BY DEF IndInv, PulsingKnows
<1>3. /\ t \in Int /\ onAt \in Int /\ Pulse \in Int
      /\ onAt <= t /\ t - onAt < Wrap
  BY <1>1, <1>2, PulseFacts, LockAssumption, WrapAssumption DEF IndInv
<1>4. Elapsed(t % Wrap, onAt % Wrap, Pulse) <=> t - onAt >= Pulse
  BY <1>3, ElapsedIsTrue
<1> QED
  BY <1>2, <1>4

\* A tick writes the state it leaves: the coil is on exactly while that state
\* is pulsing, and no pulse starts.
LEMMA TickWrites ==
  ASSUME IndInv, WriteCoil(LogicTick(lock, t % Wrap))
  PROVE  /\ pin' <=> LogicTick(lock, t % Wrap).state = "PULSING"
         /\ onAt' = onAt
<1> DEFINE st == LogicTick(lock, t % Wrap)
<1>1. lock \in Logic /\ pin \in BOOLEAN /\ (pin <=> lock.state = "PULSING")
      /\ t \in Nat /\ (lock.state # "IDLE" => onAt \in Nat)
  BY DEF IndInv, TypeOK, CoilFollows
<1>2. st.state = "PULSING" => st = lock /\ t - onAt < Pulse
  BY <1>1, TickFacts DEF Logic
<1>3. ASSUME st.state = "PULSING" PROVE ~Elapsed(t % Wrap, st.pulse_started_ms, Pulse)
  <2>1. st = lock /\ lock.state = "PULSING" /\ t - onAt < Pulse
    BY <1>2, <1>3
  <2> HIDE DEF st
  <2>2. ~(t - onAt >= Pulse)
    BY <1>1, <2>1, PulseFacts
  <2> QED
    BY <2>1, <2>2, PulsingOutput
<1>4. pin' <=> st.state = "PULSING" /\ ~Elapsed(t % Wrap, st.pulse_started_ms, Pulse)
  BY DEF WriteCoil, LogicOutput
<1>5. pin' <=> st.state = "PULSING"
  BY <1>3, <1>4
<1>6. pin' => pin
  <2> HIDE DEF st
  <2> QED
    BY <1>1, <1>2, <1>5
<1>7. onAt' = onAt
  BY <1>6 DEF WriteCoil
<1> QED
  BY <1>5, <1>7

\* lock_logic_request: refused, with the tick alone, unless the lock is or
\* becomes idle; then a pulse starts now, and the last one, if there was one,
\* began at least a pulse and a cooldown ago.
LEMMA OpenCases ==
  ASSUME IndInv, LockDriverOpen
  PROVE  \/ /\ lock' = LogicTick(lock, t % Wrap)
            /\ lock'.state # "IDLE"
            /\ pin' <=> lock'.state = "PULSING"
            /\ onAt' = onAt
         \/ /\ lock' = [lock EXCEPT !.state = "PULSING",
                                    !.pulse_started_ms = t % Wrap]
            /\ onAt = Never \/ t - onAt >= Pulse + Cooldown
            /\ pin' /\ onAt' = t
<1> DEFINE st == LogicTick(lock, t % Wrap)
<1>1. /\ lock \in Logic /\ pin \in BOOLEAN /\ (pin <=> lock.state = "PULSING")
      /\ t \in Nat /\ lock.state \in {"IDLE", "PULSING", "COOLDOWN"}
  BY DEF IndInv, TypeOK, CoilFollows, Logic
<1>2. CASE st.state # "IDLE"
  <2>1. LogicRequest(lock, t % Wrap) = st
    BY <1>2 DEF LogicRequest
  <2>2. lock' = st /\ WriteCoil(st)
    BY <2>1 DEF LockDriverOpen
  <2>3. (pin' <=> st.state = "PULSING") /\ onAt' = onAt
    BY <2>2, TickWrites
  <2> QED
    BY <1>2, <2>2, <2>3
<1>3. CASE st.state = "IDLE"
  <2> DEFINE r == [lock EXCEPT !.state = "PULSING", !.pulse_started_ms = t % Wrap]
  <2>1. /\ lock.state # "PULSING"
        /\ st = lock \/ st = [lock EXCEPT !.state = "IDLE"]
        /\ onAt = Never \/ t - onAt >= Pulse + Cooldown
    BY <1>1, <1>3, TickFacts DEF IndInv, RestingKnows, Logic
  <2>2. LogicRequest(lock, t % Wrap)
          = [st EXCEPT !.state = "PULSING", !.pulse_started_ms = t % Wrap]
    BY <1>3 DEF LogicRequest
  <2>3. [st EXCEPT !.state = "PULSING", !.pulse_started_ms = t % Wrap] = r
    <3> HIDE DEF st
    <3> QED
      BY <1>1, <2>1 DEF Logic
  <2>4. lock' = r /\ WriteCoil(r)
    BY <2>2, <2>3 DEF LockDriverOpen
  <2>5. r.state = "PULSING" /\ r.pulse_started_ms = t % Wrap
    BY <1>1 DEF Logic
  <2>6. ~Elapsed(t % Wrap, t % Wrap, Pulse)
    <3>1. t \in Int /\ Pulse \in Int /\ t <= t /\ t - t < Wrap /\ ~(t - t >= Pulse)
      BY <1>1, PulseFacts, WrapAssumption
    <3> QED
      BY <3>1, ElapsedIsTrue
  <2>7. pin'
    BY <2>4, <2>5, <2>6 DEF WriteCoil, LogicOutput
  <2>8. onAt' = t
    BY <1>1, <2>1, <2>4, <2>7 DEF WriteCoil
  <2> QED
    BY <2>1, <2>4, <2>7, <2>8
<1> QED
  BY <1>2, <1>3

-----------------------------------------------------------------------------
\* lock_driver_init leaves an idle lock with its pin released.
LEMMA InitInv == Init => IndInv
<1> SUFFICES ASSUME Init PROVE IndInv
  OBVIOUS
<1>1. lock \in Logic
  BY WrapAssumption DEF Init, LogicInit, Logic, Reading
<1>2. TypeOK
  <2>1. t \in Nat /\ lastTick \in 0..t
    BY DEF Init
  <2> QED
    BY <1>1, <2>1 DEF Init, TypeOK
<1>3. t - lastTick <= Watchdog
  BY LockAssumption DEF Init
<1>4. lock.state = "IDLE" /\ onAt = Never /\ pin = FALSE
  BY DEF Init, LogicInit
<1> QED
  BY <1>2, <1>3, <1>4
     DEF IndInv, CoilFollows, PulsingKnows, CoolingKnows, RestingKnows

\* A tick keeps the invariant.
LEMMA TickInv == IndInv /\ LockDriverTick => IndInv'
<1> SUFFICES ASSUME IndInv, LockDriverTick PROVE IndInv'
  OBVIOUS
<1> DEFINE st == LogicTick(lock, t % Wrap)
<1>1. /\ lock' = st /\ lastTick' = t /\ t' = t /\ onAt' = onAt
      /\ pin' <=> st.state = "PULSING"
  BY TickWrites DEF LockDriverTick
<1>2. /\ lock \in Logic /\ t \in Nat /\ lastTick \in 0..t
      /\ onAt \in {Never} \union 0..t /\ t - lastTick <= Watchdog
      /\ lock.state # "IDLE" => onAt \in 0..t
  BY DEF IndInv, TypeOK, CoilFollows
<1>3. /\ Pulse \in Int /\ Pulse > 0 /\ Cooldown \in Int /\ Cooldown > 0
      /\ Watchdog \in Nat /\ Slack \in Int /\ Slack >= Cooldown /\ Slack >= Watchdog
  BY PulseFacts, LockAssumption DEF Slack
<1>4. st \in Logic
  <2>1. (onAt + Pulse + Cooldown) % Wrap \in Reading
    BY <1>2, <1>3, ModInRange DEF Never
  <2> QED
    BY <1>2, <2>1, TickFacts DEF Logic
<1>5. pin' \in BOOLEAN
  BY DEF LockDriverTick, WriteCoil, LogicOutput, Elapsed
<1>6. TypeOK'
  BY <1>1, <1>2, <1>4, <1>5 DEF TypeOK
<1>7. t' - lastTick' <= Watchdog
  BY <1>1, <1>2, <1>3
<1>8. CASE lock.state = "IDLE" /\ st = lock
  BY <1>1, <1>2, <1>6, <1>7, <1>8
     DEF IndInv, CoilFollows, PulsingKnows, CoolingKnows, RestingKnows
<1>9. CASE lock.state = "PULSING" /\ t - onAt < Pulse /\ st = lock
  BY <1>1, <1>2, <1>6, <1>7, <1>9
     DEF IndInv, CoilFollows, PulsingKnows, CoolingKnows, RestingKnows
<1>10. CASE /\ lock.state = "PULSING" /\ t - onAt >= Pulse
            /\ st = [lock EXCEPT !.state = "COOLDOWN",
                       !.cooldown_until_ms = (onAt + Pulse + Cooldown) % Wrap]
  <2>1. /\ lock'.state = "COOLDOWN"
        /\ lock'.cooldown_until_ms = (onAt' + Pulse + Cooldown) % Wrap
    BY <1>1, <1>2, <1>10 DEF Logic
  <2>2. lastTick - onAt < Pulse
    BY <1>10 DEF IndInv, PulsingKnows
  <2>3. t' - onAt' >= Pulse /\ lastTick' - onAt' < Pulse + Slack
    BY <1>1, <1>2, <1>3, <1>10, <2>2
  <2> QED
    BY <1>1, <1>2, <1>6, <1>7, <2>1, <2>3, <1>10
       DEF IndInv, CoilFollows, PulsingKnows, CoolingKnows, RestingKnows, Never
<1>11. CASE lock.state = "COOLDOWN" /\ t - onAt < Pulse + Cooldown /\ st = lock
  <2>1. lastTick' - onAt' < Pulse + Slack
    BY <1>1, <1>2, <1>3, <1>11
  <2> QED
    BY <1>1, <1>2, <1>6, <1>7, <1>11, <2>1
       DEF IndInv, CoilFollows, PulsingKnows, CoolingKnows, RestingKnows
<1>12. CASE /\ lock.state = "COOLDOWN" /\ t - onAt >= Pulse + Cooldown
            /\ st = [lock EXCEPT !.state = "IDLE"]
  <2>1. lock'.state = "IDLE"
    BY <1>1, <1>2, <1>12 DEF Logic
  <2> QED
    BY <1>1, <1>2, <1>6, <1>7, <1>12, <2>1
       DEF IndInv, CoilFollows, PulsingKnows, CoolingKnows, RestingKnows
<1> HIDE DEF st
<1> QED
  BY <1>8, <1>9, <1>10, <1>11, <1>12, TickFacts DEF st

\* A request keeps it: refused, it is a tick without the loop's turn; granted,
\* a pulse that has just begun.
LEMMA OpenInv == IndInv /\ LockDriverOpen => IndInv'
<1> SUFFICES ASSUME IndInv, LockDriverOpen PROVE IndInv'
  OBVIOUS
<1> DEFINE st == LogicTick(lock, t % Wrap)
<1>1. /\ lock \in Logic /\ t \in Nat /\ lastTick \in 0..t
      /\ onAt \in {Never} \union 0..t /\ t - lastTick <= Watchdog
      /\ lock.state # "IDLE" => onAt \in 0..t
  BY DEF IndInv, TypeOK, CoilFollows
<1>2. /\ Pulse \in Int /\ Pulse > 0 /\ Cooldown \in Int /\ Cooldown > 0
      /\ Slack \in Int /\ Slack >= Cooldown
  BY PulseFacts, LockAssumption DEF Slack
<1>3. t' = t /\ lastTick' = lastTick /\ pin' \in BOOLEAN
  BY DEF LockDriverOpen, WriteCoil, LogicOutput, Elapsed
<1>4. CASE /\ lock' = [lock EXCEPT !.state = "PULSING", !.pulse_started_ms = t % Wrap]
           /\ pin' /\ onAt' = t
  <2>1. t % Wrap \in Reading
    BY <1>1, ModInRange
  <2>2. /\ lock' \in Logic /\ lock'.state = "PULSING"
        /\ lock'.pulse_started_ms = onAt' % Wrap
    BY <1>1, <1>4, <2>1 DEF Logic
  <2>3. TypeOK'
    BY <1>1, <1>3, <1>4, <2>2 DEF TypeOK
  <2>4. lastTick' - onAt' < Pulse /\ onAt' # Never
    BY <1>1, <1>2, <1>3, <1>4 DEF Never
  <2> QED
    BY <1>1, <1>3, <1>4, <2>2, <2>3, <2>4
       DEF IndInv, CoilFollows, PulsingKnows, CoolingKnows, RestingKnows
<1>5. CASE /\ lock' = st /\ lock'.state # "IDLE"
           /\ pin' <=> lock'.state = "PULSING"
           /\ onAt' = onAt
  <2>1. CASE st = lock
    <3>1. TypeOK'
      BY <1>1, <1>3, <1>5, <2>1 DEF TypeOK
    <3> QED
      BY <1>1, <1>3, <1>5, <2>1, <3>1
         DEF IndInv, CoilFollows, PulsingKnows, CoolingKnows, RestingKnows
  <2>2. CASE /\ lock.state = "PULSING" /\ t - onAt >= Pulse
             /\ st = [lock EXCEPT !.state = "COOLDOWN",
                        !.cooldown_until_ms = (onAt + Pulse + Cooldown) % Wrap]
    <3>1. (onAt + Pulse + Cooldown) % Wrap \in Reading
      BY <1>1, <1>2, ModInRange DEF Never
    <3>2. /\ lock' \in Logic /\ lock'.state = "COOLDOWN"
          /\ lock'.cooldown_until_ms = (onAt' + Pulse + Cooldown) % Wrap
      BY <1>1, <1>5, <2>2, <3>1 DEF Logic
    <3>3. TypeOK'
      BY <1>1, <1>3, <1>5, <3>2 DEF TypeOK
    <3>4. lastTick - onAt < Pulse
      BY <2>2 DEF IndInv, PulsingKnows
    <3>5. t' - onAt' >= Pulse /\ lastTick' - onAt' < Pulse + Slack
      BY <1>1, <1>2, <1>3, <1>5, <2>2, <3>4
    <3> QED
      BY <1>1, <1>3, <1>5, <2>2, <3>2, <3>3, <3>5
         DEF IndInv, CoilFollows, PulsingKnows, CoolingKnows, RestingKnows, Never
  <2>3. ~(lock.state = "COOLDOWN" /\ st = [lock EXCEPT !.state = "IDLE"])
    BY <1>1, <1>5 DEF Logic
  <2> HIDE DEF st
  <2> QED
    BY <2>1, <2>2, <2>3, TickFacts DEF st
<1> HIDE DEF st
<1> QED
  BY <1>4, <1>5, OpenCases DEF st

\* So do the passing of time, which the watchdog bounds, a reset of the chip,
\* and a step that changes nothing.
LEMMA ElapseInv == IndInv /\ Elapse => IndInv'
<1> SUFFICES ASSUME IndInv, Elapse PROVE IndInv'
  OBVIOUS
<1>1. /\ t \in Nat /\ lastTick \in 0..t /\ onAt \in {Never} \union 0..t
      /\ lock.state # "IDLE" => onAt \in 0..t
  BY DEF IndInv, TypeOK, CoilFollows
<1>2. t' = t + 1 /\ t - lastTick < Watchdog /\ UNCHANGED <<lock, pin, lastTick, onAt>>
  BY DEF Elapse
<1>3. TypeOK'
  BY <1>1, <1>2 DEF IndInv, TypeOK
<1>4. t' - lastTick' <= Watchdog
  BY <1>1, <1>2, LockAssumption
<1>5. CoilFollows' /\ PulsingKnows'
  BY <1>2 DEF IndInv, CoilFollows, PulsingKnows
<1>6. CoolingKnows'
  BY <1>1, <1>2, PulseFacts DEF IndInv, CoolingKnows
<1>7. RestingKnows'
  <2>1. RestingKnows /\ Pulse + Cooldown \in Int
    BY PulseFacts, LockAssumption DEF IndInv
  <2> QED
    BY <1>1, <1>2, <2>1 DEF RestingKnows, Never
<1> QED
  BY <1>3, <1>4, <1>5, <1>6, <1>7 DEF IndInv

\* Every step.
LEMMA NextInv == IndInv /\ [Next]_vars => IndInv'
<1> SUFFICES ASSUME IndInv, [Next]_vars PROVE IndInv'
  OBVIOUS
<1>1. CASE LockDriverOpen
  BY <1>1, OpenInv
<1>2. CASE LockDriverTick
  BY <1>2, TickInv
<1>3. CASE Elapse
  BY <1>3, ElapseInv
<1>4. CASE Reset
  <2>1. Init'
    BY <1>4 DEF Reset, Init
  <2> QED
    BY <2>1, InitInv, PTL
<1>5. CASE UNCHANGED vars
  BY <1>5 DEF vars, IndInv, TypeOK, CoilFollows, PulsingKnows, CoolingKnows, RestingKnows
<1> QED
  BY <1>1, <1>2, <1>3, <1>4, <1>5 DEF Next

-----------------------------------------------------------------------------
\* The inductive invariant holds in every reachable state.
THEOREM Invariance == Spec => []IndInv
<1>1. Init => IndInv
  BY InitInv
<1>2. IndInv /\ [Next]_vars => IndInv'
  BY NextInv
<1> QED
  BY <1>1, <1>2, PTL DEF Spec

\* lock_logic's state and the pin stay well typed: every reading is one.
THEOREM TypeCorrect == Spec => []TypeOK
<1>1. IndInv => TypeOK
  BY DEF IndInv
<1> QED
  BY <1>1, Invariance, PTL

\* The coil is never energised for longer than the pulse plus the time the
\* loop may be away, and the lock never refuses a grant for longer than that
\* and the cooldown: for every pulse, cooldown and watchdog, and wherever the
\* millisecond counter wraps.
THEOREM CoilAndRefusalBounded == Spec => []LockBounded
<1>1. ASSUME IndInv PROVE LockBounded
  <2>1. /\ t \in Nat /\ lastTick \in 0..t /\ t - lastTick <= Watchdog
        /\ onAt \in {Never} \union 0..t /\ lock \in Logic
        /\ pin <=> lock.state = "PULSING"
        /\ lock.state # "IDLE" => onAt \in 0..t
    BY <1>1 DEF IndInv, TypeOK, CoilFollows
  <2>2. Pulse \in Int /\ Watchdog \in Nat /\ Cooldown \in Nat /\ Watchdog > 0
    BY PulseFacts, LockAssumption
  <2>3. lock.state = "PULSING" => t - onAt < Pulse + Watchdog
    BY <1>1, <2>1, <2>2 DEF IndInv, PulsingKnows
  <2>4. lock.state = "COOLDOWN" => t - onAt < Pulse + Watchdog + Slack
    BY <1>1, <2>1, <2>2 DEF IndInv, CoolingKnows, Slack
  <2>5. PulseBounded
    BY <2>1, <2>3 DEF PulseBounded
  <2>6. BusyBounded
    <3>1. lock.state \in {"IDLE", "PULSING", "COOLDOWN"}
      BY <2>1 DEF Logic
    <3> QED
      BY <2>1, <2>2, <2>3, <2>4, <3>1 DEF BusyBounded, Slack
  <2> QED
    BY <2>5, <2>6 DEF LockBounded
<1> QED
  BY <1>1, Invariance, PTL

\* Between two resets, two pulses never start closer than a pulse and a
\* cooldown apart: only a request finds the lock idle, and RestingKnows says
\* what idle means.
THEOREM PulsesStartSpaced == Spec => StartsSpaced
<1> DEFINE Spaced == onAt' # onAt /\ onAt # Never /\ onAt' # Never
                       => onAt' - onAt >= Pulse + Cooldown
<1>1. ASSUME IndInv, [Next]_vars PROVE Spaced
  <2>1. CASE LockDriverOpen
    BY <1>1, <2>1, OpenCases
  <2>2. CASE LockDriverTick
    <3>1. onAt' = onAt
      BY <1>1, <2>2, TickWrites DEF LockDriverTick
    <3> QED
      BY <3>1
  <2>3. CASE Elapse \/ Reset \/ UNCHANGED vars
    BY <2>3 DEF Elapse, Reset, vars
  <2> QED
    BY <1>1, <2>1, <2>2, <2>3 DEF Next
<1>2. ASSUME IndInv, [Next]_vars PROVE [Spaced]_vars
  BY <1>1, <1>2
<1> HIDE DEF Spaced
<1>3. IndInv /\ [Next]_vars => [Spaced]_vars
  BY <1>2
<1>4. Spec => [][Spaced]_vars
  BY <1>3, Invariance, PTL DEF Spec
<1> QED
  BY <1>4 DEF StartsSpaced, Spaced

-----------------------------------------------------------------------------
(* Keypad: events, history *)

\* Presses, LongPresses, AfterEvents and Remember, of any events and any history.
Pressed(ev) == {e.key : e \in {x \in ToSet(ev) : x.type = "PRESS"}}
LongPressed(ev) == {e.key : e \in {x \in ToSet(ev) : x.type = "LONG_PRESS"}}

Counted(h, ev) ==
  IF Pressed(ev) # {}
  THEN [h EXCEPT !.last = CHOOSE key \in Pressed(ev) : TRUE, !.off = -1,
                 !.let_go = FALSE, !.ghosted = FALSE, !.since = 0, !.long = FALSE]
  ELSE [h EXCEPT !.long = @ \/ LongPressed(ev) # {}]

OffFor(h, raw, gap) ==
  IF raw = {h.last} THEN -1
  ELSE IF h.off = -1 THEN 0
  ELSE UpTo(Debounce, h.off + gap)

Remembered(h, raw, gap) ==
  [h EXCEPT !.raw = raw,
            !.steady = IF raw = h.raw THEN UpTo(Debounce, @ + gap) ELSE 0,
            !.off = OffFor(h, raw, gap),
            !.ghosted = @ \/ \E j, k \in raw : j # k,
            !.let_go = @ \/ OffFor(h, raw, gap) >= Debounce \/ (h.ghosted /\ raw = {}),
            !.since = UpTo(LongPress, @ + gap),
            !.away = UpTo(AwayEnough, @ + gap)]

PressOf(key) == <<[type |-> "PRESS", key |-> key]>>
LongPressOf(key) == <<[type |-> "LONG_PRESS", key |-> key]>>

EventLists == {<<>>} \union {PressOf(key) : key \in Keys}
                     \union {LongPressOf(key) : key \in Keys}

-----------------------------------------------------------------------------

\* What the assumption says of each constant.
LEMMA KeypadNumbers ==
  /\ Debounce \in Nat /\ Debounce >= 1 /\ LongPress \in Nat /\ LongPress >= 2 * Debounce
  /\ LongPress > Debounce /\ LongPress >= 1
  /\ QueueDepth \in Nat /\ QueueDepth >= 1
  /\ \A gap \in 1..MaxGap : gap \in Nat /\ gap >= 1
BY KeypadAssumption

\* A scan without events has pressed no key.
LEMMA NoEventFacts == Pressed(<<>>) = {} /\ LongPressed(<<>>) = {}
<1>1. ToSet(<<>>) = {}
  BY DEF ToSet
<1> QED
  BY <1>1 DEF Pressed, LongPressed

\* The keys of one event.
LEMMA EventFacts ==
  ASSUME NEW key \in Keys
  PROVE  /\ Pressed(<<>>) = {} /\ LongPressed(<<>>) = {}
         /\ Pressed(PressOf(key)) = {key} /\ LongPressed(PressOf(key)) = {}
         /\ Pressed(LongPressOf(key)) = {} /\ LongPressed(LongPressOf(key)) = {key}
<1>1. /\ ToSet(<<>>) = {}
      /\ ToSet(PressOf(key)) = {[type |-> "PRESS", key |-> key]}
      /\ ToSet(LongPressOf(key)) = {[type |-> "LONG_PRESS", key |-> key]}
  BY DEF ToSet, PressOf, LongPressOf
<1>2. ASSUME NEW ev, ToSet(ev) = {[type |-> "PRESS", key |-> key]}
      PROVE  Pressed(ev) = {key} /\ LongPressed(ev) = {}
  <2> DEFINE e == [type |-> "PRESS", key |-> key]
  <2>1. e.type = "PRESS" /\ e.key = key /\ ToSet(ev) = {e}
    BY <1>2
  <2> HIDE DEF e
  <2>2. /\ {x \in ToSet(ev) : x.type = "PRESS"} = {e}
        /\ {x \in ToSet(ev) : x.type = "LONG_PRESS"} = {}
    BY <2>1
  <2> QED
    BY <2>1, <2>2 DEF Pressed, LongPressed
<1>3. ASSUME NEW ev, ToSet(ev) = {[type |-> "LONG_PRESS", key |-> key]}
      PROVE  Pressed(ev) = {} /\ LongPressed(ev) = {key}
  <2> DEFINE e == [type |-> "LONG_PRESS", key |-> key]
  <2>1. e.type = "LONG_PRESS" /\ e.key = key /\ ToSet(ev) = {e}
    BY <1>3
  <2> HIDE DEF e
  <2>2. /\ {x \in ToSet(ev) : x.type = "PRESS"} = {}
        /\ {x \in ToSet(ev) : x.type = "LONG_PRESS"} = {e}
    BY <2>1
  <2> QED
    BY <2>1, <2>2 DEF Pressed, LongPressed
<1> QED
  BY <1>1, <1>2, <1>3, NoEventFacts

\* A scan that puts nothing out adds nothing to the history.
LEMMA NothingCounted ==
  ASSUME NEW h \in History
  PROVE  Counted(h, <<>>) = h
<1>1. Counted(h, <<>>) = [h EXCEPT !.long = h.long \/ FALSE]
  BY NoEventFacts DEF Counted
<1>2. (h.long \/ FALSE) = h.long
  BY DEF History
<1> QED
  BY <1>1, <1>2, Zenon DEF History

\* The history once an event is counted: a PRESS starts it anew.
LEMMA CountedFacts ==
  ASSUME NEW h \in History, NEW key \in Keys
  PROVE  /\ Counted(h, <<>>) = h
         /\ LET p == Counted(h, PressOf(key))
            IN  /\ p \in History
                /\ p.raw = h.raw /\ p.steady = h.steady /\ p.away = h.away
                /\ p.last = key /\ p.off = -1 /\ p.since = 0
                /\ ~p.let_go /\ ~p.ghosted /\ ~p.long
         /\ LET l == Counted(h, LongPressOf(key))
            IN  /\ l \in History
                /\ l = [h EXCEPT !.long = TRUE]
<1>1. Counted(h, <<>>) = h
  BY NothingCounted
<1>2. Counted(h, PressOf(key)) =
        [h EXCEPT !.last = key, !.off = -1, !.let_go = FALSE, !.ghosted = FALSE,
                  !.since = 0, !.long = FALSE]
  <2>1. Pressed(PressOf(key)) = {key}
    BY EventFacts
  <2>2. (CHOOSE k \in {key} : TRUE) = key
    OBVIOUS
  <2> QED
    BY <2>1, <2>2, Zenon DEF Counted
<1>3. Counted(h, LongPressOf(key)) = [h EXCEPT !.long = TRUE]
  BY EventFacts DEF Counted
<1>4. -1 \in -1..Debounce /\ 0 \in 0..LongPress /\ key \in Key
  BY KeypadNumbers DEF Key
<1>5. [h EXCEPT !.last = key, !.off = -1, !.let_go = FALSE, !.ghosted = FALSE,
                !.since = 0, !.long = FALSE] \in History
  BY <1>4 DEF History
<1>6. [h EXCEPT !.long = TRUE] \in History
  BY Zenon DEF History
<1>7. LET p == Counted(h, PressOf(key))
      IN  /\ p \in History
          /\ p.raw = h.raw /\ p.steady = h.steady /\ p.away = h.away
          /\ p.last = key /\ p.off = -1 /\ p.since = 0
          /\ ~p.let_go /\ ~p.ghosted /\ ~p.long
  BY <1>2, <1>5 DEF History
<1> QED
  BY <1>1, <1>3, <1>6, <1>7

\* A reading, and what kp_logic sees of it.
LEMMA SeenFacts ==
  ASSUME NEW st \in KpLogic, NEW raw \in Readings
  PROVE  /\ Seen(st, raw) \in Key
         /\ Seen(st, raw) # NoKey => raw = {Seen(st, raw)} /\ ~Blocked(st, raw)
         /\ Seen(st, raw) = NoKey => raw = {} \/ Blocked(st, raw)
         /\ Blocked(st, raw) \in BOOLEAN
         /\ raw = {} => ~Blocked(st, raw)
<1>1. CASE raw = {} \/ Blocked(st, raw)
  BY <1>1 DEF Seen, Key, Blocked
<1>2. CASE ~(raw = {} \/ Blocked(st, raw))
  <2>1. \A j, k \in raw : j = k
    BY <1>2 DEF Blocked
  <2>2. PICK key \in raw : TRUE
    BY <1>2
  <2>3. raw = {key} /\ key \in Keys /\ key # NoKey
    BY <2>1, <2>2, KeypadAssumption DEF Readings
  <2>4. Seen(st, raw) = key
    BY <1>2, <2>3 DEF Seen
  <2> QED
    BY <1>2, <2>3, <2>4 DEF Key, Blocked
<1> QED
  BY <1>1, <1>2

\* The history after one more reading.
LEMMA RememberedFacts ==
  ASSUME NEW h \in History, NEW raw \in Readings, NEW gap \in 1..MaxGap
  PROVE  LET m == Remembered(h, raw, gap)
         IN  /\ m \in History
             /\ m.raw = raw /\ m.last = h.last /\ m.off = OffFor(h, raw, gap)
             /\ m.steady = IF raw = h.raw THEN UpTo(Debounce, h.steady + gap) ELSE 0
             /\ m.since = UpTo(LongPress, h.since + gap)
             /\ m.away = UpTo(AwayEnough, h.away + gap)
             /\ m.long = h.long
             /\ h.ghosted => m.ghosted
             /\ (\E j, k \in raw : j # k) => m.ghosted
             /\ h.let_go => m.let_go
             /\ m.off >= Debounce => m.let_go
             /\ h.ghosted /\ raw = {} => m.let_go
<1> DEFINE off == OffFor(h, raw, gap)
           steady == IF raw = h.raw THEN UpTo(Debounce, h.steady + gap) ELSE 0
           ghosted == h.ghosted \/ \E j, k \in raw : j # k
           let_go == h.let_go \/ off >= Debounce \/ (h.ghosted /\ raw = {})
           since == UpTo(LongPress, h.since + gap)
           away == UpTo(AwayEnough, h.away + gap)
           m == Remembered(h, raw, gap)
<1>1. m = [h EXCEPT !.raw = raw, !.steady = steady, !.off = off, !.ghosted = ghosted,
                    !.let_go = let_go, !.since = since, !.away = away]
  BY Zenon DEF Remembered
<1>2. AwayEnough \in Nat
  BY KeypadNumbers DEF AwayEnough
<1>3. /\ h.steady \in Nat /\ h.since \in Nat /\ h.away \in Nat /\ h.off \in Int
      /\ h.off >= -1 /\ gap \in Nat
  BY <1>2, KeypadNumbers DEF History
<1>4. /\ steady \in 0..Debounce /\ since \in 0..LongPress /\ away \in 0..AwayEnough
      /\ off \in -1..Debounce
  <2>1. UpTo(Debounce, h.steady + gap) \in 0..Debounce /\ 0 \in 0..Debounce
    BY <1>3, KeypadNumbers DEF UpTo
  <2>2. since \in 0..LongPress
    BY <1>3, KeypadNumbers DEF UpTo
  <2>3. away \in 0..AwayEnough
    BY <1>2, <1>3 DEF UpTo
  <2>4. off \in -1..Debounce
    <3>1. h.off # -1 => h.off + gap \in Nat
      BY <1>3
    <3>2. h.off # -1 => UpTo(Debounce, h.off + gap) \in 0..Debounce
      BY <3>1, KeypadNumbers DEF UpTo
    <3>3. -1 \in -1..Debounce /\ 0 \in -1..Debounce
          /\ \A x \in 0..Debounce : x \in -1..Debounce
      BY KeypadNumbers
    <3> QED
      BY <3>2, <3>3 DEF OffFor
  <2> QED
    BY <2>1, <2>2, <2>3, <2>4
<1>5. ghosted \in BOOLEAN /\ let_go \in BOOLEAN
  OBVIOUS
<1>6. /\ h.ghosted => ghosted
      /\ (\E j, k \in raw : j # k) => ghosted
      /\ h.let_go => let_go
      /\ off >= Debounce => let_go
      /\ h.ghosted /\ raw = {} => let_go
  OBVIOUS
<1> HIDE DEF off, steady, ghosted, let_go, since, away, m
<1>7. /\ m \in History
      /\ m.raw = raw /\ m.last = h.last /\ m.off = off /\ m.steady = steady
      /\ m.since = since /\ m.away = away /\ m.long = h.long
      /\ m.ghosted = ghosted /\ m.let_go = let_go
  BY <1>1, <1>4, <1>5, Zenon DEF History
<1> QED
  BY <1>6, <1>7, Zenon DEF off, steady, since, away, m

\* The rest of the logic while a reading is not taken.
Waits(st, raw, gap, lg) ==
  /\ lg.stable = st.stable /\ lg.held = st.held
  /\ lg.press_age = UpTo(LongPress, st.press_age + gap)
  /\ lg.candidate_pending =>
       /\ lg.candidate = Seen(st, raw) /\ lg.candidate # st.stable
       /\ \/ lg.candidate_age = 0
          \/ /\ st.candidate_pending /\ st.candidate = lg.candidate
             /\ lg.candidate_age = UpTo(Debounce, st.candidate_age + gap)

\* A reading that has lasted is taken.
Takes(st, raw, gap, lg) ==
  /\ Seen(st, raw) # st.stable
  /\ st.candidate_pending /\ st.candidate = Seen(st, raw)
  /\ UpTo(Debounce, st.candidate_age + gap) >= Debounce
  /\ lg.stable = Seen(st, raw) /\ lg.held = Seen(st, raw)
  /\ lg.press_age = 0 /\ ~lg.candidate_pending /\ ~lg.long_fired

\* The debounce takes a reading or waits.
LEMMA DebouncedCases ==
  ASSUME NEW st \in KpLogic, NEW raw \in Readings, NEW gap \in 1..MaxGap,
         NEW old, old = [Aged(st, gap) EXCEPT !.ghost_blocked = Blocked(st, raw)]
  PROVE  LET new == Debounced(old, Seen(st, raw))
         IN  /\ old \in KpLogic /\ new \in KpLogic
             /\ old.stable = st.stable
             /\ new.ghost_blocked = Blocked(st, raw)
             /\ \/ Waits(st, raw, gap, new) /\ new.long_fired = st.long_fired
                \/ Takes(st, raw, gap, new)
<1> DEFINE c == UpTo(Debounce, st.candidate_age + gap)
           p == UpTo(LongPress, st.press_age + gap)
           b == Blocked(st, raw)
           key == Seen(st, raw)
           new == Debounced(old, key)
<1>1. c \in 0..Debounce /\ p \in 0..LongPress /\ 0 \in 0..Debounce /\ 0 \in 0..LongPress
  <2>1. st.candidate_age \in Nat /\ st.press_age \in Nat /\ gap \in Nat
    BY KeypadNumbers DEF KpLogic
  <2> QED
    BY <2>1, KeypadNumbers DEF UpTo
<1>2. b \in BOOLEAN /\ key \in Key
  BY SeenFacts
<1>3. old = [st EXCEPT !.candidate_age = c, !.press_age = p, !.ghost_blocked = b]
  BY DEF Aged
<1> HIDE DEF c, p, b, key
<1>4. /\ old \in KpLogic
      /\ old.stable = st.stable /\ old.held = st.held /\ old.candidate = st.candidate
      /\ old.candidate_age = c /\ old.press_age = p /\ old.ghost_blocked = b
      /\ old.candidate_pending = st.candidate_pending
      /\ old.long_fired = st.long_fired
  BY <1>1, <1>2, <1>3, Zenon DEF KpLogic
<1>5. CASE key = old.stable
  <2>1. new = [old EXCEPT !.candidate_pending = FALSE]
    BY <1>5 DEF Debounced
  <2> HIDE DEF new
  <2>2. /\ new \in KpLogic /\ new.stable = old.stable /\ new.held = old.held
        /\ new.press_age = p /\ new.candidate_pending = FALSE
        /\ new.long_fired = old.long_fired /\ new.ghost_blocked = b
    BY <1>4, <2>1, Zenon DEF KpLogic
  <2>3. Waits(st, raw, gap, new)
    BY <1>4, <2>2 DEF Waits, p
  <2> QED
    BY <1>4, <2>2, <2>3 DEF new, b, key
<1>6. CASE key # old.stable /\ ~Awaits(old, key)
  <2>1. new = [old EXCEPT !.candidate = key, !.candidate_age = 0,
                          !.candidate_pending = TRUE]
    BY <1>6 DEF Debounced
  <2> HIDE DEF new
  <2>2. /\ new \in KpLogic /\ new.stable = old.stable /\ new.held = old.held
        /\ new.press_age = p /\ new.candidate = key /\ new.candidate_age = 0
        /\ new.long_fired = old.long_fired /\ new.ghost_blocked = b
    BY <1>1, <1>2, <1>4, <2>1, Zenon DEF KpLogic
  <2>3. Waits(st, raw, gap, new)
    BY <1>4, <1>6, <2>2 DEF Waits, p, key
  <2> QED
    BY <1>4, <2>2, <2>3 DEF new, b, key
<1>7. CASE key # old.stable /\ Awaits(old, key) /\ old.candidate_age >= Debounce
  <2>1. new = [old EXCEPT !.stable = old.candidate, !.candidate_pending = FALSE,
                          !.held = old.candidate, !.press_age = 0, !.long_fired = FALSE]
    BY <1>7 DEF Debounced, Accepted
  <2>2. old.candidate = key /\ old.candidate_pending
    BY <1>7 DEF Awaits
  <2> HIDE DEF new
  <2>3. /\ new \in KpLogic /\ new.stable = key /\ new.held = key
        /\ new.press_age = 0 /\ new.candidate_pending = FALSE
        /\ new.long_fired = FALSE /\ new.ghost_blocked = b
    BY <1>1, <1>2, <1>4, <2>1, <2>2, Zenon DEF KpLogic
  <2>4. Takes(st, raw, gap, new)
    BY <1>4, <1>7, <2>2, <2>3 DEF Takes, c, key
  <2> QED
    BY <1>4, <2>3, <2>4 DEF new, b, key
<1>8. CASE key # old.stable /\ Awaits(old, key) /\ ~(old.candidate_age >= Debounce)
  <2>1. new = old
    BY <1>8 DEF Debounced
  <2>2. old.candidate = key /\ old.candidate_pending
    BY <1>8 DEF Awaits
  <2> HIDE DEF new
  <2>3. Waits(st, raw, gap, new)
    BY <1>4, <1>8, <2>1, <2>2 DEF Waits, p, c, key
  <2> QED
    BY <1>4, <2>1, <2>3 DEF new, b, key
<1> QED
  BY <1>5, <1>6, <1>7, <1>8

\* What kp_logic_update does.
LEMMA UpdateCases ==
  ASSUME NEW st \in KpLogic, st.held = st.stable,
         NEW raw \in Readings, NEW gap \in 1..MaxGap
  PROVE  LET lg == KpLogicUpdate(st, raw, gap).logic
             ev == KpLogicUpdate(st, raw, gap).events
         IN  /\ lg \in KpLogic /\ lg.ghost_blocked = Blocked(st, raw)
             /\ \/ /\ Waits(st, raw, gap, lg) /\ ev = <<>>
                   /\ lg.long_fired = st.long_fired
                   /\ ~(st.stable # NoKey /\ ~st.long_fired /\ lg.press_age >= LongPress)
                \/ /\ Waits(st, raw, gap, lg) /\ ev = LongPressOf(st.stable)
                   /\ st.stable # NoKey /\ ~st.long_fired
                   /\ lg.press_age >= LongPress /\ lg.long_fired
                \/ /\ Takes(st, raw, gap, lg)
                   /\ ev = IF Seen(st, raw) # NoKey THEN PressOf(Seen(st, raw)) ELSE <<>>
<1> DEFINE old == [Aged(st, gap) EXCEPT !.ghost_blocked = Blocked(st, raw)]
           new == Debounced(old, Seen(st, raw))
           down == new.stable # old.stable /\ new.stable # NoKey
           long == LongFires(new)
           lg == KpLogicUpdate(st, raw, gap).logic
           ev == KpLogicUpdate(st, raw, gap).events
<1>1. /\ lg = [new EXCEPT !.long_fired = new.long_fired \/ long]
      /\ ev = (IF down THEN PressOf(new.stable) ELSE <<>>)
                \o (IF long THEN LongPressOf(new.held) ELSE <<>>)
  BY DEF KpLogicUpdate, PressOf, LongPressOf
<1>2. /\ old \in KpLogic /\ new \in KpLogic
      /\ old.stable = st.stable
      /\ new.ghost_blocked = Blocked(st, raw)
      /\ \/ Waits(st, raw, gap, new) /\ new.long_fired = st.long_fired
         \/ Takes(st, raw, gap, new)
  BY DebouncedCases
<1>3. long \in BOOLEAN /\ down \in BOOLEAN
  BY DEF LongFires
<1> HIDE DEF old, new, long, lg, ev
<1>4. /\ lg \in KpLogic /\ lg.ghost_blocked = Blocked(st, raw)
      /\ lg.stable = new.stable /\ lg.held = new.held /\ lg.press_age = new.press_age
      /\ lg.candidate = new.candidate /\ lg.candidate_age = new.candidate_age
      /\ lg.candidate_pending = new.candidate_pending
      /\ lg.long_fired = (new.long_fired \/ long)
  <2>1. (new.long_fired \/ long) \in BOOLEAN
    OBVIOUS
  <2> QED
    BY <1>1, <1>2, <2>1, Zenon DEF KpLogic
<1>5. <<>> \o <<>> = <<>> /\ \A e : <<e>> \o <<>> = <<e>> /\ <<>> \o <<e>> = <<e>>
  OBVIOUS
<1>6. CASE Waits(st, raw, gap, new) /\ new.long_fired = st.long_fired
  <2>1. Waits(st, raw, gap, lg)
    BY <1>4, <1>6 DEF Waits
  <2>2. ~down
    BY <1>2, <1>6 DEF Waits
  <2>3. new.held = st.stable /\ new.press_age = lg.press_age
    BY <1>4, <1>6 DEF Waits
  <2>4. long <=> st.stable # NoKey /\ ~st.long_fired /\ lg.press_age >= LongPress
    BY <1>6, <2>3 DEF long, LongFires
  <2>5. CASE long
    <3>1. ev = LongPressOf(st.stable)
      BY <1>1, <1>5, <2>2, <2>3, <2>5 DEF LongPressOf
    <3> QED
      BY <1>4, <2>1, <2>4, <2>5, <3>1, Zenon DEF lg, ev
  <2>6. CASE ~long
    <3>1. ev = <<>>
      BY <1>1, <1>5, <2>2, <2>6
    <3>2. lg.long_fired = st.long_fired
      BY <1>2, <1>4, <1>6, <2>6 DEF KpLogic
    <3> QED
      BY <1>4, <2>1, <2>4, <2>6, <3>1, <3>2, Zenon DEF lg, ev
  <2> QED
    BY <2>5, <2>6
<1>7. CASE Takes(st, raw, gap, new)
  <2>1. ~long
    BY <1>7, KeypadNumbers DEF long, LongFires, Takes
  <2>2. Takes(st, raw, gap, lg)
    BY <1>4, <1>7, <2>1, Zenon DEF Takes
  <2>3. down <=> Seen(st, raw) # NoKey
    BY <1>2, <1>7 DEF Takes
  <2>4. new.stable = Seen(st, raw)
    BY <1>7 DEF Takes
  <2>5. ev = IF Seen(st, raw) # NoKey THEN PressOf(Seen(st, raw)) ELSE <<>>
    BY <1>1, <1>5, <2>1, <2>3, <2>4 DEF PressOf
  <2> QED
    BY <1>4, <2>2, <2>5, Zenon DEF lg, ev
<1> QED
  BY <1>2, <1>6, <1>7

-----------------------------------------------------------------------------
(* What the logic and the history have in common *)

HeldIsLast(lg, h) ==
  /\ lg.held = lg.stable
  /\ lg.stable # NoKey => lg.stable = h.last
  /\ lg.candidate_pending => lg.candidate # lg.stable

CandidateShown(lg, h) ==
  lg.candidate_pending /\ lg.candidate # NoKey =>
    h.raw = {lg.candidate} /\ lg.candidate_age <= h.steady

Loose(lg, h) == h.let_go \/ (lg.ghost_blocked /\ h.ghosted)

LetGo(lg, h) ==
  /\ lg.ghost_blocked => h.ghosted
  /\ lg.candidate_pending /\ lg.candidate = NoKey =>
       lg.candidate_age <= h.off \/ Loose(lg, h)
  /\ lg.stable = NoKey /\ h.last # NoKey => Loose(lg, h)

LongKnown(lg, h) ==
  lg.stable # NoKey =>
    /\ lg.press_age <= h.since
    /\ ~lg.long_fired => ~h.long
    /\ lg.candidate_pending => lg.candidate_age <= lg.press_age

Agree(lg, h) ==
  HeldIsLast(lg, h) /\ CandidateShown(lg, h) /\ LetGo(lg, h) /\ LongKnown(lg, h)

\* KeysAreReal, of any events and any history.
Real(h, ev) ==
  /\ \A key \in Pressed(ev) :
       /\ h.raw = {key} /\ h.steady >= Debounce
       /\ key = h.last => h.let_go
  /\ \A key \in LongPressed(ev) :
       key = h.last /\ h.since >= LongPress /\ ~h.long

\* Ages are numbers, and so are they a scan later.
LEMMA AgeFacts ==
  ASSUME NEW st \in KpLogic, NEW h \in History, NEW gap \in 1..MaxGap
  PROVE  /\ gap \in Nat /\ st.candidate_age \in Nat /\ st.press_age \in Nat
         /\ h.steady \in Nat /\ h.since \in Nat /\ h.away \in Nat
         /\ h.off \in Int /\ h.off >= -1
         /\ st.candidate_age + gap \in Nat /\ st.press_age + gap \in Nat
         /\ h.steady + gap \in Nat /\ h.since + gap \in Nat
         /\ h.off # -1 => h.off \in Nat /\ h.off + gap \in Nat
<1>1. AwayEnough \in Nat
  BY KeypadNumbers DEF AwayEnough
<1>2. /\ gap \in Nat /\ st.candidate_age \in Nat /\ st.press_age \in Nat
      /\ h.steady \in Nat /\ h.since \in Nat /\ h.away \in Nat
      /\ h.off \in Int /\ h.off >= -1
  BY <1>1, KeypadNumbers DEF KpLogic, History
<1> QED
  BY <1>2

\* The key of last is let go, or will be once nothing is read at all.
LEMMA LooseStays ==
  ASSUME NEW st \in KpLogic, NEW h \in History, NEW raw \in Readings,
         NEW gap \in 1..MaxGap, Loose(st, h), NEW lg,
         lg.ghost_blocked = Blocked(st, raw)
  PROVE  /\ Loose(lg, Remembered(h, raw, gap))
         /\ ~lg.ghost_blocked => Remembered(h, raw, gap).let_go
<1> DEFINE m == Remembered(h, raw, gap)
<1>1. /\ h.ghosted => m.ghosted
      /\ h.let_go => m.let_go
      /\ h.ghosted /\ raw = {} => m.let_go
  BY RememberedFacts
<1> HIDE DEF m
<1>2. CASE h.let_go
  BY <1>1, <1>2 DEF Loose, m
<1>3. CASE st.ghost_blocked /\ h.ghosted
  <2>1. CASE raw = {}
    BY <1>1, <1>3, <2>1 DEF Loose, m
  <2>2. CASE raw # {}
    BY <1>1, <1>3, <2>2 DEF Loose, Blocked, m
  <2> QED
    BY <2>1, <2>2
<1> QED
  BY <1>2, <1>3 DEF Loose

\* Ghosts since the last press.
LEMMA GhostsAreRemembered ==
  ASSUME NEW st \in KpLogic, NEW h \in History, NEW raw \in Readings,
         NEW gap \in 1..MaxGap, st.ghost_blocked => h.ghosted, Blocked(st, raw)
  PROVE  Remembered(h, raw, gap).ghosted
<1>1. \/ h.ghosted \/ \E j, k \in raw : j # k
  BY DEF Blocked
<1> QED
  BY <1>1, RememberedFacts

\* A reading of no key, for as long as its candidate waits.
LEMMA NoKeyAges ==
  ASSUME NEW st \in KpLogic, NEW h \in History, Agree(st, h), NEW raw \in Readings,
         NEW gap \in 1..MaxGap, Seen(st, raw) = NoKey,
         NEW lg, lg.ghost_blocked = Blocked(st, raw),
         NEW age \in Nat,
         \/ age = 0
         \/ /\ st.candidate_pending /\ st.candidate = NoKey
            /\ age = UpTo(Debounce, st.candidate_age + gap)
  PROVE  age <= Remembered(h, raw, gap).off \/ Loose(lg, Remembered(h, raw, gap))
<1> DEFINE m == Remembered(h, raw, gap)
<1>1. m.off = OffFor(h, raw, gap)
  BY RememberedFacts
<1>2. CASE Blocked(st, raw)
  <2>1. m.ghosted
    BY <1>2, GhostsAreRemembered DEF Agree, LetGo
  <2> HIDE DEF m
  <2> QED
    BY <1>2, <2>1 DEF Loose, m
<1>3. CASE Loose(st, h)
  BY <1>3, LooseStays
<1>4. CASE ~Blocked(st, raw) /\ ~Loose(st, h)
  <2>1. raw = {} /\ raw # {h.last}
    BY <1>4, SeenFacts
  <2>2. age = 0 => age <= m.off
    <3>1. h.off # -1 => UpTo(Debounce, h.off + gap) >= 0
      BY AgeFacts, KeypadNumbers DEF UpTo
    <3>2. m.off = IF h.off = -1 THEN 0 ELSE UpTo(Debounce, h.off + gap)
      BY <1>1, <2>1 DEF OffFor
    <3> HIDE DEF m
    <3> QED
      BY <3>1, <3>2
  <2>3. ASSUME st.candidate_pending, st.candidate = NoKey,
               age = UpTo(Debounce, st.candidate_age + gap)
        PROVE  age <= m.off
    <3>1. st.candidate_age <= h.off
      BY <1>4, <2>3 DEF Agree, LetGo
    <3>2. h.off # -1 /\ h.off \in Nat
      BY <3>1, AgeFacts
    <3>3. m.off = UpTo(Debounce, h.off + gap)
      BY <1>1, <2>1, <3>2 DEF OffFor
    <3>4. UpTo(Debounce, st.candidate_age + gap) <= UpTo(Debounce, h.off + gap)
      BY <3>1, <3>2, AgeFacts, KeypadNumbers DEF UpTo
    <3> QED
      BY <2>3, <3>3, <3>4
  <2> QED
    BY <2>2, <2>3
<1> QED
  BY <1>2, <1>3, <1>4

\* A scan that takes no reading.
LEMMA WaitingAgrees ==
  ASSUME NEW st \in KpLogic, NEW h \in History, Agree(st, h), NEW raw \in Readings,
         NEW gap \in 1..MaxGap, NEW lg \in KpLogic, Waits(st, raw, gap, lg),
         lg.ghost_blocked = Blocked(st, raw),
         ~lg.long_fired => ~st.long_fired
  PROVE  Agree(lg, Remembered(h, raw, gap))
<1> DEFINE m == Remembered(h, raw, gap)
<1>1. /\ m \in History /\ m.raw = raw /\ m.last = h.last /\ m.long = h.long
      /\ m.steady = IF raw = h.raw THEN UpTo(Debounce, h.steady + gap) ELSE 0
      /\ m.since = UpTo(LongPress, h.since + gap)
  BY RememberedFacts
<1>2. lg.candidate_age \in Nat /\ m.steady \in Nat
  BY <1>1, AgeFacts DEF History
<1>3. /\ lg.stable = st.stable /\ lg.held = st.held
      /\ lg.press_age = UpTo(LongPress, st.press_age + gap)
      /\ lg.candidate_pending =>
           /\ lg.candidate = Seen(st, raw) /\ lg.candidate # st.stable
           /\ \/ lg.candidate_age = 0
              \/ /\ st.candidate_pending /\ st.candidate = lg.candidate
                 /\ lg.candidate_age = UpTo(Debounce, st.candidate_age + gap)
  BY DEF Waits
<1>4. HeldIsLast(lg, m)
  <2> HIDE DEF m
  <2> QED
    BY <1>1, <1>3 DEF Agree, HeldIsLast
<1>5. CandidateShown(lg, m)
  <2> HIDE DEF m
  <2> SUFFICES ASSUME lg.candidate_pending, lg.candidate # NoKey
               PROVE  m.raw = {lg.candidate} /\ lg.candidate_age <= m.steady
    BY DEF CandidateShown
  <2>1. raw = {lg.candidate}
    BY <1>3, SeenFacts
  <2>2. CASE lg.candidate_age = 0
    BY <1>1, <1>2, <2>1, <2>2
  <2>3. CASE lg.candidate_age # 0
    <3>1. /\ st.candidate_pending /\ st.candidate = lg.candidate
          /\ lg.candidate_age = UpTo(Debounce, st.candidate_age + gap)
      BY <1>3, <2>3
    <3>2. h.raw = raw /\ st.candidate_age <= h.steady
      BY <2>1, <3>1 DEF Agree, CandidateShown
    <3>3. UpTo(Debounce, st.candidate_age + gap) <= UpTo(Debounce, h.steady + gap)
      BY <3>2, AgeFacts, KeypadNumbers DEF UpTo
    <3> QED
      BY <1>1, <2>1, <3>1, <3>2, <3>3
  <2> QED
    BY <2>2, <2>3
<1>6. LetGo(lg, m)
  <2>1. lg.ghost_blocked => m.ghosted
    BY GhostsAreRemembered DEF Agree, LetGo
  <2>2. ASSUME lg.candidate_pending, lg.candidate = NoKey
        PROVE  lg.candidate_age <= m.off \/ Loose(lg, m)
    <3>1. /\ Seen(st, raw) = NoKey
          /\ \/ lg.candidate_age = 0
             \/ /\ st.candidate_pending /\ st.candidate = NoKey
                /\ lg.candidate_age = UpTo(Debounce, st.candidate_age + gap)
      BY <1>3, <2>2
    <3> QED
      BY <1>2, <3>1, NoKeyAges
  <2>3. ASSUME lg.stable = NoKey, m.last # NoKey PROVE Loose(lg, m)
    <3>1. Loose(st, h)
      BY <1>1, <1>3, <2>3 DEF Agree, LetGo
    <3> QED
      BY <3>1, LooseStays
  <2> HIDE DEF m
  <2> QED
    BY <2>1, <2>2, <2>3 DEF LetGo
<1>7. LongKnown(lg, m)
  <2> HIDE DEF m
  <2> SUFFICES ASSUME lg.stable # NoKey
               PROVE  /\ lg.press_age <= m.since
                      /\ ~lg.long_fired => ~m.long
                      /\ lg.candidate_pending => lg.candidate_age <= lg.press_age
    BY DEF LongKnown
  <2>1. /\ st.press_age <= h.since
        /\ ~st.long_fired => ~h.long
        /\ st.candidate_pending => st.candidate_age <= st.press_age
    BY <1>3 DEF Agree, LongKnown
  <2>2. lg.press_age <= m.since
    BY <1>1, <1>3, <2>1, AgeFacts, KeypadNumbers DEF UpTo
  <2>3. ~lg.long_fired => ~m.long
    BY <1>1, <2>1
  <2>4. ASSUME lg.candidate_pending PROVE lg.candidate_age <= lg.press_age
    <3>1. CASE lg.candidate_age = 0
      BY <1>3, <3>1, AgeFacts, KeypadNumbers DEF UpTo
    <3>2. CASE lg.candidate_age # 0
      <4>1. /\ lg.candidate_age = UpTo(Debounce, st.candidate_age + gap)
            /\ st.candidate_age <= st.press_age
        BY <1>3, <2>1, <2>4, <3>2
      <4>2. UpTo(Debounce, st.candidate_age + gap) <= UpTo(LongPress, st.press_age + gap)
        BY <4>1, AgeFacts, KeypadNumbers DEF UpTo
      <4> QED
        BY <1>3, <4>1, <4>2
    <3> QED
      BY <3>1, <3>2
  <2> QED
    BY <2>2, <2>3, <2>4
<1> HIDE DEF m
<1> QED
  BY <1>4, <1>5, <1>6, <1>7 DEF Agree, m

\* A scan that takes the reading of no key.
LEMMA ReleaseAgrees ==
  ASSUME NEW st \in KpLogic, NEW h \in History, Agree(st, h), NEW raw \in Readings,
         NEW gap \in 1..MaxGap, NEW lg \in KpLogic, Takes(st, raw, gap, lg),
         lg.ghost_blocked = Blocked(st, raw), Seen(st, raw) = NoKey
  PROVE  Agree(lg, Remembered(h, raw, gap))
<1> DEFINE m == Remembered(h, raw, gap)
           age == UpTo(Debounce, st.candidate_age + gap)
<1>1. /\ lg.stable = NoKey /\ lg.held = NoKey /\ ~lg.candidate_pending
      /\ st.candidate_pending /\ st.candidate = NoKey /\ age >= Debounce
  BY DEF Takes
<1>2. age \in Nat /\ Debounce \in Nat
  BY AgeFacts, KeypadNumbers DEF UpTo
<1>3. age <= m.off \/ Loose(lg, m)
  BY <1>1, <1>2, NoKeyAges
<1>4. /\ m \in History /\ m.off \in Int
      /\ m.off >= Debounce => m.let_go
  <2>1. m \in History /\ (m.off >= Debounce => m.let_go)
    BY RememberedFacts
  <2> HIDE DEF m
  <2> QED
    BY <2>1, KeypadNumbers DEF History
<1> HIDE DEF age
<1>5. Loose(lg, m)
  <2> HIDE DEF m
  <2>1. age <= m.off => m.off >= Debounce
    BY <1>1, <1>2, <1>4
  <2> QED
    BY <1>3, <1>4, <2>1 DEF Loose
<1>6. lg.ghost_blocked => m.ghosted
  BY GhostsAreRemembered DEF Agree, LetGo
<1> HIDE DEF m
<1> QED
  BY <1>1, <1>5, <1>6 DEF Agree, HeldIsLast, CandidateShown, LetGo, LongKnown, m

\* A scan that takes the reading of a key.
LEMMA PressAgrees ==
  ASSUME NEW st \in KpLogic, NEW h \in History, Agree(st, h), NEW raw \in Readings,
         NEW gap \in 1..MaxGap, NEW lg \in KpLogic, Takes(st, raw, gap, lg),
         lg.ghost_blocked = Blocked(st, raw), Seen(st, raw) # NoKey
  PROVE  LET key == Seen(st, raw)
             m == Remembered(h, raw, gap)
         IN  /\ key \in Keys
             /\ Real(m, PressOf(key))
             /\ Agree(lg, Counted(m, PressOf(key)))
<1> DEFINE key == Seen(st, raw)
           m == Remembered(h, raw, gap)
           p == Counted(m, PressOf(key))
<1>1. /\ key \in Keys /\ raw = {key} /\ ~Blocked(st, raw)
  BY SeenFacts DEF Key
<1>2. /\ key # st.stable /\ lg.stable = key /\ lg.held = key /\ ~lg.candidate_pending
      /\ lg.press_age = 0 /\ ~lg.long_fired
      /\ st.candidate_pending /\ st.candidate = key
      /\ UpTo(Debounce, st.candidate_age + gap) >= Debounce
  BY DEF Takes
<1>3. /\ m \in History /\ m.raw = raw /\ m.last = h.last
      /\ m.steady = IF raw = h.raw THEN UpTo(Debounce, h.steady + gap) ELSE 0
  BY RememberedFacts
<1>4. /\ p \in History /\ p.last = key /\ p.since = 0 /\ ~p.long
  BY <1>1, <1>3, CountedFacts
<1>5. m.steady >= Debounce
  <2>1. h.raw = raw /\ st.candidate_age <= h.steady
    BY <1>1, <1>2 DEF Agree, CandidateShown
  <2>2. UpTo(Debounce, st.candidate_age + gap) <= UpTo(Debounce, h.steady + gap)
    BY <2>1, AgeFacts, KeypadNumbers DEF UpTo
  <2>3. UpTo(Debounce, st.candidate_age + gap) \in Nat /\ UpTo(Debounce, h.steady + gap) \in Nat
    BY AgeFacts, KeypadNumbers DEF UpTo
  <2> HIDE DEF m
  <2> QED
    BY <1>2, <1>3, <2>1, <2>2, <2>3, KeypadNumbers
<1>6. key = m.last => m.let_go
  <2> SUFFICES ASSUME key = h.last PROVE m.let_go
    BY <1>3
  <2>1. st.stable = NoKey /\ h.last # NoKey
    BY <1>1, <1>2, KeypadAssumption DEF Agree, HeldIsLast
  <2>2. Loose(st, h)
    BY <2>1 DEF Agree, LetGo
  <2> QED
    BY <1>1, <2>2, LooseStays
<1>7. Pressed(PressOf(key)) = {key} /\ LongPressed(PressOf(key)) = {}
  BY <1>1, EventFacts
<1> HIDE DEF key, m, p
<1>8. Real(m, PressOf(key))
  BY <1>1, <1>3, <1>5, <1>6, <1>7 DEF Real
<1>9. Agree(lg, p)
  BY <1>1, <1>2, <1>4 DEF Agree, HeldIsLast, CandidateShown, LetGo, LongKnown
<1> QED
  BY <1>1, <1>8, <1>9 DEF key, m, p

\* A scan that notices a long press.
LEMMA LongPressAgrees ==
  ASSUME NEW st \in KpLogic, NEW h \in History, Agree(st, h), NEW raw \in Readings,
         NEW gap \in 1..MaxGap, NEW lg \in KpLogic, Waits(st, raw, gap, lg),
         lg.ghost_blocked = Blocked(st, raw),
         st.stable # NoKey, ~st.long_fired, lg.press_age >= LongPress, lg.long_fired
  PROVE  LET m == Remembered(h, raw, gap)
         IN  /\ st.stable \in Keys
             /\ Real(m, LongPressOf(st.stable))
             /\ Agree(lg, Counted(m, LongPressOf(st.stable)))
<1> DEFINE m == Remembered(h, raw, gap)
           l == Counted(m, LongPressOf(st.stable))
<1>1. st.stable \in Keys /\ lg.stable = st.stable
  BY DEF KpLogic, Key, Waits
<1>2. m \in History /\ m.long = h.long
  BY RememberedFacts
<1>3. Agree(lg, m)
  BY WaitingAgrees
<1>4. l = [m EXCEPT !.long = TRUE] /\ l \in History
  BY <1>1, <1>2, CountedFacts
<1>5. Pressed(LongPressOf(st.stable)) = {} /\ LongPressed(LongPressOf(st.stable)) = {st.stable}
  BY <1>1, EventFacts
<1> HIDE DEF m, l
<1>6. st.stable = m.last /\ m.since >= LongPress /\ ~m.long
  <2>1. lg.stable = m.last /\ lg.press_age <= m.since
    BY <1>1, <1>3 DEF Agree, HeldIsLast, LongKnown
  <2>2. ~h.long
    BY DEF Agree, LongKnown
  <2>3. lg.press_age \in Nat /\ m.since \in Nat
    BY <1>2, KeypadNumbers DEF KpLogic, History
  <2>4. m.since >= LongPress
    BY <2>1, <2>3, KeypadNumbers
  <2> QED
    BY <1>1, <1>2, <2>1, <2>2, <2>4
<1>7. Real(m, LongPressOf(st.stable))
  BY <1>5, <1>6 DEF Real
<1>8. /\ l.raw = m.raw /\ l.steady = m.steady /\ l.last = m.last /\ l.off = m.off
      /\ l.let_go = m.let_go /\ l.ghosted = m.ghosted /\ l.since = m.since
  BY <1>2, <1>4 DEF History
<1>9. Agree(lg, l)
  BY <1>3, <1>8 DEF Agree, HeldIsLast, CandidateShown, LetGo, LongKnown, Loose
<1> QED
  BY <1>1, <1>7, <1>9 DEF m, l

\* Every scan: what it puts out is real, and the two still agree.
LEMMA ScanAgrees ==
  ASSUME NEW st \in KpLogic, NEW h \in History, Agree(st, h), NEW raw \in Readings,
         NEW gap \in 1..MaxGap
  PROVE  LET r == KpLogicUpdate(st, raw, gap)
             m == Remembered(h, raw, gap)
         IN  /\ r.logic \in KpLogic /\ r.events \in EventLists /\ m \in History
             /\ Real(m, r.events)
             /\ Agree(r.logic, Counted(m, r.events))
<1> DEFINE lg == KpLogicUpdate(st, raw, gap).logic
           ev == KpLogicUpdate(st, raw, gap).events
           m == Remembered(h, raw, gap)
<1>1. st.held = st.stable
  BY DEF Agree, HeldIsLast
<1>2. /\ lg \in KpLogic /\ lg.ghost_blocked = Blocked(st, raw)
      /\ \/ /\ Waits(st, raw, gap, lg) /\ ev = <<>>
            /\ lg.long_fired = st.long_fired
            /\ ~(st.stable # NoKey /\ ~st.long_fired /\ lg.press_age >= LongPress)
         \/ /\ Waits(st, raw, gap, lg) /\ ev = LongPressOf(st.stable)
            /\ st.stable # NoKey /\ ~st.long_fired
            /\ lg.press_age >= LongPress /\ lg.long_fired
         \/ /\ Takes(st, raw, gap, lg)
            /\ ev = IF Seen(st, raw) # NoKey THEN PressOf(Seen(st, raw)) ELSE <<>>
  BY <1>1, UpdateCases
<1>3. m \in History
  BY RememberedFacts
<1> HIDE DEF lg, ev
<1>4. Real(m, <<>>) /\ Counted(m, <<>>) = m
  <2>1. Counted(m, <<>>) = m
    BY <1>3, NothingCounted
  <2> QED
    BY <2>1, NoEventFacts DEF Real
<1>5. CASE Waits(st, raw, gap, lg) /\ ev = <<>> /\ lg.long_fired = st.long_fired
  <2>1. Agree(lg, m)
    BY <1>2, <1>5, WaitingAgrees
  <2> QED
    BY <1>2, <1>3, <1>4, <1>5, <2>1 DEF lg, ev, EventLists
<1>6. CASE /\ Waits(st, raw, gap, lg) /\ ev = LongPressOf(st.stable)
           /\ st.stable # NoKey /\ ~st.long_fired
           /\ lg.press_age >= LongPress /\ lg.long_fired
  <2>1. /\ st.stable \in Keys /\ Real(m, ev) /\ Agree(lg, Counted(m, ev))
    BY <1>2, <1>6, LongPressAgrees
  <2> QED
    BY <1>2, <1>3, <1>6, <2>1 DEF lg, ev, EventLists
<1>7. CASE Takes(st, raw, gap, lg) /\ Seen(st, raw) # NoKey /\ ev = PressOf(Seen(st, raw))
  <2>1. /\ Seen(st, raw) \in Keys /\ Real(m, ev) /\ Agree(lg, Counted(m, ev))
    BY <1>2, <1>7, PressAgrees
  <2> QED
    BY <1>2, <1>3, <1>7, <2>1 DEF lg, ev, EventLists
<1>8. CASE Takes(st, raw, gap, lg) /\ Seen(st, raw) = NoKey /\ ev = <<>>
  <2>1. Agree(lg, m)
    BY <1>2, <1>8, ReleaseAgrees
  <2> QED
    BY <1>2, <1>3, <1>4, <1>8, <2>1 DEF lg, ev, EventLists
<1> QED
  BY <1>2, <1>5, <1>6, <1>7, <1>8

-----------------------------------------------------------------------------
(* The queue *)

Unfired(lg) == lg.stable # NoKey /\ ~lg.long_fired

Credit(lg, q, away) ==
  \/ away >= AwayEnough
  \/ q = 0
  \/ Unfired(lg) /\ away + 2 * Debounce >= q * Debounce + lg.press_age
  \/ ~Unfired(lg) /\ away + Debounce >= q * Debounce

\* q events and one more.
LEMMA QueueArithmetic ==
  ASSUME NEW q \in 0..QueueDepth
  PROVE  /\ q \in Nat /\ q * Debounce \in Nat /\ (q + 1) * Debounce = q * Debounce + Debounce
         /\ AwayEnough \in Nat /\ AwayEnough = QueueDepth * Debounce - Debounce
         /\ q = 0 => q * Debounce = 0
         /\ q < QueueDepth => q + 1 \in 0..QueueDepth
<1>1. q \in Nat /\ Debounce \in Nat /\ QueueDepth \in Nat /\ QueueDepth >= 1
  BY KeypadNumbers
<1>2. /\ q * Debounce \in Nat /\ (q + 1) * Debounce = q * Debounce + Debounce
  BY <1>1
<1>3. (QueueDepth - 1) * Debounce \in Nat
      /\ (QueueDepth - 1) * Debounce = QueueDepth * Debounce - Debounce
  BY <1>1
<1> QED
  BY <1>1, <1>2, <1>3 DEF AwayEnough

\* Nothing is put out.
LEMMA QuietCredit ==
  ASSUME NEW st, NEW lg, NEW q \in 0..QueueDepth, NEW away \in 0..AwayEnough,
         NEW later, NEW gap \in Nat, later = UpTo(AwayEnough, away + gap),
         NEW before \in Nat, NEW after \in Nat, before = st.press_age, after = lg.press_age,
         Credit(st, q, away),
         Unfired(lg) => Unfired(st) /\ after <= before + gap,
         Unfired(st) /\ ~Unfired(lg) => before + gap >= Debounce
  PROVE  Credit(lg, q, later)
<1>1. /\ q * Debounce \in Nat /\ AwayEnough \in Nat /\ away \in Nat /\ Debounce \in Nat
  BY QueueArithmetic, KeypadNumbers
<1>2. later >= AwayEnough \/ later = away + gap
  BY <1>1 DEF UpTo
<1>3. CASE later >= AwayEnough \/ q = 0
  BY <1>3 DEF Credit
<1>4. CASE later = away + gap /\ q # 0 /\ ~(later >= AwayEnough)
  <2>1. ~(away >= AwayEnough)
    BY <1>1, <1>4
  <2>2. CASE Unfired(lg)
    <3>1. away + 2 * Debounce >= q * Debounce + before /\ after <= before + gap
      BY <1>4, <2>1, <2>2 DEF Credit
    <3>2. later + 2 * Debounce >= q * Debounce + after
      BY <1>1, <1>4, <3>1
    <3> QED
      BY <2>2, <3>2 DEF Credit
  <2>3. CASE ~Unfired(lg) /\ Unfired(st)
    <3>1. away + 2 * Debounce >= q * Debounce + before /\ before + gap >= Debounce
      BY <1>4, <2>1, <2>3 DEF Credit
    <3>2. later + Debounce >= q * Debounce
      BY <1>1, <1>4, <3>1
    <3> QED
      BY <2>3, <3>2 DEF Credit
  <2>4. CASE ~Unfired(lg) /\ ~Unfired(st)
    <3>1. away + Debounce >= q * Debounce
      BY <1>4, <2>1, <2>4 DEF Credit
    <3>2. later + Debounce >= q * Debounce
      BY <1>1, <1>4, <3>1
    <3> QED
      BY <2>4, <3>2 DEF Credit
  <2> QED
    BY <2>2, <2>3, <2>4
<1> QED
  BY <1>2, <1>3, <1>4

\* One event more: there was time for it, or the loop has been away for long.
LEMMA EventCredit ==
  ASSUME NEW st, NEW lg, NEW q \in 0..QueueDepth, NEW away \in 0..AwayEnough,
         NEW later, NEW gap \in Nat, later = UpTo(AwayEnough, away + gap),
         NEW before \in Nat, NEW after \in Nat, before = st.press_age, after = lg.press_age,
         Credit(st, q, away),
         \/ Unfired(lg) /\ after = 0 /\ (Unfired(st) => before + gap >= Debounce)
         \/ ~Unfired(lg) /\ Unfired(st) /\ before + gap >= 2 * Debounce
  PROVE  /\ q + 1 > QueueDepth => later >= AwayEnough
         /\ Credit(lg, UpTo(QueueDepth, q + 1), later)
<1>1. /\ q \in Nat /\ q * Debounce \in Nat /\ (q + 1) * Debounce = q * Debounce + Debounce
      /\ AwayEnough \in Nat /\ AwayEnough = QueueDepth * Debounce - Debounce
      /\ away \in Nat /\ Debounce \in Nat /\ QueueDepth \in Nat /\ QueueDepth >= 1
      /\ q = 0 => q * Debounce = 0
  BY QueueArithmetic, KeypadNumbers
<1>2. later >= AwayEnough \/ later = away + gap
  BY <1>1 DEF UpTo
<1>3. CASE later >= AwayEnough
  BY <1>3 DEF Credit
<1>4. CASE later = away + gap /\ ~(later >= AwayEnough)
  <2>1. ~(away >= AwayEnough)
    BY <1>1, <1>4
  <2>2. CASE Unfired(lg) /\ after = 0 /\ (Unfired(st) => before + gap >= Debounce)
    <3>1. later + 2 * Debounce >= (q + 1) * Debounce
      <4>1. CASE q = 0
        BY <1>1, <1>4, <4>1
      <4>2. CASE q # 0 /\ Unfired(st)
        <5>1. away + 2 * Debounce >= q * Debounce + before /\ before + gap >= Debounce
          BY <2>1, <2>2, <4>2 DEF Credit
        <5> QED
          BY <1>1, <1>4, <5>1
      <4>3. CASE q # 0 /\ ~Unfired(st)
        <5>1. away + Debounce >= q * Debounce
          BY <2>1, <4>3 DEF Credit
        <5> QED
          BY <1>1, <1>4, <5>1
      <4> QED
        BY <4>1, <4>2, <4>3
    <3>2. q < QueueDepth
      <4>1. q = QueueDepth => later >= AwayEnough
        BY <1>1, <1>4, <3>1
      <4> QED
        BY <1>1, <1>4, <4>1
    <3>3. UpTo(QueueDepth, q + 1) = q + 1 /\ ~(q + 1 > QueueDepth)
      BY <1>1, <3>2 DEF UpTo
    <3>4. later + 2 * Debounce >= (q + 1) * Debounce + after
      BY <1>1, <1>4, <2>2, <3>1
    <3> QED
      BY <2>2, <3>3, <3>4 DEF Credit
  <2>3. CASE ~Unfired(lg) /\ Unfired(st) /\ before + gap >= 2 * Debounce
    <3>1. later + Debounce >= (q + 1) * Debounce
      <4>1. CASE q = 0
        BY <1>1, <1>4, <4>1
      <4>2. CASE q # 0
        <5>1. away + 2 * Debounce >= q * Debounce + before /\ before + gap >= 2 * Debounce
          BY <2>1, <2>3, <4>2 DEF Credit
        <5> QED
          BY <1>1, <1>4, <5>1
      <4> QED
        BY <4>1, <4>2
    <3>2. q < QueueDepth
      <4>1. q = QueueDepth => later >= AwayEnough
        BY <1>1, <1>4, <3>1
      <4> QED
        BY <1>1, <1>4, <4>1
    <3>3. UpTo(QueueDepth, q + 1) = q + 1 /\ ~(q + 1 > QueueDepth)
      BY <1>1, <3>2 DEF UpTo
    <3> QED
      BY <2>3, <3>1, <3>3 DEF Credit
  <2> QED
    BY <2>2, <2>3
<1> QED
  BY <1>2, <1>3, <1>4

\* Every scan: an event finds room, or the loop has been away for long.
LEMMA ScanCredit ==
  ASSUME NEW st \in KpLogic, NEW h \in History, Agree(st, h), NEW raw \in Readings,
         NEW gap \in 1..MaxGap, NEW q \in 0..QueueDepth, Credit(st, q, h.away)
  PROVE  LET r == KpLogicUpdate(st, raw, gap)
             m == Remembered(h, raw, gap)
         IN  /\ q + Len(r.events) > QueueDepth => m.away >= AwayEnough
             /\ Credit(r.logic, UpTo(QueueDepth, q + Len(r.events)), m.away)
<1> DEFINE lg == KpLogicUpdate(st, raw, gap).logic
           ev == KpLogicUpdate(st, raw, gap).events
           later == Remembered(h, raw, gap).away
<1>1. st.held = st.stable
  BY DEF Agree, HeldIsLast
<1>2. /\ lg \in KpLogic
      /\ \/ /\ Waits(st, raw, gap, lg) /\ ev = <<>>
            /\ lg.long_fired = st.long_fired
         \/ /\ Waits(st, raw, gap, lg) /\ ev = LongPressOf(st.stable)
            /\ st.stable # NoKey /\ ~st.long_fired
            /\ lg.press_age >= LongPress /\ lg.long_fired
         \/ /\ Takes(st, raw, gap, lg) /\ Seen(st, raw) # NoKey
            /\ ev = PressOf(Seen(st, raw))
         \/ /\ Takes(st, raw, gap, lg) /\ Seen(st, raw) = NoKey
            /\ ev = <<>>
  BY <1>1, UpdateCases
<1>3. later = UpTo(AwayEnough, h.away + gap) /\ h.away \in 0..AwayEnough
  BY RememberedFacts DEF History
<1>4. /\ gap \in Nat /\ st.press_age \in Nat /\ lg.press_age \in Nat
      /\ st.candidate_age \in Nat /\ q \in Nat
  BY <1>2, AgeFacts, KeypadNumbers DEF KpLogic
<1> HIDE DEF lg, ev, later
<1>5. ASSUME ev = <<>>, Credit(lg, q, later)
      PROVE  /\ q + Len(ev) > QueueDepth => later >= AwayEnough
             /\ Credit(lg, UpTo(QueueDepth, q + Len(ev)), later)
  <2>1. Len(ev) = 0 /\ ~(q > QueueDepth) /\ UpTo(QueueDepth, q) = q /\ q + 0 = q
    BY <1>4, <1>5, KeypadNumbers DEF UpTo
  <2> QED
    BY <1>5, <2>1
<1>6. CASE /\ Waits(st, raw, gap, lg) /\ ev = <<>>
           /\ lg.long_fired = st.long_fired
  <2>1. lg.stable = st.stable /\ lg.press_age = UpTo(LongPress, st.press_age + gap)
    BY <1>6 DEF Waits
  <2>2. lg.press_age <= st.press_age + gap
    BY <1>4, <2>1, KeypadNumbers DEF UpTo
  <2>3. Unfired(lg) <=> Unfired(st)
    BY <1>6, <2>1 DEF Unfired
  <2>4. Credit(lg, q, later)
    BY <1>3, <1>4, <2>2, <2>3, QuietCredit
  <2> QED
    BY <1>5, <1>6, <2>4 DEF lg, ev, later
<1>7. CASE /\ Waits(st, raw, gap, lg) /\ ev = LongPressOf(st.stable)
           /\ st.stable # NoKey /\ ~st.long_fired
           /\ lg.press_age >= LongPress /\ lg.long_fired
  <2>1. lg.press_age = UpTo(LongPress, st.press_age + gap)
    BY <1>7 DEF Waits
  <2>2. st.press_age + gap >= 2 * Debounce
    BY <1>4, <1>7, <2>1, KeypadNumbers DEF UpTo
  <2>3. ~Unfired(lg) /\ Unfired(st)
    BY <1>7 DEF Unfired
  <2>4. /\ q + 1 > QueueDepth => later >= AwayEnough
        /\ Credit(lg, UpTo(QueueDepth, q + 1), later)
    BY <1>3, <1>4, <2>2, <2>3, EventCredit
  <2>5. Len(ev) = 1
    BY <1>7 DEF LongPressOf
  <2> QED
    BY <2>4, <2>5 DEF lg, ev, later
<1>8. ASSUME Takes(st, raw, gap, lg), Unfired(st)
      PROVE  st.press_age + gap >= Debounce
  <2>1. st.candidate_pending /\ UpTo(Debounce, st.candidate_age + gap) >= Debounce
    BY <1>8 DEF Takes
  <2>2. st.candidate_age <= st.press_age
    BY <1>8, <2>1 DEF Agree, LongKnown, Unfired
  <2> QED
    BY <1>4, <2>1, <2>2, KeypadNumbers DEF UpTo
<1>9. CASE /\ Takes(st, raw, gap, lg) /\ Seen(st, raw) # NoKey
           /\ ev = PressOf(Seen(st, raw))
  <2>1. Unfired(lg) /\ lg.press_age = 0
    BY <1>9 DEF Takes, Unfired
  <2>2. /\ q + 1 > QueueDepth => later >= AwayEnough
        /\ Credit(lg, UpTo(QueueDepth, q + 1), later)
    BY <1>3, <1>4, <1>8, <1>9, <2>1, EventCredit
  <2>3. Len(ev) = 1
    BY <1>9 DEF PressOf
  <2> QED
    BY <2>2, <2>3 DEF lg, ev, later
<1>10. CASE Takes(st, raw, gap, lg) /\ Seen(st, raw) = NoKey /\ ev = <<>>
  <2>1. ~Unfired(lg)
    BY <1>10 DEF Takes, Unfired
  <2>2. Credit(lg, q, later)
    BY <1>3, <1>4, <1>8, <1>10, <2>1, QuietCredit
  <2> QED
    BY <1>5, <1>10, <2>2 DEF lg, ev, later
<1> QED
  BY <1>2, <1>6, <1>7, <1>9, <1>10

-----------------------------------------------------------------------------
(* The keypad *)

\* What the logic keeps agrees with what the properties remember once the events of
\* the last scan are counted, those events are real, and the queue has not filled
\* faster than a debounce per event.
KeypadInv ==
  /\ logic \in KpLogic
  /\ events \in EventLists
  /\ queued \in 0..QueueDepth
  /\ dropped \in BOOLEAN
  /\ hist \in History
  /\ Agree(logic, Counted(hist, events))
  /\ Real(hist, events)
  /\ Credit(logic, queued, hist.away)
  /\ LosesOnlyWhenAway

\* What the state's definitions are, of its history and its events.
LEMMA KeypadOfHistory ==
  /\ Presses = Pressed(events) /\ LongPresses = LongPressed(events)
  /\ AfterEvents = Counted(hist, events)
BY Zenon DEF Presses, LongPresses, AfterEvents, Pressed, LongPressed, Counted

\* The events of a scan are a short sequence of events, counted within the history.
LEMMA EventListFacts ==
  ASSUME NEW ev \in EventLists, NEW h \in History
  PROVE  /\ ev \in Seq(Event) /\ Len(ev) <= 1 /\ Len(ev) \in Nat
         /\ Counted(h, ev) \in History
         /\ Counted(h, ev).away = h.away
         /\ Counted(h, ev).raw = h.raw /\ Counted(h, ev).steady = h.steady
<1>1. CASE ev = <<>>
  <2>1. Counted(h, ev) = h
    BY <1>1, NothingCounted
  <2> QED
    BY <1>1, <2>1
<1>2. ASSUME NEW key \in Keys, ev = PressOf(key)
      PROVE  /\ ev \in Seq(Event) /\ Len(ev) <= 1 /\ Len(ev) \in Nat
             /\ Counted(h, ev) \in History
             /\ Counted(h, ev).away = h.away
             /\ Counted(h, ev).raw = h.raw /\ Counted(h, ev).steady = h.steady
  <2>1. [type |-> "PRESS", key |-> key] \in Event
    BY DEF Event
  <2>2. ev \in Seq(Event) /\ Len(ev) = 1
    BY <1>2, <2>1 DEF PressOf
  <2> QED
    BY <1>2, <2>2, CountedFacts
<1>3. ASSUME NEW key \in Keys, ev = LongPressOf(key)
      PROVE  /\ ev \in Seq(Event) /\ Len(ev) <= 1 /\ Len(ev) \in Nat
             /\ Counted(h, ev) \in History
             /\ Counted(h, ev).away = h.away
             /\ Counted(h, ev).raw = h.raw /\ Counted(h, ev).steady = h.steady
  <2>1. [type |-> "LONG_PRESS", key |-> key] \in Event
    BY DEF Event
  <2>2. ev \in Seq(Event) /\ Len(ev) = 1
    BY <1>3, <2>1 DEF LongPressOf
  <2>3. Counted(h, ev) = [h EXCEPT !.long = TRUE] /\ Counted(h, ev) \in History
    BY <1>3, CountedFacts
  <2>4. /\ Counted(h, ev).away = h.away
        /\ Counted(h, ev).raw = h.raw /\ Counted(h, ev).steady = h.steady
    BY <2>3, Zenon DEF History
  <2> QED
    BY <2>2, <2>3, <2>4
<1> QED
  BY <1>1, <1>2, <1>3 DEF EventLists

\* No key is down, and nothing was read yet.
LEMMA KeypadInvInit == KeypadInit => KeypadInv
<1> SUFFICES ASSUME KeypadInit PROVE KeypadInv
  OBVIOUS
<1>1. /\ logic = KpLogicInit /\ events = <<>> /\ queued = 0 /\ dropped = FALSE
      /\ hist = NoHistory
  BY DEF KeypadInit
<1>2. AwayEnough \in Nat
  BY KeypadNumbers DEF AwayEnough
<1>3. logic \in KpLogic
  BY <1>1, KeypadNumbers DEF KpLogic, KpLogicInit, Key
<1>4. hist \in History
  BY <1>1, <1>2, KeypadNumbers DEF History, NoHistory, Readings, Key
<1>5. events \in EventLists /\ queued \in 0..QueueDepth /\ dropped \in BOOLEAN
  <2>1. <<>> \in EventLists
    BY Zenon DEF EventLists
  <2>2. 0 \in 0..QueueDepth /\ FALSE \in BOOLEAN
    BY KeypadNumbers
  <2> QED
    BY <1>1, <2>1, <2>2, Zenon
<1>6. Counted(hist, events) = hist
  BY <1>1, <1>4, NothingCounted
<1>7. Agree(logic, hist)
  BY <1>1 DEF KpLogicInit, NoHistory, Agree, HeldIsLast, CandidateShown, LetGo, LongKnown
<1>8. Real(hist, events)
  BY <1>1, NoEventFacts DEF Real
<1>9. Credit(logic, queued, hist.away) /\ LosesOnlyWhenAway
  BY <1>1 DEF Credit, LosesOnlyWhenAway
<1> QED
  BY <1>3, <1>4, <1>5, <1>6, <1>7, <1>8, <1>9 DEF KeypadInv

\* A scan.
LEMMA KeypadInvScan ==
  ASSUME KeypadInv, NEW raw \in Readings, NEW gap \in 1..MaxGap, KeypadScan(raw, gap)
  PROVE  KeypadInv'
<1> DEFINE h == Counted(hist, events)
           lg == KpLogicUpdate(logic, raw, gap).logic
           ev == KpLogicUpdate(logic, raw, gap).events
           m == Remembered(h, raw, gap)
<1>1. /\ h \in History /\ h.away = hist.away /\ h.raw = hist.raw /\ h.steady = hist.steady
  BY EventListFacts DEF KeypadInv
<1>2. /\ lg \in KpLogic /\ ev \in EventLists /\ m \in History
      /\ Real(m, ev) /\ Agree(lg, Counted(m, ev))
  BY <1>1, ScanAgrees DEF KeypadInv
<1>3. /\ queued + Len(ev) > QueueDepth => m.away >= AwayEnough
      /\ Credit(lg, UpTo(QueueDepth, queued + Len(ev)), m.away)
  BY <1>1, ScanCredit DEF KeypadInv
<1>4. Len(ev) \in Nat
  BY <1>1, <1>2, EventListFacts
<1>5. UpTo(QueueDepth, queued + Len(ev)) \in 0..QueueDepth
  BY <1>4, KeypadNumbers DEF UpTo, KeypadInv
<1>6. Remember(raw, gap) = m
  BY <1>1, KeypadOfHistory, Zenon DEF Remember, Remembered, OffFor
<1>7. /\ logic' = lg /\ events' = ev
      /\ queued' = UpTo(QueueDepth, queued + Len(ev))
      /\ dropped' = (queued + Len(ev) > QueueDepth)
      /\ hist' = m
  BY <1>6 DEF KeypadScan
<1> HIDE DEF lg, ev, m
<1>8. LosesOnlyWhenAway'
  BY <1>3, <1>7 DEF LosesOnlyWhenAway
<1>9. dropped' \in BOOLEAN
  BY <1>7
<1> QED
  BY <1>2, <1>3, <1>5, <1>7, <1>8, <1>9 DEF KeypadInv

\* The loop empties the queue.
LEMMA KeypadInvTake ==
  ASSUME KeypadInv, TakeKeys
  PROVE  KeypadInv'
<1>1. /\ queued' = 0 /\ dropped' = FALSE /\ hist' = [hist EXCEPT !.away = 0]
      /\ logic' = logic /\ events' = events
  BY DEF TakeKeys
<1>2. 0 \in 0..AwayEnough /\ 0 \in 0..QueueDepth
  BY KeypadNumbers DEF AwayEnough
<1>3. /\ hist' \in History /\ hist'.raw = hist.raw /\ hist'.steady = hist.steady
      /\ hist'.last = hist.last /\ hist'.off = hist.off /\ hist'.let_go = hist.let_go
      /\ hist'.ghosted = hist.ghosted /\ hist'.since = hist.since /\ hist'.long = hist.long
  BY <1>1, <1>2, Zenon DEF History, KeypadInv
<1>4. Real(hist', events')
  BY <1>1, <1>3 DEF Real, KeypadInv
<1>5. LET h == Counted(hist, events)
          g == Counted(hist', events')
      IN  /\ g.raw = h.raw /\ g.steady = h.steady /\ g.last = h.last /\ g.off = h.off
          /\ g.let_go = h.let_go /\ g.ghosted = h.ghosted /\ g.since = h.since
          /\ g.long = h.long
  <2>1. CASE Pressed(events) # {}
    BY <1>1, <1>3, <2>1, Zenon DEF Counted, History, KeypadInv
  <2>2. CASE Pressed(events) = {}
    BY <1>1, <1>3, <2>2, Zenon DEF Counted, History, KeypadInv
  <2> QED
    BY <2>1, <2>2
<1>6. Agree(logic', Counted(hist', events'))
  BY <1>1, <1>5
     DEF Agree, HeldIsLast, CandidateShown, LetGo, LongKnown, Loose, KeypadInv
<1>7. Credit(logic', queued', hist'.away) /\ LosesOnlyWhenAway'
  BY <1>1 DEF Credit, LosesOnlyWhenAway
<1> QED
  BY <1>1, <1>2, <1>3, <1>4, <1>6, <1>7 DEF KeypadInv

\* Between the events of the keypad and what its contacts did, and between its queue
\* and how long the loop was away, KeypadInv holds: it is inductive.
THEOREM KeypadSafe == KeypadSpec => []KeypadInv
<1>1. KeypadInit => KeypadInv
  BY KeypadInvInit
<1>2. ASSUME KeypadInv, [KeypadNext]_keypadVars PROVE KeypadInv'
  <2>1. ASSUME NEW raw \in Readings, NEW gap \in 1..MaxGap, KeypadScan(raw, gap)
        PROVE  KeypadInv'
    BY <1>2, <2>1, KeypadInvScan
  <2>2. CASE TakeKeys
    BY <1>2, <2>2, KeypadInvTake
  <2>3. CASE UNCHANGED keypadVars
    BY <1>2, <2>3 DEF keypadVars, KeypadInv, LosesOnlyWhenAway
  <2> QED
    BY <1>2, <2>1, <2>2, <2>3 DEF KeypadNext
<1> QED
  BY <1>1, <1>2, PTL DEF KeypadSpec

\* The keypad's variables keep their types: a scan puts out one event at most, and
\* the queue holds no more than its depth.
THEOREM KeypadTypesHold == KeypadSpec => []KeypadTypeOK
<1>1. KeypadInv => KeypadTypeOK
  BY EventListFacts DEF KeypadInv, KeypadTypeOK
<1> QED
  BY <1>1, KeypadSafe, PTL

\* Every PRESS and every LONG_PRESS is of a key that was really pressed, and held.
THEOREM KeyEventsAreReal == KeypadSpec => []KeysAreReal
<1>1. KeypadInv => KeysAreReal
  BY KeypadOfHistory DEF KeypadInv, KeysAreReal, Real
<1> QED
  BY <1>1, KeypadSafe, PTL

\* The queue drops an event only after the loop stayed away for long.
THEOREM KeysAreLostWhenAway == KeypadSpec => []LosesOnlyWhenAway
<1>1. KeypadInv => LosesOnlyWhenAway
  BY DEF KeypadInv
<1> QED
  BY <1>1, KeypadSafe, PTL

=============================================================================
