---------------------------- MODULE GateCtrlProofs ----------------------------
(***************************************************************************)
(* Proofs about GateCtrl, for every pad, code length, table and policy,    *)
(* and every setting of the two clocks.  The argument: IndInv is an        *)
(* inductive invariant.  Beside the agreement of the three parts it says   *)
(* why no lockout can come up under an entry: EntryIsOpen.                 *)
(***************************************************************************)
EXTENDS GateCtrl, OperatorProofs

\* An entry is in progress only while keys are accepted: no lockout is in force
\* in this iteration, and none is armed between two.
EntryIsOpen ==
  IF ui.screen = "ENTRY"
  THEN /\ ui.clock_trusted
       /\ access.lockout_until <= now.epoch
       /\ phase = "asleep" => access.lockout_until = 0
  ELSE ui.entry_len = 0

IndInv == TypeOK /\ now.epoch >= 0 /\ EntryIsOpen /\ EntryInStep

-----------------------------------------------------------------------------
(* access_core *)

\* What the constants are.
LEMMA Numbers ==
  /\ CodeLen \in Nat \ {0, 1} /\ Wrap \in Nat \ {0}
  /\ Stall \in Nat /\ MaxTime \in Nat /\ MaxEpoch \in Nat
  /\ 0 \in Reading /\ 0 \in 0..CodeLen /\ 0 \in 0..CounterMax
  /\ CounterMax \in Nat /\ LockoutSeconds \in Nat
  /\ EntryTimeout \in Nat /\ \A n \in Notices : NoticeSpan[n] \in Nat
BY GateAssumption, UiAssumption, WrapAssumption, PolicyAssumption DEF Reading

\* ac_tick keeps the table and the trust; it leaves no lockout whose deadline has
\* come, and otherwise changes nothing.
LEMMA TickFacts ==
  ASSUME NEW ac \in Context, NEW time \in Int
  PROVE  LET q == AcTick(ac, time)
         IN  /\ q \in Context /\ q.slots = ac.slots
             /\ q.clock_trusted = ac.clock_trusted
             /\ ac.lockout_until <= time => q.lockout_until = 0
             /\ ~(ac.lockout_until <= time) => q = ac
<1> DEFINE lifted == [ac EXCEPT !.lockout_until = 0, !.failed_attempts = 0]
<1>1. /\ lifted \in Context /\ lifted.slots = ac.slots
      /\ lifted.clock_trusted = ac.clock_trusted /\ lifted.lockout_until = 0
  <2>1. 0 \in 0..CounterMax /\ 0 \in Int
    BY Numbers
  <2> QED
    BY <2>1 DEF Context
<1> HIDE DEF lifted
<1>2. AcTick(ac, time) = IF ac.lockout_until # 0 /\ ac.lockout_until <= time
                         THEN lifted ELSE ac
  BY DEF AcTick, lifted
<1> QED
  BY <1>1, <1>2

\* register_failure keeps the table and the trust.
LEMMA FailureFacts ==
  ASSUME NEW ac \in Context, NEW time \in Int
  PROVE  /\ RegisterFailure(ac, time) \in Context
         /\ RegisterFailure(ac, time).clock_trusted = ac.clock_trusted
<1> DEFINE f == IF ac.failed_attempts < CounterMax THEN ac.failed_attempts + 1
                                                   ELSE ac.failed_attempts
           until == IF f >= MaxFailedAttempts THEN time + LockoutSeconds
                    ELSE ac.lockout_until
<1>1. f \in 0..CounterMax
  BY Numbers DEF Context
<1>2. until \in Int
  BY Numbers DEF Context
<1>3. RegisterFailure(ac, time)
        = [ac EXCEPT !.failed_attempts = f, !.lockout_until = until]
  BY DEF RegisterFailure
<1> HIDE DEF f, until
<1> QED
  BY <1>1, <1>2, <1>3 DEF Context

\* ac_evaluate, asked when the clock is trusted and no lockout is in force, looks
\* the code up; it grants what an occupied slot has the hash of, in its window.
LEMMA EvaluateFacts ==
  ASSUME NEW ac \in Context, NEW h, NEW time \in Int,
         ac.clock_trusted, ac.lockout_until <= time, 0 <= time
  PROVE  LET e == AcEvaluate(ac, h, time)
         IN  /\ e.ac \in Context /\ e.ac.clock_trusted = ac.clock_trusted
             /\ e.result \in {"GRANTED", "UNKNOWN", "NOT_YET", "EXPIRED"}
             /\ e.result = "GRANTED" =>
                  \E i \in SlotIndex :
                    /\ ac.slots[i].occupied /\ ac.slots[i].hash = h
                    /\ ac.slots[i].valid_from <= time
                    /\ time <= ac.slots[i].valid_until
<1> DEFINE q == AcTick(ac, time)
           found == Matches(q, h)
           i == LastOf(found)
           v == Verdict(q.slots[i], time)
           e == AcEvaluate(ac, h, time)
<1>1. /\ q \in Context /\ q.slots = ac.slots /\ q.clock_trusted = ac.clock_trusted
      /\ q.lockout_until = 0
  BY TickFacts
<1>2. found \subseteq SlotIndex
  BY DEF Matches
<1>3. ~AcIsLockedOut(q, time)
  BY <1>1 DEF AcIsLockedOut
<1>4. v \in {"NOT_YET", "EXPIRED", "GRANTED"}
  BY DEF Verdict
<1>5. AcRestoreAttempts(q, 0, 0) \in Context
      /\ AcRestoreAttempts(q, 0, 0).clock_trusted = q.clock_trusted
  BY <1>1, Numbers DEF AcRestoreAttempts, Context
<1>6. \/ /\ found = {} /\ e.ac = RegisterFailure(q, time) /\ e.result = "UNKNOWN"
      \/ /\ found # {} /\ v = "GRANTED"
         /\ e.ac = AcRestoreAttempts(q, 0, 0) /\ e.result = "GRANTED"
      \/ /\ found # {} /\ v # "GRANTED" /\ e.ac = q /\ e.result = v
  <2> HIDE DEF q, found, v
  <2>1. e = IF found = {} THEN [ac |-> RegisterFailure(q, time), result |-> "UNKNOWN"]
            ELSE IF v = "GRANTED"
                 THEN [ac |-> AcRestoreAttempts(q, 0, 0), result |-> v]
            ELSE [ac |-> q, result |-> v]
    BY <1>3 DEF AcEvaluate, q, found, v
  <2> HIDE DEF e
  <2> QED
    BY <2>1
<1>7. ASSUME e.result = "GRANTED"
      PROVE  \E j \in SlotIndex :
               /\ ac.slots[j].occupied /\ ac.slots[j].hash = h
               /\ ac.slots[j].valid_from <= time /\ time <= ac.slots[j].valid_until
  <2>1. found # {} /\ v = "GRANTED"
    BY <1>6, <1>7
  <2>2. i \in found /\ i \in SlotIndex
    BY <1>2, <2>1, LastIsMember
  <2>3. ac.slots[i].occupied /\ ac.slots[i].hash = h
    BY <1>1, <2>2 DEF Matches
  <2>4. ac.slots[i].valid_from \in Int /\ ac.slots[i].valid_until \in Int
    BY <2>2 DEF Context, Slot
  <2>5. ~(time < ac.slots[i].valid_from) /\ ~(time > ac.slots[i].valid_until)
    <3> HIDE DEF i
    <3> QED
      BY <1>1, <2>1 DEF Verdict
  <2> QED
    BY <2>2, <2>3, <2>4, <2>5
<1> HIDE DEF q, found, v, e
<1>8. e.ac \in Context /\ e.ac.clock_trusted = ac.clock_trusted
  BY <1>1, <1>5, <1>6, FailureFacts
<1>9. e.result \in {"GRANTED", "UNKNOWN", "NOT_YET", "EXPIRED"}
  BY <1>4, <1>6
<1> QED
  BY <1>7, <1>8, <1>9 DEF e

-----------------------------------------------------------------------------
(* ui *)

\* The panel goes back to idle.
LEMMA IdleFacts ==
  ASSUME NEW u \in UiContext
  PROVE  /\ GoIdle(u) \in UiContext /\ GoIdle(u).screen = "IDLE"
         /\ GoIdle(u).entry_len = 0 /\ GoIdle(u).clock_trusted = u.clock_trusted
BY Numbers DEF GoIdle, UiContext, Screens

\* A deadline is a reading.
LEMMA AddType ==
  ASSUME NEW ms \in Reading, NEW span \in Nat
  PROVE  Add(ms, span) \in Reading
<1>1. ms + span \in Int
  BY Numbers DEF Reading
<1> QED
  BY <1>1, ModInRange DEF Add

\* A notice comes up.
LEMMA NoticeFacts ==
  ASSUME NEW u \in UiContext, NEW s \in Notices, NEW n \in Now
  PROVE  /\ Notice(u, s, n) \in UiContext /\ Notice(u, s, n).screen = s
         /\ Notice(u, s, n).entry_len = 0
         /\ Notice(u, s, n).clock_trusted = u.clock_trusted
<1>1. Add(n.ms, NoticeSpan[s]) \in Reading
  BY Numbers, AddType DEF Now
<1> QED
  BY <1>1, Numbers DEF Notice, UiContext, Screens

\* ui_set_clock_trusted: distrust ends whatever was on the panel.
LEMMA TrustFacts ==
  ASSUME NEW u \in UiContext, NEW b \in BOOLEAN
  PROVE  LET q == UiSetClockTrusted(u, b)
         IN  /\ q \in UiContext /\ q.clock_trusted = b
             /\ IF b THEN q.screen = u.screen /\ q.entry_len = u.entry_len
                ELSE q.screen = "IDLE" /\ q.entry_len = 0
<1> DEFINE set == [u EXCEPT !.clock_trusted = b]
<1>1. /\ set \in UiContext /\ set.clock_trusted = b
      /\ set.screen = u.screen /\ set.entry_len = u.entry_len
  BY DEF UiContext
<1> HIDE DEF set
<1>2. UiSetClockTrusted(u, b) = IF b THEN set ELSE GoIdle(set)
  BY DEF UiSetClockTrusted, set
<1> QED
  BY <1>1, <1>2, IdleFacts

\* ui_on_key: a key is refused with a notice, ignored in a lockout, or counted;
\* the last one submits.
LEMMA KeyFacts ==
  ASSUME NEW u \in UiContext, NEW ac, NEW n \in Now,
         u.screen = "ENTRY" => u.entry_len \in 1..(CodeLen - 1)
  PROVE  LET r == UiOnKey(u, ac, n)
             len == IF u.screen = "ENTRY" THEN u.entry_len + 1 ELSE 1
         IN  /\ r.ui \in UiContext /\ r.ui.clock_trusted = u.clock_trusted
             /\ \/ /\ ~u.clock_trusted /\ ~r.submit
                   /\ r.ui.screen = "NO_CLOCK" /\ r.ui.entry_len = 0
                \/ /\ u.clock_trusted /\ AcIsLockedOut(ac, n.epoch)
                   /\ r.ui = u /\ ~r.submit
                \/ /\ u.clock_trusted /\ ~AcIsLockedOut(ac, n.epoch)
                   /\ r.ui.screen = "ENTRY" /\ r.ui.entry_len = len
                   /\ len \in 1..CodeLen /\ r.submit = (len = CodeLen)
<1> DEFINE r == UiOnKey(u, ac, n)
           len == IF u.screen = "ENTRY" THEN u.entry_len + 1 ELSE 1
           counted == [u EXCEPT !.screen = "ENTRY", !.entry_len = len,
                                !.entry_deadline_ms = Add(n.ms, EntryTimeout)]
<1>1. len \in 1..CodeLen /\ ((len >= CodeLen) = (len = CodeLen))
  BY Numbers DEF UiContext
<1>2. Add(n.ms, EntryTimeout) \in Reading
  BY Numbers, AddType DEF Now
<1> HIDE DEF len
<1>3. /\ counted \in UiContext /\ counted.screen = "ENTRY" /\ counted.entry_len = len
      /\ counted.clock_trusted = u.clock_trusted
  <2>1. len \in 0..CodeLen /\ "ENTRY" \in Screens
    BY <1>1, Numbers DEF Screens
  <2> QED
    BY <1>2, <2>1 DEF UiContext
<1> HIDE DEF counted
<1>4. CASE ~u.clock_trusted
  <2>1. r.ui = Notice(u, "NO_CLOCK", n) /\ ~r.submit
    BY <1>4 DEF UiOnKey
  <2>2. "NO_CLOCK" \in Notices
    BY DEF Notices
  <2> HIDE DEF r
  <2> QED
    BY <1>4, <2>1, <2>2, NoticeFacts DEF r
<1>5. CASE u.clock_trusted /\ AcIsLockedOut(ac, n.epoch)
  BY <1>5 DEF UiOnKey
<1>6. CASE u.clock_trusted /\ ~AcIsLockedOut(ac, n.epoch)
  <2>1. r.ui = counted /\ r.submit = (len >= CodeLen)
    BY <1>6 DEF UiOnKey, counted, len
  <2> HIDE DEF r
  <2> QED
    BY <1>1, <1>3, <1>6, <2>1 DEF r, len
<1> QED
  BY <1>4, <1>5, <1>6

\* ui_on_result ends the entry.
LEMMA ResultFacts ==
  ASSUME NEW u \in UiContext, NEW ac, NEW n \in Now,
         NEW result \in {"GRANTED", "UNKNOWN", "NOT_YET", "EXPIRED"}
  PROVE  LET q == UiOnResult(u, ac, result, n)
         IN  /\ q \in UiContext /\ q.screen # "ENTRY" /\ q.entry_len = 0
             /\ q.clock_trusted = u.clock_trusted
<1> DEFINE q == UiOnResult(u, ac, result, n)
<1>1. \/ q = Notice(u, result, n) /\ result \in Notices
      \/ q = GoIdle(u)
      \/ q = Notice(u, "DENIED", n) /\ "DENIED" \in Notices
  BY DEF UiOnResult, Notices
<1>2. "ENTRY" \notin Notices /\ "IDLE" # "ENTRY"
  BY DEF Notices
<1> HIDE DEF q
<1> QED
  BY <1>1, <1>2, NoticeFacts, IdleFacts DEF q

\* ui_tick: what is on the panel stays or goes; an entry that goes is cleared; a
\* lockout stops the count.
LEMMA UiTickFacts ==
  ASSUME NEW u \in UiContext, NEW ac, NEW n
  PROVE  LET r == UiTick(u, ac, n)
         IN  /\ r.ui \in UiContext /\ r.ui.clock_trusted = u.clock_trusted
             /\ \/ /\ Locked(u, ac, n) /\ ~r.clear
                   /\ r.ui.screen = u.screen /\ r.ui.entry_len = 0
                \/ ~Locked(u, ac, n) /\ r.ui = u /\ ~r.clear
                \/ /\ ~Locked(u, ac, n) /\ r.ui = GoIdle(u)
                   /\ r.clear = (u.screen = "ENTRY")
<1> DEFINE r == UiTick(u, ac, n)
           stopped == [u EXCEPT !.entry_len = 0]
           entry == u.screen = "ENTRY"
           over == IF entry THEN Reached(u.entry_deadline_ms, n.ms)
                   ELSE u.screen_until_ms # 0 /\ Reached(u.screen_until_ms, n.ms)
<1>1. /\ stopped \in UiContext /\ stopped.clock_trusted = u.clock_trusted
      /\ stopped.screen = u.screen /\ stopped.entry_len = 0
  BY Numbers DEF UiContext
<1>0. over \in BOOLEAN /\ entry \in BOOLEAN
  BY DEF Reached
<1> HIDE DEF stopped, over, entry
<1>2. r = IF Locked(u, ac, n) THEN [ui |-> stopped, clear |-> FALSE]
          ELSE [ui |-> IF over THEN GoIdle(u) ELSE u, clear |-> entry /\ over]
  BY DEF UiTick, stopped, over, entry
<1> HIDE DEF r
<1>3. CASE Locked(u, ac, n)
  BY <1>1, <1>2, <1>3 DEF r
<1>4. CASE ~Locked(u, ac, n) /\ over
  <2>1. r.ui = GoIdle(u) /\ r.clear = entry
    BY <1>0, <1>2, <1>4
  <2> QED
    BY <1>4, <2>1, IdleFacts DEF r, entry
<1>5. CASE ~Locked(u, ac, n) /\ ~over
  <2>1. r.ui = u /\ ~r.clear
    BY <1>0, <1>2, <1>5
  <2> QED
    BY <1>5, <2>1 DEF r
<1> QED
  BY <1>3, <1>4, <1>5

-----------------------------------------------------------------------------
(* The buffer and the keys pressed *)

\* What gate_ctrl may hold of an entry.
Buffers == [1..CodeLen -> Keys \union {NoKey}]

\* What a call of gate_ctrl may return.
LEMMA OutType ==
  ASSUME NEW result \in Results \union {"NONE"}, NEW ac
  PROVE  LET o == [result |-> result, persist_attempts |-> AttemptsChanged(ac)]
         IN  /\ o \in [result : Results \union {"NONE"}, persist_attempts : BOOLEAN]
             /\ o.result = result
<1>1. AttemptsChanged(ac) \in BOOLEAN
  BY DEF AttemptsChanged
<1> QED
  BY <1>1

\* A silent call returns no result.
LEMMA SilentType ==
  /\ Silent \in [result : Results \union {"NONE"}, persist_attempts : BOOLEAN]
  /\ Silent.result = "NONE"
BY DEF Silent

\* A wiped buffer is a buffer.
LEMMA WipedType == Wiped \in Buffers
BY DEF Wiped, Buffers

\* A key goes where the ui's count says: a first one into a wiped buffer, a
\* refused one nowhere.
LEMMA TypedFacts ==
  ASSUME buf \in Buffers, NEW key \in Keys, NEW u, u.entry_len \in 0..CodeLen
  PROVE  LET b == Typed(u, key)
             len == u.entry_len
         IN  /\ b \in Buffers
             /\ len = 0 => b = buf
             /\ len # 0 =>
                  \A i \in 1..CodeLen :
                    b[i] = IF i = len THEN key
                           ELSE IF len = 1 THEN NoKey ELSE buf[i]
<1> DEFINE len == u.entry_len
           base == IF len = 1 THEN Wiped ELSE buf
           b == Typed(u, key)
<1>1. base \in Buffers
  BY WipedType
<1>2. \A i \in 1..CodeLen : base[i] = IF len = 1 THEN NoKey ELSE buf[i]
  BY DEF Wiped
<1>3. b = IF len = 0 THEN buf ELSE [base EXCEPT ![len] = key]
  BY DEF Typed
<1>4. len = 0 \/ len \in 1..CodeLen
  BY Numbers
<1> HIDE DEF base, b, len
<1>5. CASE len = 0
  BY <1>3, <1>5 DEF b, len
<1>6. CASE len \in 1..CodeLen
  <2>1. len # 0
    BY <1>6
  <2>2. b = [base EXCEPT ![len] = key]
    BY <1>3, <2>1
  <2>3. b \in Buffers
    BY <1>1, <2>2 DEF Buffers
  <2>4. \A i \in 1..CodeLen : b[i] = IF i = len THEN key ELSE base[i]
    BY <1>1, <2>2 DEF Buffers
  <2> QED
    BY <1>2, <2>1, <2>3, <2>4 DEF b, len
<1> QED
  BY <1>4, <1>5, <1>6

\* The history keeps the last CodeLen keys: the new one, and before it the ones it
\* had.
LEMMA PressedFacts ==
  ASSUME NEW s \in Seq(Keys), Len(s) <= CodeLen, NEW key \in Keys
  PROVE  LET q == LastKeys(Append(s, key))
         IN  /\ q \in Seq(Keys) /\ Len(q) <= CodeLen
             /\ Len(q) >= 1 /\ Len(q) >= Len(s)
             /\ Len(s) < CodeLen => Len(q) = Len(s) + 1
             /\ q[Len(q)] = key
             /\ \A k \in 1..(Len(q) - 1) : q[Len(q) - k] = s[Len(s) + 1 - k]
<1> DEFINE a == Append(s, key)
           q == LastKeys(a)
<1>1. /\ a \in Seq(Keys) /\ Len(a) = Len(s) + 1 /\ a[Len(s) + 1] = key
      /\ \A j \in 1..Len(s) : a[j] = s[j]
  OBVIOUS
<1>2. Len(s) \in Nat /\ CodeLen \in Nat \ {0, 1}
  BY Numbers
<1> HIDE DEF a
<1>3. CASE Len(a) > CodeLen
  <2>1. q = Tail(a) /\ a # << >>
    BY <1>1, <1>2, <1>3 DEF LastKeys
  <2>2. /\ q \in Seq(Keys) /\ Len(q) = Len(s)
        /\ \A j \in 1..Len(q) : q[j] = a[j + 1]
    BY <1>1, <1>2, <2>1
  <2> HIDE DEF q
  <2>3. Len(s) = CodeLen
    BY <1>1, <1>2, <1>3
  <2>4. q[Len(q)] = key
    BY <1>1, <1>2, <2>2, <2>3
  <2>5. ASSUME NEW k \in 1..(Len(q) - 1)
        PROVE  q[Len(q) - k] = s[Len(s) + 1 - k]
    <3>1. Len(q) - k \in 1..Len(q) /\ Len(q) - k + 1 \in 1..Len(s)
      BY <1>2, <2>2, <2>5
    <3>2. Len(q) - k + 1 = Len(s) + 1 - k
      BY <1>2, <2>2, <2>5
    <3> QED
      BY <1>1, <2>2, <3>1, <3>2
  <2> QED
    BY <1>2, <2>2, <2>3, <2>4, <2>5 DEF q, a
<1>4. CASE ~(Len(a) > CodeLen)
  <2>1. q = a
    BY <1>4 DEF LastKeys
  <2> HIDE DEF q
  <2>2. ASSUME NEW k \in 1..(Len(q) - 1)
        PROVE  q[Len(q) - k] = s[Len(s) + 1 - k]
    <3>1. Len(q) - k \in 1..Len(s) /\ Len(q) - k = Len(s) + 1 - k
      BY <1>1, <1>2, <2>1, <2>2
    <3> QED
      BY <1>1, <2>1, <3>1
  <2> QED
    BY <1>1, <1>2, <1>4, <2>1, <2>2 DEF q, a
<1> QED
  BY <1>3, <1>4

\* After a counted key the buffer holds the last keys pressed, as many as are
\* counted; at the last one, the keys pressed are the buffer.
LEMMA EntryGrows ==
  ASSUME IndInv, NEW key \in Keys, NEW u,
         u.entry_len = IF ui.screen = "ENTRY" THEN ui.entry_len + 1 ELSE 1,
         u.entry_len \in 1..CodeLen
  PROVE  LET len == u.entry_len
             b == Typed(u, key)
             q == LastKeys(Append(pressed, key))
         IN  /\ Len(q) >= len
             /\ \A i \in 1..CodeLen :
                  b[i] = IF i <= len THEN q[Len(q) - len + i] ELSE NoKey
             /\ len = CodeLen => b = q
<1> DEFINE len == u.entry_len
           b == Typed(u, key)
           q == LastKeys(Append(pressed, key))
<1>1. pressed \in Seq(Keys) /\ Len(pressed) <= CodeLen /\ buf \in Buffers
  BY DEF IndInv, TypeOK, Buffers
<1>2. /\ q \in Seq(Keys) /\ Len(q) <= CodeLen /\ Len(q) >= 1
      /\ Len(q) >= Len(pressed)
      /\ Len(pressed) < CodeLen => Len(q) = Len(pressed) + 1
      /\ q[Len(q)] = key
      /\ \A k \in 1..(Len(q) - 1) : q[Len(q) - k] = pressed[Len(pressed) + 1 - k]
  BY <1>1, PressedFacts
<1>3. len \in 0..CodeLen /\ len # 0
  BY Numbers
<1>4. /\ b \in Buffers
      /\ \A i \in 1..CodeLen : b[i] = IF i = len THEN key
                                      ELSE IF len = 1 THEN NoKey ELSE buf[i]
  BY <1>1, <1>3, TypedFacts
<1>5. CodeLen \in Nat /\ Len(q) \in Nat /\ Len(pressed) \in Nat /\ len \in Nat
  BY <1>1, <1>2, <1>3, Numbers
<1>6. len = IF ui.screen = "ENTRY" THEN ui.entry_len + 1 ELSE 1
  OBVIOUS
<1>7. len \in 1..CodeLen
  OBVIOUS
<1> HIDE DEF q, b, len
<1>8. len # 1 => /\ ui.screen = "ENTRY" /\ ui.entry_len = len - 1
                 /\ ui.entry_len \in 1..(CodeLen - 1) /\ Len(pressed) >= len - 1
                 /\ \A i \in 1..CodeLen :
                      buf[i] = IF i <= len - 1
                               THEN pressed[Len(pressed) - (len - 1) + i] ELSE NoKey
  <2> SUFFICES ASSUME len # 1
               PROVE  ui.screen = "ENTRY" /\ ui.entry_len = len - 1
    BY <1>5 DEF IndInv, EntryInStep, BufferIsEntry
  <2>1. ui.screen = "ENTRY"
    BY <1>6
  <2>2. ui.entry_len \in 1..(CodeLen - 1)
    BY <2>1 DEF IndInv, EntryInStep, BufferIsEntry
  <2> QED
    BY <1>5, <1>6, <2>1, <2>2
<1>9. Len(q) >= len
  BY <1>2, <1>5, <1>7, <1>8
<1>10. ASSUME NEW i \in 1..CodeLen
       PROVE  b[i] = IF i <= len THEN q[Len(q) - len + i] ELSE NoKey
  <2>1. CASE i = len
    <3>1. Len(q) - len + i = Len(q) /\ i <= len
      BY <1>5, <2>1
    <3>2. b[i] = key /\ q[Len(q)] = key
      BY <1>2, <1>4, <2>1
    <3> QED
      BY <3>1, <3>2
  <2>2. CASE i < len
    <3> DEFINE k == len - i
    <3>1. /\ k \in 1..(Len(q) - 1) /\ Len(q) - k = Len(q) - len + i
          /\ Len(pressed) + 1 - k = Len(pressed) - (len - 1) + i
          /\ i <= len - 1 /\ len # 1 /\ i # len /\ i <= len
      BY <1>5, <1>9, <2>2
    <3> HIDE DEF k
    <3>2. b[i] = buf[i]
      BY <1>4, <3>1
    <3>3. buf[i] = pressed[Len(pressed) - (len - 1) + i]
      BY <1>8, <3>1
    <3>4. q[Len(q) - k] = pressed[Len(pressed) + 1 - k]
      BY <1>2, <3>1
    <3> QED
      BY <3>1, <3>2, <3>3, <3>4
  <2>3. CASE i > len
    <3>1. i # len /\ ~(i <= len) /\ ~(i <= len - 1)
      BY <1>5, <2>3
    <3> QED
      BY <1>4, <1>8, <3>1
  <2> QED
    BY <1>5, <2>1, <2>2, <2>3
<1>11. ASSUME len = CodeLen PROVE b = q
  <2>1. Len(q) = CodeLen
    BY <1>2, <1>5, <1>9, <1>11
  <2>2. \A i \in 1..CodeLen : b[i] = q[i]
    <3> TAKE i \in 1..CodeLen
    <3>1. i <= len /\ Len(q) - len + i = i
      BY <1>5, <1>11, <2>1
    <3> QED
      BY <1>10, <3>1
  <2>3. q \in [1..CodeLen -> Keys]
    BY <1>2, <2>1
  <2>4. b = [i \in 1..CodeLen |-> b[i]] /\ q = [i \in 1..CodeLen |-> q[i]]
    BY <1>4, <2>3 DEF Buffers
  <2> QED
    BY <2>2, <2>4
<1> QED
  BY <1>9, <1>10, <1>11 DEF len, b, q

-----------------------------------------------------------------------------
(* The steps *)

\* ac_init gives a context.
LEMMA AcInitType == AcInit \in Context
<1>1. 0 \in 0..CounterMax
  BY Numbers
<1>2. EmptySlot \in Slot
  BY DEF EmptySlot, Slot
<1> QED
  BY <1>1, <1>2 DEF AcInit, Context

\* A boot is an idle panel with the trust the RTC gives.
LEMMA BootUi ==
  ASSUME NEW rtc \in BOOLEAN
  PROVE  LET u == UiSetClockTrusted(UiInit, rtc)
         IN  /\ u \in UiContext /\ u.clock_trusted = rtc
             /\ u.screen = "IDLE" /\ u.entry_len = 0
<1>1. UiInit \in UiContext /\ UiInit.screen = "IDLE" /\ UiInit.entry_len = 0
  BY Numbers DEF UiInit, UiContext, Screens
<1> QED
  BY <1>1, TrustFacts

\* What the steps of a boot leave.
LEMMA BootInv ==
  ASSUME NEW rtc \in BOOLEAN, access' \in Context, access'.clock_trusted = rtc,
         ui' = UiSetClockTrusted(UiInit, rtc), buf' = Wiped, out' = Silent,
         phase' = "asleep", now' = [ms |-> 0, epoch |-> 0], t' = 0,
         lastWake' = 0, pressed' = <<>>, lastEvent' = Never
  PROVE  IndInv'
<1>1. /\ ui' \in UiContext /\ ui'.clock_trusted = rtc
      /\ ui'.screen = "IDLE" /\ ui'.entry_len = 0
  BY BootUi
<1>2. now' \in Now /\ now'.epoch >= 0
  <2>1. 0 \in Reading
    BY Numbers
  <2> QED
    BY <2>1 DEF Now
<1>3. pressed' \in Seq(Keys) /\ Len(pressed') <= CodeLen
  BY Numbers
<1>4. TypeOK'
  BY <1>1, <1>2, <1>3, SilentType, WipedType DEF TypeOK, Buffers, Never
<1>5. EntryIsOpen' /\ EntryInStep'
  BY <1>1, SilentType
     DEF EntryIsOpen, EntryInStep, BufferWiped, BufferIsEntry, NeverEvaluatedBlind
<1> QED
  BY <1>2, <1>4, <1>5 DEF IndInv

\* The first boot.
LEMMA InitInv == Init => IndInv
<1> SUFFICES ASSUME Init PROVE IndInv
  OBVIOUS
<1>1. PICK table \in Tables, rtc \in BOOLEAN :
        /\ access = [AcInit EXCEPT !.slots = table, !.clock_trusted = rtc]
        /\ ui = UiSetClockTrusted(UiInit, rtc)
  BY DEF Init
<1>2. access \in Context /\ access.clock_trusted = rtc
  <2>1. table \in [SlotIndex -> Slot]
    BY GateAssumption
  <2>2. access = [[AcInit EXCEPT !.slots = table] EXCEPT !.clock_trusted = rtc]
    BY <1>1
  <2> QED
    BY <2>1, <2>2, AcInitType DEF Context
<1>3. /\ ui \in UiContext /\ ui.clock_trusted = rtc
      /\ ui.screen = "IDLE" /\ ui.entry_len = 0
  BY <1>1, BootUi
<1>4. now \in Now /\ now.epoch >= 0
  <2>1. 0 \in Reading
    BY Numbers
  <2> QED
    BY <2>1 DEF Now, Init
<1>5. pressed \in Seq(Keys) /\ Len(pressed) <= CodeLen
  BY Numbers DEF Init
<1>6. TypeOK
  BY <1>2, <1>3, <1>4, <1>5, SilentType, WipedType DEF TypeOK, Buffers, Never, Init
<1>7. EntryIsOpen /\ EntryInStep
  BY <1>2, <1>3, SilentType
     DEF EntryIsOpen, EntryInStep, BufferWiped, BufferIsEntry, NeverEvaluatedBlind,
         Init
<1> QED
  BY <1>4, <1>6, <1>7 DEF IndInv

\* Restart: whatever is kept of the attempts, the entry is gone.
LEMMA RestartInv ==
  ASSUME IndInv, NEW rtc \in BOOLEAN, NEW chip \in BOOLEAN, Restart(rtc, chip)
  PROVE  IndInv'
<1> DEFINE blank == [AcInit EXCEPT !.slots = access.slots]
           p == IF chip THEN access ELSE AcInit
           q == AcRestoreAttempts(blank, p.failed_attempts, p.lockout_until)
<1>2. blank \in Context /\ p \in Context
  BY AcInitType DEF Context, IndInv, TypeOK
<1>3. access' = [q EXCEPT !.clock_trusted = rtc] /\ ui' = UiSetClockTrusted(UiInit, rtc)
  BY DEF Restart, Trusting
<1> HIDE DEF blank, p
<1>4. q \in Context
  BY <1>2 DEF AcRestoreAttempts, Context
<1> HIDE DEF q
<1>5. access' \in Context /\ access'.clock_trusted = rtc
  BY <1>3, <1>4 DEF Context
<1> QED
  BY <1>3, <1>5, BootInv DEF Restart

\* Wake: a later wall clock lifts no lockout that is armed, and none is under an
\* entry.
LEMMA WakeInv == IndInv /\ Wake => IndInv'
<1> SUFFICES ASSUME IndInv, Wake PROVE IndInv'
  OBVIOUS
<1>1. PICK epoch \in 0..MaxEpoch : now' = [ms |-> t % Wrap, epoch |-> epoch]
  BY DEF Wake
<1>2. now' \in Now /\ now'.epoch >= 0
  <2>1. t \in Int /\ epoch \in Int /\ epoch >= 0
    BY <1>1, Numbers DEF IndInv, TypeOK
  <2>2. (t % Wrap) \in Reading
    BY <2>1, ModInRange
  <2> QED
    BY <1>1, <2>1, <2>2 DEF Now
<1>3. TypeOK'
  <2>1. t \in 0..t
    BY DEF IndInv, TypeOK
  <2> QED
    BY <1>2, <2>1, SilentType DEF IndInv, TypeOK, Wake
<1>4. EntryIsOpen'
  BY <1>2 DEF IndInv, EntryIsOpen, Wake
<1>5. EntryInStep'
  BY SilentType
     DEF IndInv, EntryInStep, BufferWiped, BufferIsEntry, NeverEvaluatedBlind, Wake
<1> QED
  BY <1>2, <1>3, <1>4, <1>5 DEF IndInv

\* GateOnLongPress clears what it wipes.
LEMMA LongPressInv == IndInv /\ GateOnLongPress => IndInv'
<1> SUFFICES ASSUME IndInv, GateOnLongPress PROVE IndInv'
  OBVIOUS
<1>1. \/ ui' = ui /\ buf' = buf
      \/ ui' = GoIdle(ui) /\ buf' = Wiped
  BY DEF GateOnLongPress, UiOnLongPress
<1>2. /\ GoIdle(ui) \in UiContext /\ GoIdle(ui).screen = "IDLE"
      /\ GoIdle(ui).entry_len = 0 /\ GoIdle(ui).clock_trusted = ui.clock_trusted
  BY IdleFacts DEF IndInv, TypeOK
<1>3. lastEvent' \in {Never} \union 0..t
  <2>1. t \in 0..t /\ lastEvent \in {Never} \union 0..t
    BY DEF IndInv, TypeOK
  <2> QED
    BY <2>1 DEF GateOnLongPress
<1>4. /\ out' = Silent
      /\ UNCHANGED <<access, phase, now, t, lastWake, pressed>>
  BY DEF GateOnLongPress
<1>5. TypeOK'
  BY <1>1, <1>2, <1>3, <1>4, SilentType, WipedType DEF IndInv, TypeOK, Buffers
<1>6. EntryIsOpen'
  BY <1>1, <1>2, <1>4 DEF IndInv, EntryIsOpen
<1>7. EntryInStep'
  BY <1>1, <1>2, <1>4, SilentType
     DEF IndInv, EntryInStep, BufferWiped, BufferIsEntry, NeverEvaluatedBlind
<1> QED
  BY <1>4, <1>5, <1>6, <1>7 DEF IndInv

\* GateTick: an entry that runs out is wiped; the end of the iteration leaves no
\* lockout under one that stays.
LEMMA TickInv == IndInv /\ GateTick => IndInv'
<1> SUFFICES ASSUME IndInv, GateTick PROVE IndInv'
  OBVIOUS
<1> DEFINE ac == IF ui.clock_trusted THEN AcTick(access, now.epoch) ELSE access
           r == UiTick(ui, ac, now)
<1>1. /\ access' = ac /\ ui' = r.ui /\ buf' = (IF r.clear THEN Wiped ELSE buf)
      /\ out' = [result |-> "NONE", persist_attempts |-> AttemptsChanged(ac)]
      /\ phase' = "asleep" /\ UNCHANGED <<now, t, lastWake, pressed, lastEvent>>
  BY DEF GateTick
<1>2. access \in Context /\ ui \in UiContext /\ now.epoch \in Int
  BY DEF IndInv, TypeOK, Now
<1>3. /\ ac \in Context /\ ac.clock_trusted = access.clock_trusted
      /\ ui.clock_trusted /\ access.lockout_until <= now.epoch
           => ac.lockout_until = 0
      /\ ui.clock_trusted /\ ~(access.lockout_until <= now.epoch) => ac = access
  BY <1>2, TickFacts
<1> HIDE DEF ac
<1>4. /\ r.ui \in UiContext /\ r.ui.clock_trusted = ui.clock_trusted
      /\ \/ /\ Locked(ui, ac, now) /\ ~r.clear
            /\ r.ui.screen = ui.screen /\ r.ui.entry_len = 0
         \/ ~Locked(ui, ac, now) /\ r.ui = ui /\ ~r.clear
         \/ /\ ~Locked(ui, ac, now) /\ r.ui = GoIdle(ui)
            /\ r.clear = (ui.screen = "ENTRY")
  BY <1>2, UiTickFacts
<1> HIDE DEF r
<1>5. /\ GoIdle(ui).screen = "IDLE" /\ GoIdle(ui).entry_len = 0
  BY <1>2, IdleFacts
<1>6. Locked(ui, ac, now) => ui.screen # "ENTRY"
  <2> SUFFICES ASSUME ui.clock_trusted, ac.lockout_until > now.epoch,
                      ui.screen = "ENTRY"
               PROVE  FALSE
    BY DEF Locked, AcIsLockedOut
  <2>1. access.lockout_until <= now.epoch /\ now.epoch >= 0
    BY DEF IndInv, EntryIsOpen
  <2>2. ac.lockout_until = 0
    BY <1>3, <2>1
  <2> QED
    BY <1>2, <2>1, <2>2
<1>7. ui.screen = "ENTRY" => ui.clock_trusted /\ ac.lockout_until = 0
  BY <1>3 DEF IndInv, EntryIsOpen
<1>8. ui.screen # "ENTRY" => buf = Wiped /\ buf' = Wiped /\ ui.entry_len = 0
  BY <1>1 DEF IndInv, EntryIsOpen, EntryInStep, BufferWiped
<1>9. \/ ui'.screen # "ENTRY" /\ ui'.entry_len = 0 /\ buf' = Wiped
      \/ ui'.screen = "ENTRY" /\ ui' = ui /\ buf' = buf
  BY <1>1, <1>4, <1>5, <1>6, <1>8
<1>10. out' \in [result : Results \union {"NONE"}, persist_attempts : BOOLEAN]
       /\ out'.result = "NONE"
  BY <1>1, OutType
<1>11. TypeOK'
  BY <1>1, <1>3, <1>4, <1>9, <1>10, WipedType DEF IndInv, TypeOK, Buffers
<1>12. EntryIsOpen'
  <2>1. CASE ui'.screen # "ENTRY"
    BY <1>9, <2>1 DEF EntryIsOpen
  <2>2. CASE ui'.screen = "ENTRY"
    <3>1. ui'.clock_trusted /\ access'.lockout_until = 0 /\ now' = now
      BY <1>1, <1>7, <1>9, <2>2
    <3> QED
      BY <2>2, <3>1 DEF IndInv, EntryIsOpen
  <2> QED
    BY <2>1, <2>2
<1>13. EntryInStep'
  <2>1. pressed' = pressed
    BY <1>1
  <2>2. ui'.clock_trusted = access'.clock_trusted
    BY <1>1, <1>3, <1>4 DEF IndInv, EntryInStep, NeverEvaluatedBlind
  <2> QED
    BY <1>9, <1>10, <2>1, <2>2
       DEF IndInv, EntryInStep, BufferWiped, BufferIsEntry, NeverEvaluatedBlind
<1> QED
  BY <1>1, <1>11, <1>12, <1>13 DEF IndInv

\* GateOnKey and the submission: a refused or ignored key touches no buffer, a
\* counted one extends the entry, the last one ends it.
LEMMA KeyInv ==
  ASSUME IndInv, NEW key \in Keys, GateOnKey(key)
  PROVE  IndInv'
<1> DEFINE r == UiOnKey(ui, access, now)
           b == Typed(r.ui, key)
           len == IF ui.screen = "ENTRY" THEN ui.entry_len + 1 ELSE 1
<1>1. /\ phase = "awake"
      /\ IF r.submit THEN Submit(r.ui, b)
         ELSE ui' = r.ui /\ buf' = b /\ out' = Silent /\ access' = access
      /\ pressed' = LastKeys(Append(pressed, key))
      /\ lastEvent' = (IF Locked(ui, access, now) THEN lastEvent ELSE t)
      /\ UNCHANGED <<phase, now, t, lastWake>>
  BY DEF GateOnKey
<1>2. /\ access \in Context /\ ui \in UiContext /\ buf \in Buffers /\ now \in Now
      /\ now.epoch \in Int /\ now.epoch >= 0
      /\ pressed \in Seq(Keys) /\ Len(pressed) <= CodeLen
  BY DEF IndInv, TypeOK, Now, Buffers
<1>3. ui.screen = "ENTRY" => /\ ui.entry_len \in 1..(CodeLen - 1)
                             /\ ui.clock_trusted
                             /\ access.lockout_until <= now.epoch
  BY DEF IndInv, EntryIsOpen, EntryInStep, BufferIsEntry
<1>4. ui.screen # "ENTRY" => ui.entry_len = 0 /\ buf = Wiped
  BY DEF IndInv, EntryIsOpen, EntryInStep, BufferWiped
<1>5. ui.clock_trusted = access.clock_trusted
  BY DEF IndInv, EntryInStep, NeverEvaluatedBlind
<1>6. /\ r.ui \in UiContext /\ r.ui.clock_trusted = ui.clock_trusted
      /\ \/ /\ ~ui.clock_trusted /\ ~r.submit
            /\ r.ui.screen = "NO_CLOCK" /\ r.ui.entry_len = 0
         \/ /\ ui.clock_trusted /\ AcIsLockedOut(access, now.epoch)
            /\ r.ui = ui /\ ~r.submit
         \/ /\ ui.clock_trusted /\ ~AcIsLockedOut(access, now.epoch)
            /\ r.ui.screen = "ENTRY" /\ r.ui.entry_len = len
            /\ len \in 1..CodeLen /\ r.submit = (len = CodeLen)
  BY <1>2, <1>3, KeyFacts
<1>7. AcIsLockedOut(access, now.epoch) = ~(access.lockout_until <= now.epoch)
  BY <1>2 DEF AcIsLockedOut, Context
<1>8. b \in Buffers /\ (r.ui.entry_len = 0 => b = buf)
  <2>1. r.ui.entry_len \in 0..CodeLen
    BY <1>6 DEF UiContext
  <2> QED
    BY <1>2, <2>1, TypedFacts
<1>9. pressed' \in Seq(Keys) /\ Len(pressed') <= CodeLen
  BY <1>1, <1>2, PressedFacts
<1>10. lastEvent' \in {Never} \union 0..t'
  <2>1. t \in 0..t /\ lastEvent \in {Never} \union 0..t
    BY DEF IndInv, TypeOK
  <2> QED
    BY <1>1, <2>1
<1>11. now' = now /\ t' \in Nat /\ lastWake' \in 0..t' /\ phase' = "awake"
  BY <1>1 DEF IndInv, TypeOK
<1>12. CASE ~r.submit /\ r.ui.screen # "ENTRY"
  <2>1. r.ui.entry_len = 0 /\ b = Wiped
    BY <1>3, <1>4, <1>6, <1>7, <1>8, <1>12
  <2>2. ui' = r.ui /\ buf' = Wiped /\ out' = Silent /\ access' = access
    BY <1>1, <1>12, <2>1
  <2> HIDE DEF r, b, len
  <2>3. TypeOK'
    BY <1>2, <1>6, <1>9, <1>10, <1>11, <2>2, SilentType, WipedType DEF TypeOK, Buffers
  <2> QED
    BY <1>2, <1>5, <1>6, <1>11, <1>12, <2>1, <2>2, <2>3, SilentType
       DEF IndInv, EntryIsOpen, EntryInStep, BufferWiped, BufferIsEntry,
           NeverEvaluatedBlind
<1>13. CASE ~r.submit /\ r.ui.screen = "ENTRY"
  <2>1. /\ ui.clock_trusted /\ access.lockout_until <= now.epoch
        /\ r.ui.entry_len = len /\ len \in 1..(CodeLen - 1)
    <3>1. ~AcIsLockedOut(access, now.epoch) /\ ui.clock_trusted
      BY <1>3, <1>6, <1>7, <1>13
    <3>2. r.ui.entry_len = len /\ len \in 1..CodeLen /\ len # CodeLen
      BY <1>6, <1>13, <3>1
    <3>3. CodeLen \in Nat
      BY Numbers
    <3>4. access.lockout_until <= now.epoch
      BY <1>7, <3>1
    <3> HIDE DEF r, b, len
    <3>5. len \in 1..(CodeLen - 1)
      BY <3>2, <3>3
    <3> QED
      BY <3>1, <3>2, <3>4, <3>5
  <2>2. ui' = r.ui /\ buf' = b /\ out' = Silent /\ access' = access
    BY <1>1, <1>13
  <2>3. /\ Len(pressed') >= len
        /\ \A i \in 1..CodeLen :
             b[i] = IF i <= len THEN pressed'[Len(pressed') - len + i] ELSE NoKey
    BY <1>1, <1>6, <1>13, <2>1, EntryGrows
  <2> HIDE DEF r, b, len
  <2>4. TypeOK'
    BY <1>2, <1>6, <1>8, <1>9, <1>10, <1>11, <2>2, SilentType DEF TypeOK, Buffers
  <2>5. BufferIsEntry'
    BY <2>1, <2>2, <2>3 DEF BufferIsEntry
  <2> QED
    BY <1>2, <1>5, <1>6, <1>11, <1>13, <2>1, <2>2, <2>4, <2>5, SilentType
       DEF IndInv, EntryIsOpen, EntryInStep, BufferWiped, NeverEvaluatedBlind
<1>14. CASE r.submit
  <2>1. ui.clock_trusted /\ access.lockout_until <= now.epoch
    BY <1>6, <1>7, <1>14
  <2> HIDE DEF r, b, len
  <2> DEFINE e == AcEvaluate(access, HashOf[b], now.epoch)
             q == UiOnResult(r.ui, e.ac, e.result, now)
  <2>2. /\ access' = e.ac /\ ui' = q /\ buf' = Wiped
        /\ out' = [result |-> e.result, persist_attempts |-> AttemptsChanged(e.ac)]
    BY <1>1, <1>14 DEF Submit
  <2>3. /\ e.ac \in Context /\ e.ac.clock_trusted = access.clock_trusted
        /\ e.result \in {"GRANTED", "UNKNOWN", "NOT_YET", "EXPIRED"}
    BY <1>2, <1>5, <2>1, EvaluateFacts
  <2> HIDE DEF e
  <2>4. /\ q \in UiContext /\ q.screen # "ENTRY" /\ q.entry_len = 0
        /\ q.clock_trusted = r.ui.clock_trusted
    BY <1>2, <1>6, <2>3, ResultFacts
  <2> HIDE DEF q
  <2>5. /\ out' \in [result : Results \union {"NONE"}, persist_attempts : BOOLEAN]
        /\ out'.result = e.result
    <3>1. e.result \in Results \union {"NONE"}
      BY <2>3 DEF Results
    <3> QED
      BY <2>2, <3>1, OutType
  <2>6. TypeOK'
    BY <1>2, <1>9, <1>10, <1>11, <2>2, <2>3, <2>4, <2>5, WipedType DEF TypeOK, Buffers
  <2> QED
    BY <1>2, <1>5, <1>6, <1>11, <2>2, <2>3, <2>4, <2>5, <2>6
       DEF IndInv, EntryIsOpen, EntryInStep, BufferWiped, BufferIsEntry,
           NeverEvaluatedBlind
<1> QED
  BY <1>12, <1>13, <1>14

\* Every step: the clock, the trust and the table touch no entry.
LEMMA NextInv == IndInv /\ [Next]_vars => IndInv'
<1> SUFFICES ASSUME IndInv, [Next]_vars PROVE IndInv'
  OBVIOUS
<1>1. ASSUME Elapse PROVE IndInv'
  <2>1. t \in Nat /\ t' = t + 1 /\ lastWake \in 0..t /\ lastEvent \in {Never} \union 0..t
    BY <1>1 DEF Elapse, IndInv, TypeOK
  <2>2. t' \in Nat /\ lastWake \in 0..t' /\ lastEvent \in {Never} \union 0..t'
    BY <2>1
  <2>3. UNCHANGED <<access, ui, buf, out, phase, now, lastWake, pressed, lastEvent>>
    BY <1>1 DEF Elapse
  <2> QED
    BY <2>2, <2>3
       DEF IndInv, TypeOK, EntryIsOpen, EntryInStep, BufferWiped, BufferIsEntry,
           NeverEvaluatedBlind
<1>2. ASSUME TrustClock PROVE IndInv'
  <2>1. access' = [access EXCEPT !.clock_trusted = TRUE]
        /\ ui' = UiSetClockTrusted(ui, TRUE)
    BY <1>2 DEF TrustClock
  <2>2. /\ access' \in Context /\ access'.clock_trusted
        /\ access'.lockout_until = access.lockout_until
    BY <2>1 DEF IndInv, TypeOK, Context
  <2>3. /\ ui' \in UiContext /\ ui'.clock_trusted
        /\ ui'.screen = ui.screen /\ ui'.entry_len = ui.entry_len
    BY <2>1, TrustFacts DEF IndInv, TypeOK
  <2>4. UNCHANGED <<buf, out, phase, now, t, lastWake, pressed, lastEvent>>
    BY <1>2 DEF TrustClock
  <2>5. ui'.clock_trusted = access'.clock_trusted
    BY <2>1, <2>2, <2>3 DEF UiSetClockTrusted, IndInv, TypeOK, UiContext, Context
  <2> QED
    BY <2>2, <2>3, <2>4, <2>5
       DEF IndInv, TypeOK, EntryIsOpen, EntryInStep, BufferWiped, BufferIsEntry,
           NeverEvaluatedBlind
<1>3. ASSUME NEW table \in Tables, ChangeTable(table) PROVE IndInv'
  <2>1. access' = [access EXCEPT !.slots = table] /\ table \in [SlotIndex -> Slot]
    BY <1>3, GateAssumption DEF ChangeTable
  <2>2. /\ access' \in Context /\ access'.clock_trusted = access.clock_trusted
        /\ access'.lockout_until = access.lockout_until
    BY <2>1 DEF IndInv, TypeOK, Context
  <2>3. UNCHANGED <<ui, buf, out, phase, now, t, lastWake, pressed, lastEvent>>
    BY <1>3 DEF ChangeTable
  <2> QED
    BY <2>2, <2>3
       DEF IndInv, TypeOK, EntryIsOpen, EntryInStep, BufferWiped, BufferIsEntry,
           NeverEvaluatedBlind
<1>4. ASSUME UNCHANGED vars PROVE IndInv'
  BY <1>4
     DEF vars, IndInv, TypeOK, EntryIsOpen, EntryInStep, BufferWiped, BufferIsEntry,
         NeverEvaluatedBlind
<1> QED
  BY <1>1, <1>2, <1>3, <1>4, WakeInv, KeyInv, LongPressInv, TickInv, RestartInv DEF Next

-----------------------------------------------------------------------------
(* The panel goes dark *)

\* What a screen stays up for, and until when.
SpanOf(screen) == IF screen = "ENTRY" THEN EntryTimeout ELSE NoticeSpan[screen]

DeadlineOf(u) == IF u.screen = "ENTRY" THEN u.entry_deadline_ms ELSE u.screen_until_ms

\* What ui_tick takes for the end of it.
Over(u, n) ==
  /\ u.screen # "ENTRY" => u.screen_until_ms # 0
  /\ Reached(DeadlineOf(u), n.ms)

\* The deadline of what is up was set by the iteration of the last key event, at a
\* true time that the event is no further from than a stall.
DeadlineIsSet ==
  /\ now.ms = lastWake % Wrap
  /\ t - lastWake <= Stall
  /\ ui.screen # "IDLE" =>
       \E wake \in 0..lastWake :
         /\ wake <= lastEvent /\ lastEvent - wake <= Stall
         /\ DeadlineOf(ui) = (wake + SpanOf(ui.screen)) % Wrap

\* What is up after an iteration was not over in that iteration.
TickLooked ==
  phase = "asleep" /\ ui.screen # "IDLE" /\ ~Locked(ui, access, now) => ~Over(ui, now)

Dark == DeadlineIsSet /\ TickLooked

\* What a screen's deadline is, once a key or a result has put it up: the
\* iteration's reading and the screen's span.
IsSet(u, n) == u.screen # "IDLE" => DeadlineOf(u) = Add(n.ms, SpanOf(u.screen))

\* A notice's deadline is its span ahead.
LEMMA NoticeIsSet ==
  ASSUME NEW u \in UiContext, NEW s \in Notices, NEW n \in Now
  PROVE  IsSet(Notice(u, s, n), n)
<1>1. s # "ENTRY"
  BY DEF Notices
<1> QED
  BY <1>1 DEF Notice, IsSet, DeadlineOf, SpanOf, UiContext

\* An idle panel has no deadline.
LEMMA IdleIsSet ==
  ASSUME NEW u \in UiContext, NEW n
  PROVE  IsSet(GoIdle(u), n)
BY IdleFacts DEF IsSet

\* ui_on_key outside a lockout sets the deadline of what it puts up.
LEMMA KeySets ==
  ASSUME NEW u \in UiContext, NEW ac, NEW n \in Now, ~Locked(u, ac, n)
  PROVE  IsSet(UiOnKey(u, ac, n).ui, n)
<1> DEFINE len == IF u.screen = "ENTRY" THEN u.entry_len + 1 ELSE 1
           counted == [u EXCEPT !.screen = "ENTRY", !.entry_len = len,
                                !.entry_deadline_ms = Add(n.ms, EntryTimeout)]
<1>1. \/ UiOnKey(u, ac, n).ui = Notice(u, "NO_CLOCK", n)
      \/ UiOnKey(u, ac, n).ui = counted
  BY DEF UiOnKey, Locked
<1>2. IsSet(Notice(u, "NO_CLOCK", n), n)
  <2>1. "NO_CLOCK" \in Notices
    BY DEF Notices
  <2> QED
    BY <2>1, NoticeIsSet
<1>3. IsSet(counted, n)
  BY DEF IsSet, DeadlineOf, SpanOf, UiContext
<1> HIDE DEF counted
<1> QED
  BY <1>1, <1>2, <1>3

\* ui_on_result does so too.
LEMMA ResultSets ==
  ASSUME NEW u \in UiContext, NEW ac, NEW n \in Now,
         NEW result \in {"GRANTED", "UNKNOWN", "NOT_YET", "EXPIRED"}
  PROVE  IsSet(UiOnResult(u, ac, result, n), n)
<1>1. \/ UiOnResult(u, ac, result, n) = Notice(u, result, n) /\ result \in Notices
      \/ UiOnResult(u, ac, result, n) = GoIdle(u)
      \/ UiOnResult(u, ac, result, n) = Notice(u, "DENIED", n) /\ "DENIED" \in Notices
  BY DEF UiOnResult, Notices
<1> QED
  BY <1>1, NoticeIsSet, IdleIsSet

\* ui_tick outside a lockout leaves what is not over.
LEMMA TickEnds ==
  ASSUME NEW u \in UiContext, NEW ac, NEW n, ~Locked(u, ac, n)
  PROVE  \/ UiTick(u, ac, n).ui = GoIdle(u)
         \/ UiTick(u, ac, n).ui = u /\ ~Over(u, n)
<1> DEFINE over == IF u.screen = "ENTRY" THEN Reached(u.entry_deadline_ms, n.ms)
                   ELSE u.screen_until_ms # 0 /\ Reached(u.screen_until_ms, n.ms)
<1>1. over \in BOOLEAN /\ (over <=> Over(u, n))
  BY DEF Reached, Over, DeadlineOf
<1> HIDE DEF over
<1>2. UiTick(u, ac, n).ui = IF over THEN GoIdle(u) ELSE u
  BY DEF UiTick, over
<1> QED
  BY <1>1, <1>2

\* The spans of the screens.
LEMMA SpanFacts ==
  ASSUME NEW u \in UiContext, u.screen # "IDLE"
  PROVE  SpanOf(u.screen) \in Nat \ {0} /\ 2 * SpanOf(u.screen) < Wrap
BY UiAssumption DEF UiContext, Screens, SpanOf

\* Keys: a counted key, a refused one and a result set a deadline from this
\* iteration's reading; an ignored one changes nothing.
LEMMA KeyIsSet ==
  ASSUME IndInv, DeadlineIsSet, NEW key \in Keys, GateOnKey(key)
  PROVE  DeadlineIsSet'
<1> DEFINE r == UiOnKey(ui, access, now)
           b == Typed(r.ui, key)
<1>1. /\ IF r.submit THEN Submit(r.ui, b) ELSE ui' = r.ui
      /\ lastEvent' = (IF Locked(ui, access, now) THEN lastEvent ELSE t)
      /\ UNCHANGED <<phase, now, t, lastWake>>
  BY DEF GateOnKey
<1>2. /\ access \in Context /\ ui \in UiContext /\ now \in Now
      /\ now.epoch \in Int /\ now.epoch >= 0 /\ t \in Nat /\ lastWake \in 0..t
  BY DEF IndInv, TypeOK, Now
<1>3. ui.screen = "ENTRY" => ui.entry_len \in 1..(CodeLen - 1)
  BY DEF IndInv, EntryInStep, BufferIsEntry
<1>4. CASE Locked(ui, access, now)
  <2>1. r.ui = ui /\ ~r.submit
    BY <1>4 DEF UiOnKey, Locked
  <2>2. ui' = ui /\ lastEvent' = lastEvent /\ now' = now /\ t' = t /\ lastWake' = lastWake
    BY <1>1, <1>4, <2>1
  <2> QED
    BY <2>2 DEF DeadlineIsSet, DeadlineOf
<1>5. CASE ~Locked(ui, access, now)
  <2>1. r.ui \in UiContext /\ IsSet(r.ui, now)
    BY <1>2, <1>3, <1>5, KeyFacts, KeySets
  <2>2. IsSet(ui', now) /\ ui' \in UiContext
    <3>1. CASE ~r.submit
      BY <1>1, <2>1, <3>1
    <3>2. CASE r.submit
      <4> DEFINE e == AcEvaluate(access, HashOf[b], now.epoch)
      <4>1. ui' = UiOnResult(r.ui, e.ac, e.result, now)
        BY <1>1, <3>2 DEF Submit
      <4>2. ui.clock_trusted /\ ~AcIsLockedOut(access, now.epoch)
        BY <1>2, <1>3, <3>2, KeyFacts
      <4>3. access.clock_trusted /\ access.lockout_until <= now.epoch
        BY <1>2, <4>2
           DEF AcIsLockedOut, Context, IndInv, EntryInStep, NeverEvaluatedBlind
      <4>4. e.result \in {"GRANTED", "UNKNOWN", "NOT_YET", "EXPIRED"}
        BY <1>2, <4>3, EvaluateFacts
      <4> HIDE DEF e, r, b
      <4> QED
        BY <1>2, <2>1, <4>1, <4>4, ResultFacts, ResultSets
    <3> QED
      BY <3>1, <3>2
  <2> HIDE DEF r, b
  <2>3. ASSUME ui'.screen # "IDLE"
        PROVE  DeadlineOf(ui') = (lastWake + SpanOf(ui'.screen)) % Wrap
    <3> DEFINE span == SpanOf(ui'.screen)
    <3>1. DeadlineOf(ui') = (now.ms + span) % Wrap
      BY <2>2, <2>3 DEF IsSet, Add
    <3>2. span \in Int /\ lastWake \in Int /\ now.ms = lastWake % Wrap
      BY <1>2, <2>2, <2>3, SpanFacts DEF DeadlineIsSet
    <3> HIDE DEF span
    <3>3. ((lastWake % Wrap) + span) % Wrap = (lastWake + span) % Wrap
      BY <3>2, ModSum
    <3> QED
      BY <3>1, <3>2, <3>3 DEF span
  <2>4. /\ lastWake' = lastWake /\ lastEvent' = t /\ t' = t /\ now' = now
        /\ lastWake \in 0..lastWake' /\ lastWake <= t /\ t - lastWake <= Stall
    BY <1>1, <1>2, <1>5 DEF DeadlineIsSet
  <2> QED
    BY <2>3, <2>4 DEF DeadlineIsSet, DeadlineOf
<1> QED
  BY <1>4, <1>5

\* Other steps that leave the panel, or clear it.
LEMMA OtherIsSet ==
  ASSUME IndInv, DeadlineIsSet,
         GateOnLongPress \/ GateTick \/ Wake \/ Elapse \/ TrustClock
           \/ (\E table \in Tables : ChangeTable(table)) \/ UNCHANGED vars
  PROVE  DeadlineIsSet'
<1>1. /\ ui \in UiContext /\ t \in Nat /\ lastWake \in 0..t /\ Stall \in Nat
      /\ lastEvent \in {Never} \union 0..t
  BY Numbers DEF IndInv, TypeOK
<1>2. ASSUME \/ ui'.screen = "IDLE"
             \/ /\ ui'.screen = ui.screen /\ DeadlineOf(ui') = DeadlineOf(ui)
                /\ lastEvent' = lastEvent,
             lastWake' \in lastWake..t', t' - lastWake' <= Stall,
             now'.ms = lastWake' % Wrap, t' \in Nat
      PROVE  DeadlineIsSet'
  <2>1. CASE ui'.screen = "IDLE"
    BY <1>2, <2>1 DEF DeadlineIsSet
  <2>2. CASE ui'.screen # "IDLE"
    <3>1. PICK wake \in 0..lastWake :
            /\ wake <= lastEvent /\ lastEvent - wake <= Stall
            /\ DeadlineOf(ui) = (wake + SpanOf(ui.screen)) % Wrap
      BY <1>2, <2>2 DEF DeadlineIsSet
    <3>2. wake \in 0..lastWake'
      BY <1>1, <1>2
    <3> QED
      BY <1>2, <2>2, <3>1, <3>2 DEF DeadlineIsSet, DeadlineOf
  <2> QED
    BY <2>1, <2>2
<1>3. CASE GateOnLongPress
  <2>1. /\ now' = now /\ t' = t /\ lastWake' = lastWake
        /\ \/ ui' = GoIdle(ui)
           \/ ui' = ui /\ lastEvent' = lastEvent
    BY <1>3 DEF GateOnLongPress, UiOnLongPress
  <2> QED
    BY <1>1, <1>2, <2>1, IdleFacts DEF DeadlineIsSet
<1>4. CASE GateTick
  <2> DEFINE ac == IF ui.clock_trusted THEN AcTick(access, now.epoch) ELSE access
  <2>1. /\ now' = now /\ t' = t /\ lastWake' = lastWake /\ lastEvent' = lastEvent
        /\ ui' = UiTick(ui, ac, now).ui
    BY <1>4 DEF GateTick
  <2> HIDE DEF ac
  <2>2. CASE Locked(ui, ac, now)
    <3>1. ui' = [ui EXCEPT !.entry_len = 0]
      BY <2>1, <2>2 DEF UiTick
    <3>2. ui'.screen = ui.screen /\ DeadlineOf(ui') = DeadlineOf(ui)
      BY <1>1, <3>1 DEF UiContext, DeadlineOf
    <3> QED
      BY <1>1, <1>2, <2>1, <3>2 DEF DeadlineIsSet
  <2>3. CASE ~Locked(ui, ac, now)
    <3>1. ui'.screen = "IDLE" \/ ui' = ui
      BY <1>1, <2>1, <2>3, TickEnds, IdleFacts
    <3> QED
      BY <1>1, <1>2, <2>1, <3>1 DEF DeadlineIsSet
  <2> QED
    BY <2>2, <2>3
<1>5. CASE Wake
  <2>1. /\ now'.ms = t % Wrap /\ lastWake' = t /\ t' = t /\ ui' = ui
        /\ lastEvent' = lastEvent
    BY <1>5 DEF Wake
  <2>2. lastWake' \in lastWake..t' /\ t' - lastWake' <= Stall /\ t' \in Nat
    BY <1>1, <2>1
  <2> QED
    BY <1>2, <2>1, <2>2
<1>6. CASE Elapse
  <2>1. /\ now' = now /\ lastWake' = lastWake /\ t' = t + 1 /\ ui' = ui
        /\ lastEvent' = lastEvent /\ t - lastWake < Stall
    BY <1>6 DEF Elapse
  <2>2. lastWake' \in lastWake..t' /\ t' - lastWake' <= Stall /\ t' \in Nat
    BY <1>1, <2>1
  <2>3. now'.ms = lastWake' % Wrap
    BY <2>1 DEF DeadlineIsSet
  <2> QED
    BY <1>2, <2>1, <2>2, <2>3
<1>7. CASE TrustClock
  <2>1. /\ now' = now /\ t' = t /\ lastWake' = lastWake /\ lastEvent' = lastEvent
        /\ ui' = [ui EXCEPT !.clock_trusted = TRUE]
    BY <1>7 DEF TrustClock, UiSetClockTrusted
  <2>2. ui'.screen = ui.screen /\ DeadlineOf(ui') = DeadlineOf(ui)
    BY <1>1, <2>1 DEF UiContext, DeadlineOf
  <2> QED
    BY <1>1, <1>2, <2>1, <2>2 DEF DeadlineIsSet
<1>8. CASE (\E table \in Tables : ChangeTable(table)) \/ UNCHANGED vars
  <2>1. /\ now' = now /\ t' = t /\ lastWake' = lastWake /\ lastEvent' = lastEvent
        /\ ui' = ui
    BY <1>8 DEF ChangeTable, vars
  <2> QED
    BY <1>1, <1>2, <2>1 DEF DeadlineIsSet
<1> QED
  BY <1>3, <1>4, <1>5, <1>6, <1>7, <1>8

\* An iteration looks at what is up; between two, nothing lifts a lockout that
\* kept it from looking.
LEMMA LookedInv ==
  ASSUME IndInv, TickLooked,
         GateTick \/ Elapse \/ TrustClock
           \/ (\E table \in Tables : ChangeTable(table)) \/ UNCHANGED vars
  PROVE  TickLooked'
<1>1. ui \in UiContext /\ access \in Context /\ now.epoch \in Int
  BY DEF IndInv, TypeOK, Now
<1>2. CASE GateTick
  <2> DEFINE ac == IF ui.clock_trusted THEN AcTick(access, now.epoch) ELSE access
  <2>1. now' = now /\ access' = ac /\ ui' = UiTick(ui, ac, now).ui
    BY <1>2 DEF GateTick
  <2> HIDE DEF ac
  <2>2. CASE Locked(ui, ac, now)
    <3>1. ui' = [ui EXCEPT !.entry_len = 0]
      BY <2>1, <2>2 DEF UiTick
    <3>2. ui'.clock_trusted = ui.clock_trusted
      BY <1>1, <3>1 DEF UiContext
    <3>3. Locked(ui', access', now')
      BY <2>1, <2>2, <3>2 DEF Locked
    <3> QED
      BY <3>3 DEF TickLooked
  <2>3. CASE ~Locked(ui, ac, now)
    <3>1. ui'.screen = "IDLE" \/ (ui' = ui /\ ~Over(ui, now))
      BY <1>1, <2>1, <2>3, TickEnds, IdleFacts
    <3> QED
      BY <2>1, <3>1 DEF TickLooked
  <2> QED
    BY <2>2, <2>3
<1>3. CASE TrustClock
  <2>1. /\ now' = now /\ phase' = phase /\ phase = "asleep"
        /\ access' = [access EXCEPT !.clock_trusted = TRUE]
        /\ ui' = [ui EXCEPT !.clock_trusted = TRUE]
    BY <1>3 DEF TrustClock, UiSetClockTrusted
  <2>2. /\ ui'.screen = ui.screen /\ DeadlineOf(ui') = DeadlineOf(ui)
        /\ ui'.screen_until_ms = ui.screen_until_ms /\ ui'.clock_trusted
    BY <1>1, <2>1 DEF UiContext, DeadlineOf
  <2>3. access'.lockout_until = access.lockout_until
    BY <1>1, <2>1 DEF Context
  <2>4. Locked(ui, access, now) => Locked(ui', access', now')
    BY <2>1, <2>2, <2>3 DEF Locked, AcIsLockedOut
  <2>5. Over(ui', now') => Over(ui, now)
    BY <2>1, <2>2 DEF Over
  <2> QED
    BY <2>1, <2>2, <2>4, <2>5 DEF TickLooked
<1>4. CASE \E table \in Tables : ChangeTable(table)
  <2>1. PICK table \in Tables : ChangeTable(table)
    BY <1>4
  <2>2. /\ now' = now /\ phase' = phase /\ ui' = ui
        /\ access' = [access EXCEPT !.slots = table]
    BY <2>1 DEF ChangeTable
  <2>3. access'.lockout_until = access.lockout_until
    BY <1>1, <2>2 DEF Context
  <2>4. Locked(ui, access, now) => Locked(ui', access', now')
    BY <2>2, <2>3 DEF Locked, AcIsLockedOut
  <2> QED
    BY <2>2, <2>4 DEF TickLooked
<1>5. CASE Elapse \/ UNCHANGED vars
  <2>1. UNCHANGED <<ui, access, now, phase>>
    BY <1>5 DEF Elapse, vars
  <2> QED
    BY <2>1 DEF TickLooked
<1> QED
  BY <1>2, <1>3, <1>4, <1>5

\* A boot has nothing up.
LEMMA BootDark ==
  ASSUME NEW rtc \in BOOLEAN
  PROVE  UiSetClockTrusted(UiInit, rtc).screen = "IDLE"
BY BootUi

\* A clock of zero is a reading of the time zero.
LEMMA ZeroReading == 0 = 0 % Wrap
BY Numbers, ModSmall

\* Dark is an invariant too, on top of the first.
LEMMA DarkInv == IndInv /\ Dark /\ [Next]_vars => Dark'
<1> SUFFICES ASSUME IndInv, Dark, [Next]_vars PROVE Dark'
  OBVIOUS
<1>1. DeadlineIsSet /\ TickLooked
  BY DEF Dark
<1>2. CASE \E key \in Keys : GateOnKey(key)
  <2>1. PICK key \in Keys : GateOnKey(key)
    BY <1>2
  <2>2. phase' = "awake"
    BY <2>1 DEF GateOnKey
  <2> QED
    BY <1>1, <2>1, <2>2, KeyIsSet DEF Dark, TickLooked
<1>3. CASE GateOnLongPress \/ Wake
  <2>1. phase' = "awake"
    BY <1>3 DEF GateOnLongPress, Wake
  <2> QED
    BY <1>1, <1>3, <2>1, OtherIsSet DEF Dark, TickLooked
<1>4. CASE GateTick \/ Elapse \/ TrustClock
             \/ (\E table \in Tables : ChangeTable(table)) \/ UNCHANGED vars
  BY <1>1, <1>4, OtherIsSet, LookedInv DEF Dark
<1>5. CASE \E rtc, chip \in BOOLEAN : Restart(rtc, chip)
  <2>1. PICK rtc \in BOOLEAN, chip \in BOOLEAN : Restart(rtc, chip)
    BY <1>5
  <2>2. /\ ui'.screen = "IDLE" /\ now'.ms = 0 /\ t' = 0 /\ lastWake' = 0
    BY <2>1, BootDark DEF Restart, Trusting
  <2>3. Stall \in Nat
    BY Numbers
  <2> QED
    BY <2>2, <2>3, ZeroReading DEF Dark, DeadlineIsSet, TickLooked
<1> QED
  BY <1>2, <1>3, <1>4, <1>5 DEF Next

\* The first boot is dark.
LEMMA InitDark == Init => Dark
<1> SUFFICES ASSUME Init PROVE Dark
  OBVIOUS
<1>1. ui.screen = "IDLE" /\ now.ms = 0 /\ t = 0 /\ lastWake = 0
  BY BootDark DEF Init
<1>2. Stall \in Nat
  BY Numbers
<1> QED
  BY <1>1, <1>2, ZeroReading DEF Dark, DeadlineIsSet, TickLooked

-----------------------------------------------------------------------------
(* The theorems *)

\* The inductive invariant.
THEOREM Invariance == Spec => []IndInv
BY InitInv, NextInv, PTL DEF Spec

\* Every variable keeps its type: no entry count, deadline or attempt counter
\* leaves the range of its C type (ui_ctx_t, ac_ctx_t, s_gate).
THEOREM TypeCorrect == Spec => []TypeOK
<1>1. IndInv => TypeOK
  BY DEF IndInv
<1> QED
  BY <1>1, Invariance, PTL

\* The panel's count, gate_ctrl's buffer and access_core's guards never disagree:
\* no character outlives its entry, what is hashed is what was pressed, and nothing
\* is evaluated that the lockout or the missing clock has decided (gate_on_key,
\* gate_on_long_press, gate_tick).
THEOREM EntryStaysInStep == Spec => []EntryInStep
<1>1. IndInv => EntryInStep
  BY DEF IndInv
<1> QED
  BY <1>1, Invariance, PTL

\* The lock is told to open only by the key that completes a code that is in the
\* table and inside its window, with the clock trusted and no lockout in force,
\* however late the iteration and whatever the clocks read (submit, ac_evaluate).
THEOREM OnlyTypedCodesOpen == Spec => OpensOnlyForTypedCode
<1>1. ASSUME IndInv, [Next]_vars PROVE OpensForTypedCode
  <2> SUFFICES ASSUME out'.result = "GRANTED", out.result # "GRANTED"
               PROVE  /\ access.clock_trusted /\ access.lockout_until <= now.epoch
                      /\ \E i \in SlotIndex :
                           /\ access.slots[i].occupied
                           /\ access.slots[i].hash = HashOf[pressed']
                           /\ access.slots[i].valid_from <= now.epoch
                           /\ now.epoch <= access.slots[i].valid_until
    BY DEF OpensForTypedCode
  <2>1. out' # Silent
    BY DEF Silent
  <2>2. ~GateTick
    BY DEF GateTick
  <2>3. PICK key \in Keys : GateOnKey(key)
    BY <1>1, <2>1, <2>2
       DEF Next, Wake, GateOnLongPress, Elapse, TrustClock, ChangeTable, Restart, vars
  <2> DEFINE r == UiOnKey(ui, access, now)
             b == Typed(r.ui, key)
             len == IF ui.screen = "ENTRY" THEN ui.entry_len + 1 ELSE 1
             e == AcEvaluate(access, HashOf[b], now.epoch)
  <2>4. /\ access \in Context /\ ui \in UiContext /\ now \in Now
        /\ now.epoch \in Int /\ now.epoch >= 0
        /\ ui.clock_trusted = access.clock_trusted
    BY <1>1 DEF IndInv, TypeOK, Now, EntryInStep, NeverEvaluatedBlind
  <2>5. r.submit /\ out'.result = e.result /\ pressed' = LastKeys(Append(pressed, key))
    <3>1. r.submit
      BY <2>1, <2>3 DEF GateOnKey
    <3> QED
      BY <2>3, <3>1 DEF GateOnKey, Submit
  <2>6. ui.screen = "ENTRY" => ui.entry_len \in 1..(CodeLen - 1)
    BY <1>1 DEF IndInv, EntryInStep, BufferIsEntry
  <2>7. /\ ui.clock_trusted /\ ~AcIsLockedOut(access, now.epoch)
        /\ r.ui.entry_len = len /\ len = CodeLen /\ len \in 1..CodeLen
    BY <2>4, <2>5, <2>6, KeyFacts
  <2>8. b = pressed'
    BY <1>1, <2>5, <2>7, EntryGrows
  <2>9. access.lockout_until <= now.epoch
    BY <2>4, <2>7 DEF AcIsLockedOut, Context
  <2> HIDE DEF r, b, len
  <2>10. e.result = "GRANTED" =>
           \E i \in SlotIndex :
             /\ access.slots[i].occupied /\ access.slots[i].hash = HashOf[b]
             /\ access.slots[i].valid_from <= now.epoch
             /\ now.epoch <= access.slots[i].valid_until
    BY <2>4, <2>7, <2>9, EvaluateFacts
  <2> QED
    BY <2>4, <2>5, <2>7, <2>8, <2>9, <2>10
<1>2. IndInv /\ [Next]_vars => [OpensForTypedCode]_vars
  BY <1>1
<1>3. Spec => [][OpensForTypedCode]_vars
  BY <1>2, Invariance, PTL DEF Spec
<1> QED
  BY <1>3 DEF OpensOnlyForTypedCode

\* Nothing stays on the panel longer than its span and the time the loop was away,
\* but for a notice whose deadline is the reading 0 (ui_tick).
THEOREM PanelDarkens == Spec => []PanelGoesDark
<1>1. IndInv /\ Dark => PanelGoesDark
  <2> SUFFICES ASSUME IndInv, Dark, Overdue,
                      ui.screen = "ENTRY" \/ ui.screen_until_ms # 0
               PROVE  FALSE
    BY DEF PanelGoesDark
  <2> DEFINE span == SpanOf(ui.screen)
  <2>1. /\ ui \in UiContext /\ ui.screen # "IDLE" /\ t \in Nat /\ lastWake \in 0..t
        /\ lastEvent \in {Never} \union 0..t /\ Stall \in Nat /\ Wrap \in Nat
        /\ span = Span
    BY Numbers DEF IndInv, TypeOK, Overdue, SpanOf, Span
  <2>2. span \in Nat \ {0} /\ 2 * span < Wrap
    BY <2>1, SpanFacts
  <2>3. PICK wake \in 0..lastWake :
          /\ wake <= lastEvent /\ lastEvent - wake <= Stall
          /\ DeadlineOf(ui) = (wake + span) % Wrap
    BY <2>1 DEF Dark, DeadlineIsSet
  <2>4. /\ t - lastEvent >= span + Stall /\ t - lastWake <= Stall
        /\ 2 * (t - lastEvent + Stall - span) < Wrap
        /\ now.ms = lastWake % Wrap
    BY <2>1 DEF Overdue, Dark, DeadlineIsSet
  <2>5. ~Over(ui, now)
    BY DEF Overdue, Dark, TickLooked
  <2>6. ~Reached((wake + span) % Wrap, lastWake % Wrap)
    BY <2>3, <2>4, <2>5 DEF Over
  <2> HIDE DEF span
  <2>7. /\ wake + span \in Int /\ lastWake \in Int /\ lastEvent \in Int
        /\ 2 * (lastWake - (wake + span)) <= Wrap
        /\ 2 * ((wake + span) - lastWake) < Wrap
    BY <2>1, <2>2, <2>3, <2>4 DEF Never
  <2>8. lastWake < wake + span
    BY <2>6, <2>7, ReachedIsTrue
  <2> QED
    BY <2>1, <2>2, <2>3, <2>4, <2>7, <2>8
<1>2. Spec => []Dark
  <2>1. IndInv /\ Dark /\ [Next]_vars => Dark'
    BY DarkInv
  <2> QED
    BY <2>1, InitDark, Invariance, PTL DEF Spec
<1> QED
  BY <1>1, <1>2, Invariance, PTL
=============================================================================
