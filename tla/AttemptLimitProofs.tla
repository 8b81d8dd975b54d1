------------------------- MODULE AttemptLimitProofs -------------------------
(***************************************************************************)
(* Proofs about AttemptLimit, for every table, policy and bound.           *)
(* The argument: IndInv is an inductive invariant.  Its core is Ledger,    *)
(* which says that the pair in RAM, and the pair on the chip, each account *)
(* for all the wrong codes and all the lockouts in the history.            *)
(***************************************************************************)
EXTENDS AttemptLimit, TLAPS

\* What ac_evaluate can return, case by case: it never touches the table,
\* and it registers a failure only when no lockout is in force.
LEMMA EvaluateCases ==
  ASSUME access \in Context, now \in Nat, NEW h
  PROVE  LET e == AcEvaluate(access, h, now)
             t == AcTick(access, now)
         IN  \/ e.ac = access /\ e.result = "NO_CLOCK"
             \/ e.ac = t /\ e.result \in {"LOCKOUT", "NOT_YET", "EXPIRED"}
             \/ /\ e.ac = RegisterFailure(t, now) /\ e.result = "UNKNOWN"
                /\ t.lockout_until <= now
             \/ /\ e.ac = AcRestoreAttempts(t, 0, 0) /\ e.result = "GRANTED"
                /\ t.lockout_until <= now
<1> DEFINE t == AcTick(access, now)
           v == Verdict(t.slots[LastOf(Matches(t, h))], now)
<1>1. v \in {"NOT_YET", "EXPIRED", "GRANTED"}
  BY DEF Verdict
<1>2. t.lockout_until \in Int
  BY DEF AcTick, Context
<1> HIDE DEF v, t
<1>3. QED
  BY <1>1, <1>2 DEF AcEvaluate, AcIsLockedOut, t, v

\* ac_tick keeps the type and the coupling, and only ever lifts a lockout
\* whose deadline has passed.
LEMMA TickFacts ==
  ASSUME access \in Context, now \in Nat,
         access.lockout_until \in Nat, Coupled(PairOf(access))
  PROVE  LET t == AcTick(access, now)
         IN  /\ t \in Context /\ t.lockout_until \in Nat
             /\ Coupled(PairOf(t))
             /\ t.lockout_until <= now => t.lockout_until = 0
             /\ \/ t = access
                \/ /\ access.lockout_until # 0 /\ access.lockout_until <= now
                   /\ PairOf(t) = [failed |-> 0, until |-> 0]
<1> DEFINE t == AcTick(access, now)
<1>1. CASE access.lockout_until # 0 /\ access.lockout_until <= now
  <2>0. 0 \in 0..CounterMax /\ 0 \in Int
    BY PolicyAssumption
  <2>1. t = [access EXCEPT !.lockout_until = 0, !.failed_attempts = 0]
    BY <1>1 DEF AcTick
  <2>2. t \in Context /\ t.lockout_until = 0 /\ t.failed_attempts = 0
    BY <2>0, <2>1 DEF Context
  <2>3. PairOf(t) = [failed |-> 0, until |-> 0]
    BY <2>2 DEF PairOf
  <2>4. Coupled(PairOf(t))
    BY <2>3, PolicyAssumption DEF Coupled
  <2> HIDE DEF t
  <2> QED
    BY <1>1, <2>2, <2>3, <2>4 DEF t
<1>2. CASE ~(access.lockout_until # 0 /\ access.lockout_until <= now)
  <2>1. t = access
    BY <1>2 DEF AcTick
  <2> HIDE DEF t
  <2> QED
    BY <1>2, <2>1 DEF t
<1>3. QED
  BY <1>1, <1>2

\* register_failure on a context with no lockout: one more failure, and the
\* lockout armed exactly when the counter reaches the maximum.
LEMMA FailureFacts ==
  ASSUME NEW t \in Context, t.lockout_until = 0, now \in Nat,
         Coupled(PairOf(t))
  PROVE  LET r == RegisterFailure(t, now)
         IN  /\ r \in Context /\ r.lockout_until \in Nat
             /\ Coupled(PairOf(r))
             /\ r.failed_attempts = t.failed_attempts + 1
             /\ t.failed_attempts < MaxFailedAttempts
             /\ \/ r.lockout_until = 0
                \/ /\ r.lockout_until = now + LockoutSeconds
                   /\ r.lockout_until # 0
                   /\ t.failed_attempts = MaxFailedAttempts - 1
<1> DEFINE r == RegisterFailure(t, now)
           f == t.failed_attempts + 1
<1>1. t.failed_attempts \in Nat /\ f <= MaxFailedAttempts
  BY PolicyAssumption DEF Context, Coupled, PairOf
<1>2. t.failed_attempts < CounterMax /\ f \in 0..CounterMax
  BY <1>1, PolicyAssumption
<1>3. r = [t EXCEPT !.failed_attempts = f,
                    !.lockout_until = IF f >= MaxFailedAttempts
                                      THEN now + LockoutSeconds ELSE 0]
  BY <1>2 DEF RegisterFailure
<1>4. /\ r \in Context /\ r.failed_attempts = f
      /\ r.lockout_until = IF f >= MaxFailedAttempts
                           THEN now + LockoutSeconds ELSE 0
  <2>1. (IF f >= MaxFailedAttempts THEN now + LockoutSeconds ELSE 0) \in Int
    BY PolicyAssumption
  <2> QED
    BY <1>2, <1>3, <2>1 DEF Context
<1> HIDE DEF r
<1>5. Coupled(PairOf(r))
  BY <1>1, <1>4, PolicyAssumption DEF Coupled, PairOf
<1>6. CASE f >= MaxFailedAttempts
  <2>1. /\ r.lockout_until = now + LockoutSeconds
        /\ now + LockoutSeconds \in Nat /\ now + LockoutSeconds # 0
        /\ t.failed_attempts = MaxFailedAttempts - 1
    BY <1>1, <1>4, <1>6, PolicyAssumption
  <2> QED
    BY <1>1, <1>4, <1>5, <2>1, PolicyAssumption DEF r
<1>7. CASE ~(f >= MaxFailedAttempts)
  <2>1. r.lockout_until = 0 /\ t.failed_attempts < MaxFailedAttempts
    BY <1>1, <1>4, <1>7, PolicyAssumption
  <2> QED
    BY <1>4, <1>5, <2>1 DEF r
<1>8. QED
  BY <1>6, <1>7

\* The first power-up: no attempt charged, nothing armed.
LEMMA InitInv == Init => IndInv
<1> SUFFICES ASSUME Init PROVE IndInv
  OBVIOUS
<1> USE PolicyAssumption, BoundsAssumption DEF Init
<1>1. TypeOK
  <2>0. 0 \in 0..CounterMax /\ 0 \in Int
    OBVIOUS
  <2>1. PICK t \in Tables, trusted \in BOOLEAN :
          access = [AcInit EXCEPT !.slots = t, !.clock_trusted = trusted]
    OBVIOUS
  <2>2. access = [slots |-> t, clock_trusted |-> trusted,
                  failed_attempts |-> 0, lockout_until |-> 0]
    BY <2>1 DEF AcInit
  <2>3. access \in Context
    BY <2>0, <2>2 DEF Context
  <2>4. saved \in [Copies -> AttemptPair]
    BY <2>0 DEF AttemptPair, PairOf, AcInit, Both
  <2>5. hist \in History
    BY DEF History, NoHistory
  <2> QED
    BY <2>3, <2>4, <2>5 DEF TypeOK
<1>2. /\ PairOf(access) = [failed |-> 0, until |-> 0]
      /\ \A k \in Copies : saved[k] = [failed |-> 0, until |-> 0]
  BY DEF PairOf, AcInit, Both
<1>3. CounterAndLockoutAgree
  BY <1>2 DEF CounterAndLockoutAgree, Coupled
<1>4. Ledger
  <2>1. access.lockout_until = 0 /\ \A k \in Copies : saved[k].until = 0
    BY <1>2 DEF PairOf
  <2>2. /\ Charged(PairOf(access)) = 0 /\ Remaining(PairOf(access)) = 0
        /\ \A k \in Copies : Charged(saved[k]) = 0 /\ Remaining(saved[k]) = 0
    BY <1>2 DEF Charged, Remaining
  <2>3. Accounts(PairOf(access), 0)
    BY <2>2 DEF Accounts, NoHistory
  <2>4. \A k \in Copies : Accounts(saved[k], 0)
    BY <2>2 DEF Accounts, NoHistory
  <2>5. InFlight = 0
    BY DEF InFlight
  <2>6. LockoutSeconds * (hist.arms - 1)
          <= hist.forward + LockoutSeconds * (hist.lapses + hist.resets)
    BY DEF NoHistory
  <2> HIDE DEF Init
  <2> QED
    BY <2>1, <2>3, <2>4, <2>5, <2>6 DEF Ledger
<1>5. QED
  BY <1>1, <1>3, <1>4 DEF IndInv

-----------------------------------------------------------------------------
\* A pair accounts for no less when it is given more slack.
LEMMA MoreSlack ==
  ASSUME hist \in History, now \in Nat, NEW p \in AttemptPair, NEW s \in Nat,
         NEW r \in Nat, s <= r, Accounts(p, s)
  PROVE  Accounts(p, r)
<1>1. LockoutSeconds * (hist.lapses + hist.resets + s)
        <= LockoutSeconds * (hist.lapses + hist.resets + r)
  BY PolicyAssumption DEF History
<1>2. Charged(p) \in Int /\ Remaining(p) \in Int
  BY PolicyAssumption DEF Charged, Remaining, AttemptPair
<1>3. QED
  BY <1>1, <1>2, PolicyAssumption DEF Accounts, History

\* A failed, a lifting, a refused and a granting submission.
LEMMA SubmitInv ==
  ASSUME IndInv, NEW h \in Guesses, Submit(h)
  PROVE  IndInv'
<1> DEFINE e == AcEvaluate(access, h, now)
           t == AcTick(access, now)
           p == PairOf(access)
<1>1. /\ access \in Context /\ saved \in [Copies -> AttemptPair]
      /\ now \in Nat
      /\ hist \in History /\ eeprom \in BOOLEAN /\ jumps \in Nat
      /\ access.lockout_until \in Nat
      /\ \A k \in Copies : /\ saved[k] \in AttemptPair
                           /\ saved[k].until \in Nat /\ Coupled(saved[k])
      /\ Coupled(p)
  BY DEF IndInv, TypeOK, Ledger, CounterAndLockoutAgree
<1>2. /\ access' = e.ac
      /\ pending = FALSE /\ pending' \in BOOLEAN
      /\ saved' = saved /\ eeprom' = eeprom /\ now' = now /\ jumps' = jumps
  BY DEF Submit, AttemptsChanged, IndInv, TypeOK
<1>3. t \in Context /\ t.lockout_until \in Nat /\ Coupled(PairOf(t))
  BY <1>1, TickFacts
<1>4. Accounts(PairOf(t), 0)
  <2>1. CASE t = access
    BY <2>1 DEF IndInv, Ledger
  <2>2. CASE access.lockout_until # 0 /\ access.lockout_until <= now
             /\ PairOf(t) = [failed |-> 0, until |-> 0]
    <3>1. /\ Charged(p) = 0 /\ Charged(PairOf(t)) = 0
          /\ Remaining(p) = 0 /\ Remaining(PairOf(t)) = 0
      BY <1>1, <2>2 DEF Charged, Remaining, PairOf
    <3>2. QED
      BY <3>1 DEF IndInv, Ledger, Accounts
  <2>3. QED
    BY <1>1, <2>1, <2>2, TickFacts
<1>5. eeprom => \A k \in Copies : Accounts(saved[k], 0)
  BY <1>2 DEF IndInv, Ledger, InFlight
<1>6. /\ InFlight' \in {0, 1}
      /\ pending' = (PairOf(access') # p)
  BY <1>2 DEF InFlight, Submit, AttemptsChanged
<1>7. /\ access' \in Context
      /\ access'.lockout_until \in Nat
      /\ Coupled(PairOf(access'))
      /\ hist' \in History
      /\ Accounts(PairOf(access), 0)'
      /\ eeprom => \A k \in Copies : Accounts(saved[k], InFlight)'
      /\ (LockoutSeconds * (hist.arms - 1)
            <= hist.forward + LockoutSeconds * (hist.lapses + hist.resets))'
  <2>1. CASE e.ac \in {access, t} /\ e.result \notin {"GRANTED", "UNKNOWN"}
    <3>1. hist' = hist
      BY <2>1 DEF Submit
    <3>2. Accounts(PairOf(access'), 0)
      BY <1>2, <1>4, <2>1 DEF IndInv, Ledger
    <3>3. ASSUME NEW k \in Copies, eeprom
          PROVE  Accounts(saved[k], InFlight')
      <4>1. Accounts(saved[k], 0) /\ saved[k] \in AttemptPair
        BY <1>1, <1>5, <3>3
      <4>2. QED
        BY <1>1, <1>6, <4>1, MoreSlack
    <3>4. QED
      BY <1>1, <1>2, <1>3, <2>1, <3>1, <3>2, <3>3
      DEF Accounts, Charged, Remaining, IndInv, Ledger
  <2>2. CASE /\ e.ac = RegisterFailure(t, now) /\ e.result = "UNKNOWN"
             /\ t.lockout_until <= now
    <3>1. t.lockout_until = 0
      BY <1>1, <2>2, TickFacts
    <3>2. /\ access' \in Context /\ access'.lockout_until \in Nat
          /\ Coupled(PairOf(access'))
          /\ access'.failed_attempts = t.failed_attempts + 1
          /\ \/ access'.lockout_until = 0
             \/ /\ access'.lockout_until = now + LockoutSeconds
                /\ access'.lockout_until # 0
                /\ t.failed_attempts = MaxFailedAttempts - 1
      BY <1>1, <1>2, <1>3, <2>2, <3>1, FailureFacts
    <3>3. hist' = [hist EXCEPT !.wrong = @ + 1,
                               !.arms = IF access'.lockout_until # 0
                                        THEN @ + 1 ELSE @]
      BY <1>2, <2>2 DEF Submit
    <3>4. /\ hist' \in History
          /\ hist'.wrong = hist.wrong + 1
          /\ hist'.arms = IF access'.lockout_until # 0 THEN hist.arms + 1
                                                      ELSE hist.arms
          /\ hist'.forward = hist.forward /\ hist'.lapses = hist.lapses
          /\ hist'.resets = hist.resets
      <4>0. hist.wrong + 1 \in Nat /\ hist.arms + 1 \in Nat /\ hist.arms \in Nat
        BY <1>1 DEF History
      <4>1. CASE access'.lockout_until # 0
        <5>1. hist' = [hist EXCEPT !.wrong = @ + 1, !.arms = @ + 1]
          BY <3>3, <4>1
        <5>2. QED
          BY <1>1, <4>0, <4>1, <5>1 DEF History
      <4>2. CASE access'.lockout_until = 0
        <5>1. hist' = [hist EXCEPT !.wrong = @ + 1, !.arms = @]
          BY <3>3, <4>2
        <5>2. QED
          BY <1>1, <4>0, <4>2, <5>1 DEF History
      <4>3. QED
        BY <4>1, <4>2
    <3>5. PairOf(access') # p
      <4>1. \/ t = access
            \/ access.lockout_until # 0 /\ access.lockout_until <= now
        BY <1>1, TickFacts
      <4>2. CASE t = access
        <5>1. access'.failed_attempts # access.failed_attempts
          BY <1>1, <3>2, <4>2 DEF Context
        <5>2. QED
          BY <5>1 DEF PairOf
      <4>3. CASE access.lockout_until # 0 /\ access.lockout_until <= now
        <5>1. access'.lockout_until # access.lockout_until
          BY <1>1, <3>2, <4>3, PolicyAssumption
        <5>2. QED
          BY <5>1 DEF PairOf
      <4>4. QED
        BY <4>1, <4>2, <4>3
    <3>6. InFlight' = 1
      BY <1>6, <3>5 DEF InFlight
    <3>7. /\ Charged(PairOf(t)) = t.failed_attempts
          /\ Remaining(PairOf(t)) = 0
          /\ t.failed_attempts \in Nat
      BY <1>1, <1>3, <3>1, PolicyAssumption
      DEF Charged, Remaining, PairOf, Context
    <3>8. CASE access'.lockout_until = 0
      <4>1. /\ Charged(PairOf(access))' = t.failed_attempts + 1
            /\ Remaining(PairOf(access))' = 0
        BY <1>1, <1>2, <3>2, <3>8 DEF Charged, Remaining, PairOf
      <4>2. hist'.arms = hist.arms
        BY <3>4, <3>8
      <4>3. Accounts(PairOf(access), 0)'
        BY <1>1, <1>4, <3>4, <3>7, <4>1, <4>2, PolicyAssumption
        DEF Accounts, History
      <4>4. ASSUME NEW k \in Copies, eeprom
            PROVE  Accounts(saved[k], InFlight)'
        <5>1. saved[k] \in AttemptPair /\ Accounts(saved[k], 0)
          BY <1>1, <1>5, <4>4
        <5>2. Accounts(saved[k], 1)
          BY <1>1, <5>1, MoreSlack
        <5>3. /\ Charged(saved[k])' = Charged(saved[k])
              /\ Remaining(saved[k])' = Remaining(saved[k])
              /\ Charged(saved[k]) \in Nat /\ Remaining(saved[k]) \in Nat
          BY <1>1, <1>2, <5>1, PolicyAssumption
          DEF Charged, Remaining, AttemptPair
        <5>4. Accounts(saved[k], 1)'
          BY <1>1, <3>4, <4>2, <5>1, <5>2, <5>3, PolicyAssumption
          DEF Accounts, History
        <5>5. QED
          BY <3>6, <5>4 DEF Accounts
      <4>5. QED
        BY <3>2, <3>4, <4>2, <4>3, <4>4 DEF IndInv, Ledger
    <3>9. CASE access'.lockout_until # 0
      <4>1. /\ Charged(PairOf(access))' = 0
            /\ Remaining(PairOf(access))' = LockoutSeconds
            /\ t.failed_attempts = MaxFailedAttempts - 1
        BY <1>1, <1>2, <3>2, <3>9, PolicyAssumption
        DEF Charged, Remaining, PairOf
      <4>2. hist'.arms = hist.arms + 1
        BY <3>4, <3>9
      <4>3. Accounts(PairOf(access), 0)'
        BY <1>1, <1>4, <3>4, <3>7, <4>1, <4>2, PolicyAssumption
        DEF Accounts, History
      <4>4. ASSUME NEW k \in Copies, eeprom
            PROVE  Accounts(saved[k], InFlight)'
        <5>1. saved[k] \in AttemptPair /\ Accounts(saved[k], 0)
          BY <1>1, <1>5, <4>4
        <5>2. /\ Charged(saved[k])' = Charged(saved[k])
              /\ Remaining(saved[k])' = Remaining(saved[k])
              /\ Charged(saved[k]) \in Nat /\ Remaining(saved[k]) \in Nat
          BY <1>1, <1>2, <5>1, PolicyAssumption
          DEF Charged, Remaining, AttemptPair
        <5>3. Accounts(saved[k], 1)'
          BY <1>1, <1>2, <3>4, <3>7, <1>4, <4>1, <4>2, <5>1, <5>2,
             PolicyAssumption
          DEF Accounts, History
        <5>4. QED
          BY <3>6, <5>3 DEF Accounts
      <4>5. (LockoutSeconds * (hist.arms - 1)
               <= hist.forward + LockoutSeconds * (hist.lapses + hist.resets))'
        BY <1>1, <1>4, <3>4, <3>7, <4>2, PolicyAssumption
        DEF Accounts, History
      <4>6. QED
        BY <3>2, <3>4, <4>3, <4>4, <4>5
    <3>10. QED
      BY <3>8, <3>9
  <2>3. CASE e.ac = AcRestoreAttempts(t, 0, 0) /\ e.result = "GRANTED"
    <3>1. hist' = NoHistory
      BY <2>3 DEF Submit
    <3>2. access' = [t EXCEPT !.failed_attempts = 0, !.lockout_until = 0]
      BY <1>2, <2>3 DEF AcRestoreAttempts
    <3>3. 0 \in 0..CounterMax /\ 0 \in Int
      BY PolicyAssumption
    <3>4. /\ access' \in Context
          /\ access'.failed_attempts = 0 /\ access'.lockout_until = 0
      BY <1>3, <3>2, <3>3 DEF Context
    <3>5. /\ PairOf(access') = [failed |-> 0, until |-> 0]
          /\ Coupled(PairOf(access'))
      BY <3>4, PolicyAssumption DEF PairOf, Coupled
    <3>6. /\ Charged(PairOf(access))' = 0 /\ Remaining(PairOf(access))' = 0
      BY <1>1, <1>2, <3>5 DEF Charged, Remaining
    <3>7. \A k \in Copies :
            Charged(saved[k])' \in Nat /\ Remaining(saved[k])' \in Nat
      BY <1>1, <1>2, PolicyAssumption DEF Charged, Remaining, AttemptPair
    <3>8. hist' \in History /\ Accounts(PairOf(access), 0)'
      BY <3>1, <3>6, PolicyAssumption DEF Accounts, NoHistory, History
    <3>9. \A k \in Copies : Accounts(saved[k], InFlight)'
      BY <1>6, <3>1, <3>7, PolicyAssumption DEF Accounts, NoHistory
    <3>10. QED
      BY <3>1, <3>4, <3>5, <3>8, <3>9, PolicyAssumption DEF NoHistory
  <2>4. QED
    BY <1>1, <2>1, <2>2, <2>3, EvaluateCases
<1>8. QED
  BY <1>1, <1>2, <1>7
  DEF IndInv, TypeOK, CounterAndLockoutAgree, Ledger

\* The fields the other actions work on.
LEMMA Facts ==
  ASSUME IndInv
  PROVE  /\ access \in Context /\ saved \in [Copies -> AttemptPair]
         /\ now \in Nat
         /\ hist \in History /\ eeprom \in BOOLEAN /\ pending \in BOOLEAN
         /\ jumps \in Nat
         /\ access.lockout_until \in Nat
         /\ Coupled(PairOf(access))
         /\ PairOf(access) \in AttemptPair /\ PairOf(access).until \in Nat
         /\ hist.wrong \in Nat /\ hist.arms \in Nat /\ hist.forward \in Nat
         /\ hist.lapses \in Nat /\ hist.resets \in Nat
         /\ InFlight \in {0, 1}
         /\ \A k \in Copies :
              /\ saved[k] \in AttemptPair /\ saved[k].until \in Nat
              /\ Coupled(saved[k])
              /\ Charged(saved[k]) \in Nat /\ Remaining(saved[k]) \in Nat
         /\ Charged(PairOf(access)) \in Nat /\ Remaining(PairOf(access)) \in Nat
         /\ Charged(PairOf(access)) <= MaxFailedAttempts
<1>1. /\ access \in Context /\ saved \in [Copies -> AttemptPair] /\ now \in Nat
      /\ hist \in History /\ eeprom \in BOOLEAN /\ pending \in BOOLEAN
      /\ jumps \in Nat
      /\ access.lockout_until \in Nat
      /\ Coupled(PairOf(access))
      /\ \A k \in Copies : saved[k].until \in Nat /\ Coupled(saved[k])
  BY DEF IndInv, TypeOK, Ledger, CounterAndLockoutAgree
<1>2. PairOf(access) \in AttemptPair /\ PairOf(access).until \in Nat
  BY <1>1 DEF PairOf, Context, AttemptPair
<1>3. /\ hist.wrong \in Nat /\ hist.arms \in Nat /\ hist.forward \in Nat
      /\ hist.lapses \in Nat /\ hist.resets \in Nat
  BY <1>1 DEF History
<1>4. /\ Charged(PairOf(access)) \in Nat /\ Remaining(PairOf(access)) \in Nat
  BY <1>1, <1>2, PolicyAssumption DEF Charged, Remaining, AttemptPair
<1>5. \A k \in Copies :
        /\ saved[k] \in AttemptPair
        /\ Charged(saved[k]) \in Nat /\ Remaining(saved[k]) \in Nat
  BY <1>1, PolicyAssumption DEF Charged, Remaining, AttemptPair
<1>6. Charged(PairOf(access)) <= MaxFailedAttempts
  BY <1>1, PolicyAssumption DEF Charged, Coupled
<1>7. QED
  BY <1>1, <1>2, <1>3, <1>4, <1>5, <1>6 DEF InFlight

\* The lift of a lockout starts a round, and neither pair owes anything then.
LEMMA GateTickInv ==
  ASSUME IndInv, GateTick
  PROVE  IndInv'
<1> DEFINE t == AcTick(access, now)
<1>1. /\ access' = t /\ pending = FALSE /\ pending' \in BOOLEAN
      /\ saved' = saved /\ eeprom' = eeprom /\ now' = now /\ jumps' = jumps
      /\ hist' = hist
  BY Facts DEF GateTick, AttemptsChanged
<1>2. /\ t \in Context /\ t.lockout_until \in Nat /\ Coupled(PairOf(t))
      /\ \/ t = access
         \/ /\ access.lockout_until # 0 /\ access.lockout_until <= now
            /\ PairOf(t) = [failed |-> 0, until |-> 0]
  BY Facts, TickFacts
<1> HIDE DEF t
<1>3. Accounts(PairOf(t), 0)
  <2>1. CASE t = access
    BY <2>1 DEF IndInv, Ledger
  <2>2. CASE access.lockout_until # 0 /\ access.lockout_until <= now
             /\ PairOf(t) = [failed |-> 0, until |-> 0]
    <3>1. /\ Charged(PairOf(access)) = 0 /\ Charged(PairOf(t)) = 0
          /\ Remaining(PairOf(access)) = 0 /\ Remaining(PairOf(t)) = 0
      BY Facts, <2>2 DEF Charged, Remaining, PairOf
    <3>2. QED
      BY <3>1 DEF IndInv, Ledger, Accounts
  <2>3. QED
    BY <1>2, <2>1, <2>2
<1>4. ASSUME NEW k \in Copies, eeprom
      PROVE  Accounts(saved[k], InFlight')
  <2>1. Accounts(saved[k], 0)
    BY <1>1, <1>4 DEF IndInv, Ledger, InFlight
  <2>2. InFlight' \in {0, 1}
    BY DEF InFlight
  <2>3. QED
    BY <2>1, <2>2, Facts, MoreSlack
<1>5. QED
  BY <1>1, <1>2, <1>3, <1>4, Facts
  DEF IndInv, TypeOK, CounterAndLockoutAgree, Ledger, Accounts, Charged, Remaining

\* A write that is acknowledged leaves one pair everywhere.
LEMMA SaveInv ==
  ASSUME IndInv, SaveAttempts
  PROVE  IndInv'
<1>1. /\ saved' = Both(PairOf(access)) /\ pending' = FALSE /\ access' = access
      /\ eeprom' = eeprom /\ now' = now /\ jumps' = jumps /\ hist' = hist
      /\ InFlight' = 0
  BY DEF SaveAttempts, InFlight
<1>2. /\ saved' \in [Copies -> AttemptPair]
      /\ \A k \in Copies : saved'[k] = PairOf(access)
  BY <1>1, Facts DEF Both
<1>3. QED
  BY <1>1, <1>2, Facts
  DEF IndInv, TypeOK, CounterAndLockoutAgree, Ledger, Accounts, Charged, Remaining

\* Every record a write may leave is one of these, and each is accounted for.
LEMMA OutcomeFacts ==
  ASSUME IndInv, NEW p \in Outcomes
  PROVE  /\ p \in AttemptPair /\ p.until \in Nat /\ Coupled(p)
         /\ Charged(p) \in Nat /\ Remaining(p) \in Nat
         /\ eeprom => Accounts(p, InFlight)
<1>1. /\ "latest" \in Copies /\ "durable" \in Copies
      /\ p \in {saved["latest"], PairOf(access), saved["durable"]}
  BY DEF Copies, Outcomes
<1>2. eeprom => Accounts(PairOf(access), InFlight)
  <2>1. Accounts(PairOf(access), 0)
    BY DEF IndInv, Ledger
  <2>2. QED
    BY <2>1, Facts, MoreSlack
<1>3. eeprom => \A k \in Copies : Accounts(saved[k], InFlight)
  BY DEF IndInv, Ledger
<1>4. CASE p = PairOf(access)
  BY <1>2, <1>4, Facts
<1>5. ASSUME NEW k \in Copies, p = saved[k]
      PROVE  /\ p \in AttemptPair /\ p.until \in Nat /\ Coupled(p)
             /\ Charged(p) \in Nat /\ Remaining(p) \in Nat
             /\ eeprom => Accounts(p, InFlight)
  BY <1>3, <1>5, Facts
<1>6. QED
  BY <1>1, <1>4, <1>5

\* A write that fails leaves a chip that is behind by the change, a lapse.
LEMMA SaveFailsInv ==
  ASSUME IndInv, SaveAttemptsFails
  PROVE  IndInv'
<1>1. /\ pending /\ pending' = FALSE /\ access' = access /\ eeprom
      /\ eeprom' = eeprom /\ now' = now /\ jumps' = jumps
      /\ InFlight = 1 /\ InFlight' = 0
  BY DEF SaveAttemptsFails, InFlight
<1>2. PICK p \in Outcomes : saved' = [saved EXCEPT !["latest"] = p]
  BY DEF SaveAttemptsFails
<1>3. /\ saved' \in [Copies -> AttemptPair]
      /\ \A k \in Copies : saved'[k] \in {p, saved[k]}
  BY <1>2, OutcomeFacts, Facts
<1>4. /\ hist.lapses + 1 \in Nat
      /\ hist' = [hist EXCEPT !.lapses = hist.lapses + 1]
  BY Facts DEF SaveAttemptsFails
<1>5. /\ hist' \in History /\ hist'.wrong = hist.wrong
      /\ hist'.arms = hist.arms /\ hist'.forward = hist.forward
      /\ hist'.lapses = hist.lapses + 1 /\ hist'.resets = hist.resets
  BY <1>4, Facts DEF History
<1>6. ASSUME NEW k \in Copies
      PROVE  /\ saved'[k].until \in Nat /\ Coupled(saved'[k])
             /\ Accounts(saved[k], InFlight)'
  <2>1. PICK q : q = saved'[k]
    OBVIOUS
  <2>2. /\ q.until \in Nat /\ Coupled(q)
        /\ Charged(q) \in Nat /\ Remaining(q) \in Nat
        /\ Accounts(q, 1)
    <3>1. CASE q = p
      BY <1>1, <3>1, OutcomeFacts
    <3>2. CASE q = saved[k]
      BY <1>1, <3>2, Facts DEF IndInv, Ledger
    <3>3. QED
      BY <1>3, <2>1, <3>1, <3>2
  <2>3. /\ Charged(saved[k])' = Charged(q)
        /\ Remaining(saved[k])' = Remaining(q)
    BY <1>1, <2>1 DEF Charged, Remaining
  <2>4. QED
    BY <1>1, <1>5, <2>1, <2>2, <2>3, Facts, PolicyAssumption DEF Accounts
<1>7. /\ Charged(PairOf(access))' = Charged(PairOf(access))
      /\ Remaining(PairOf(access))' = Remaining(PairOf(access))
  BY <1>1 DEF Charged, Remaining
<1>8. /\ Accounts(PairOf(access), 0)
      /\ LockoutSeconds * (hist.arms - 1)
           <= hist.forward + LockoutSeconds * (hist.lapses + hist.resets)
  BY DEF IndInv, Ledger
<1>9. Accounts(PairOf(access), 0)'
  BY <1>5, <1>7, <1>8, Facts, PolicyAssumption DEF Accounts
<1>10. (LockoutSeconds * (hist.arms - 1)
          <= hist.forward + LockoutSeconds * (hist.lapses + hist.resets))'
  BY <1>5, <1>8, Facts, PolicyAssumption
<1>11. QED
  BY <1>1, <1>3, <1>5, <1>6, <1>9, <1>10, Facts
  DEF IndInv, TypeOK, CounterAndLockoutAgree, Ledger

\* Without the EEPROM nothing is claimed of it but the coupling.
LEMMA SaveBlindInv ==
  ASSUME IndInv, NEW f \in 0..MaxFailedAttempts, NEW u \in 0..MaxNow,
         SaveAttemptsBlind([failed |-> f, until |-> u])
  PROVE  IndInv'
<1>1. PICK p : p = [failed |-> f, until |-> u]
  OBVIOUS
<1>2. p \in AttemptPair /\ p.until \in Nat
  BY <1>1, PolicyAssumption, BoundsAssumption DEF AttemptPair
<1>3. /\ ~eeprom /\ eeprom' = eeprom /\ access' = access /\ now' = now
      /\ jumps' = jumps /\ hist' = hist /\ pending' = FALSE /\ Coupled(p)
      /\ saved' = saved \/ saved' = Both(p)
  BY <1>1 DEF SaveAttemptsBlind
<1>4. /\ saved' \in [Copies -> AttemptPair]
      /\ \A k \in Copies : saved'[k].until \in Nat /\ Coupled(saved'[k])
  BY <1>2, <1>3, Facts DEF Both
<1>5. Accounts(PairOf(access), 0)'
  BY <1>3 DEF IndInv, Ledger, Accounts, Charged, Remaining
<1>6. QED
  BY <1>3, <1>4, <1>5, Facts
  DEF IndInv, TypeOK, CounterAndLockoutAgree, Ledger

\* What boot_persist restores is a context whose pair is the record p,
\* or the blank one when the EEPROM does not answer.
LEMMA RestoredFacts ==
  ASSUME IndInv, NEW rtc \in BOOLEAN, NEW chip \in BOOLEAN,
         NEW p \in AttemptPair, p.until \in Nat, Coupled(p)
  PROVE  LET r == RestoredContext(rtc, chip, p)
         IN  /\ r \in Context /\ r.lockout_until \in Nat
             /\ PairOf(r) = IF chip THEN p ELSE [failed |-> 0, until |-> 0]
             /\ Coupled(PairOf(r))
<1> DEFINE blank == [AcInit EXCEPT !.slots = access.slots, !.clock_trusted = rtc]
           r == RestoredContext(rtc, chip, p)
<1>1. 0 \in 0..CounterMax /\ 0 \in Int
  BY PolicyAssumption
<1>2. PICK b : b = blank
  OBVIOUS
<1>b. b = [slots |-> access.slots, clock_trusted |-> rtc,
           failed_attempts |-> 0, lockout_until |-> 0]
  BY <1>2 DEF AcInit
<1>3. blank \in Context
  BY <1>1, <1>2, <1>b, Facts DEF Context
<1>4. CASE chip
  <2>1. r = [blank EXCEPT !.failed_attempts = p.failed,
                          !.lockout_until = p.until]
    BY <1>4 DEF RestoredContext, AcRestoreAttempts
  <2>2. p.failed \in 0..CounterMax /\ p.until \in Int
        /\ p = [failed |-> p.failed, until |-> p.until]
    BY DEF AttemptPair
  <2>3. /\ r \in Context /\ r.failed_attempts = p.failed
        /\ r.lockout_until = p.until
    BY <1>2, <1>b, <1>3, <2>1, <2>2 DEF Context
  <2> HIDE DEF r
  <2>4. PairOf(r) = p
    BY <2>2, <2>3 DEF PairOf
  <2>5. QED
    BY <1>4, <2>3, <2>4, Facts DEF r
<1>5. CASE ~chip
  <2>1. r = b
    BY <1>2, <1>5 DEF RestoredContext
  <2> HIDE DEF r
  <2>2. r.failed_attempts = 0 /\ r.lockout_until = 0
    BY <1>b, <2>1
  <2>3. r \in Context
    BY <1>2, <1>3, <2>1
  <2>4. PairOf(r) = [failed |-> 0, until |-> 0]
    BY <2>2 DEF PairOf
  <2>5. Coupled(PairOf(r))
    BY <2>4, PolicyAssumption DEF Coupled
  <2>6. QED
    BY <1>5, <2>2, <2>3, <2>4, <2>5 DEF r
<1>6. QED
  BY <1>4, <1>5

\* A boot takes one of the outcomes of the chip, or starts from zero without one.
LEMMA BootInv ==
  ASSUME IndInv, NEW rtc \in BOOLEAN, NEW chip \in BOOLEAN,
         NEW p \in AttemptPair, p \in Outcomes, Boot(rtc, chip, p)
  PROVE  IndInv'
<1> DEFINE lapse == IF pending /\ eeprom /\ chip THEN 1 ELSE 0
           reset == IF eeprom /\ chip THEN 0 ELSE 1
<1>1. /\ access' = RestoredContext(rtc, chip, p) /\ eeprom' = chip
      /\ pending' = FALSE /\ saved' = Both(p) /\ now' = now /\ jumps' = jumps
      /\ InFlight' = 0
      /\ hist' = [hist EXCEPT !.lapses = hist.lapses + lapse,
                              !.resets = hist.resets + reset]
  BY DEF Boot, InFlight
<1>2. lapse \in {0, 1} /\ reset \in {0, 1}
      /\ hist.lapses + lapse \in Nat /\ hist.resets + reset \in Nat
  BY Facts
<1>3. /\ hist' \in History /\ hist'.wrong = hist.wrong
      /\ hist'.arms = hist.arms /\ hist'.forward = hist.forward
      /\ hist'.lapses = hist.lapses + lapse
      /\ hist'.resets = hist.resets + reset
  BY <1>1, <1>2, Facts DEF History
<1>p. /\ p.until \in Nat /\ Coupled(p)
      /\ Charged(p) \in Nat /\ Remaining(p) \in Nat
      /\ eeprom => Accounts(p, InFlight)
  BY OutcomeFacts
<1>4. /\ access' \in Context /\ access'.lockout_until \in Nat
      /\ PairOf(access') = IF chip THEN p ELSE [failed |-> 0, until |-> 0]
      /\ Coupled(PairOf(access'))
  BY <1>1, <1>p, RestoredFacts
<1>5. /\ saved' \in [Copies -> AttemptPair]
      /\ \A k \in Copies : saved'[k] = p
  BY <1>1 DEF Both
<1>6. Charged(PairOf(access))' \in Nat /\ Remaining(PairOf(access))' \in Nat
  <2>1. CASE chip
    BY <1>1, <1>4, <1>p, <2>1 DEF Charged, Remaining
  <2>2. CASE ~chip
    BY <1>1, <1>4, <2>2, Facts DEF Charged, Remaining
  <2>3. QED
    BY <2>1, <2>2
<1>7. /\ Accounts(PairOf(access), 0)
      /\ LockoutSeconds * (hist.arms - 1)
           <= hist.forward + LockoutSeconds * (hist.lapses + hist.resets)
  BY DEF IndInv, Ledger
<1>c. Charged(p)' = Charged(p) /\ Remaining(p)' = Remaining(p)
  BY <1>1 DEF Charged, Remaining
<1>8. /\ Accounts(PairOf(access), 0)'
      /\ Accounts(p, 0)'
      /\ (LockoutSeconds * (hist.arms - 1)
            <= hist.forward + LockoutSeconds * (hist.lapses + hist.resets))'
  <2>1. CASE eeprom /\ chip
    <3>1. lapse = InFlight /\ reset = 0
      BY <2>1 DEF InFlight
    <3>2. /\ Charged(PairOf(access))' = Charged(p)
          /\ Remaining(PairOf(access))' = Remaining(p)
      BY <1>1, <1>4, <2>1 DEF Charged, Remaining
    <3> HIDE DEF lapse, reset
    <3>3. Accounts(PairOf(access), 0)'
      BY <1>3, <1>p, <2>1, <3>1, <3>2, Facts, PolicyAssumption DEF Accounts
    <3>4. Accounts(p, 0)'
      BY <1>3, <1>p, <1>c, <2>1, <3>1, Facts, PolicyAssumption DEF Accounts
    <3>5. (LockoutSeconds * (hist.arms - 1)
             <= hist.forward + LockoutSeconds * (hist.lapses + hist.resets))'
      BY <1>2, <1>3, <1>7, <3>1, Facts, PolicyAssumption
    <3>6. QED
      BY <3>3, <3>4, <3>5
  <2>2. CASE ~(eeprom /\ chip)
    <3>1. lapse = 0 /\ reset = 1
      BY <2>2
    <3> HIDE DEF lapse, reset
    <3>2. Accounts(PairOf(access), 0)'
      BY <1>3, <1>6, <1>7, <3>1, Facts, PolicyAssumption DEF Accounts
    <3>3. Accounts(p, 0)'
      BY <1>3, <1>p, <1>c, <1>7, <3>1, Facts, PolicyAssumption DEF Accounts
    <3>4. (LockoutSeconds * (hist.arms - 1)
             <= hist.forward + LockoutSeconds * (hist.lapses + hist.resets))'
      BY <1>3, <1>7, <3>1, Facts, PolicyAssumption
    <3>5. QED
      BY <3>2, <3>3, <3>4
  <2>3. QED
    BY <2>1, <2>2
<1>9. \A k \in Copies : Accounts(saved[k], InFlight)'
  BY <1>1, <1>5, <1>8 DEF Accounts, Charged, Remaining
<1>10. QED
  BY <1>1, <1>3, <1>4, <1>5, <1>p, <1>8, <1>9, Facts
  DEF IndInv, TypeOK, CounterAndLockoutAgree, Ledger

\* Moving the clock: forward by at most what the history records, or back.
LEMMA ClockInv ==
  ASSUME IndInv, NEW t \in Nat, now' = t, jumps' \in Nat,
         UNCHANGED <<access, saved, eeprom, pending>>,
         hist' = [hist EXCEPT !.forward =
                    hist.forward + (IF t > now THEN t - now ELSE 0)]
  PROVE  IndInv'
<1> DEFINE step == IF t > now THEN t - now ELSE 0
<1>1. step \in Nat /\ t <= now + step /\ hist.forward + step \in Nat
  BY Facts
<1> HIDE DEF step
<1>2. hist' = [hist EXCEPT !.forward = hist.forward + step]
  BY DEF step
<1>3. /\ hist' \in History /\ hist'.wrong = hist.wrong
      /\ hist'.arms = hist.arms /\ hist'.forward = hist.forward + step
      /\ hist'.lapses = hist.lapses /\ hist'.resets = hist.resets
  BY <1>1, <1>2, Facts DEF History
<1>4. /\ \A k \in Copies : Charged(saved[k])' = Charged(saved[k])
      /\ Charged(PairOf(access))' = Charged(PairOf(access))
      /\ InFlight' = InFlight
  BY DEF Charged, InFlight
<1>5. \A k \in Copies :
        /\ Remaining(saved[k]) <= step + Remaining(saved[k])'
        /\ Remaining(saved[k])' \in Nat
  BY <1>1, Facts DEF Remaining
<1>6. /\ Remaining(PairOf(access)) <= step + Remaining(PairOf(access))'
      /\ Remaining(PairOf(access))' \in Nat
  <2>1. PairOf(access).until \in Nat /\ PairOf(access)' = PairOf(access)
    BY Facts DEF PairOf
  <2>2. QED
    BY <1>1, <2>1, Facts DEF Remaining
<1>7. /\ Accounts(PairOf(access), 0)
      /\ eeprom => \A k \in Copies : Accounts(saved[k], InFlight)
      /\ LockoutSeconds * (hist.arms - 1)
           <= hist.forward + LockoutSeconds * (hist.lapses + hist.resets)
  BY DEF IndInv, Ledger
<1>8. Accounts(PairOf(access), 0)'
  BY <1>1, <1>3, <1>4, <1>6, <1>7, Facts, PolicyAssumption DEF Accounts
<1>9. ASSUME NEW k \in Copies, eeprom
      PROVE  Accounts(saved[k], InFlight)'
  <2>1. /\ Accounts(saved[k], InFlight)
        /\ Charged(saved[k]) \in Nat /\ Remaining(saved[k]) \in Nat
        /\ Charged(saved[k])' = Charged(saved[k])
        /\ Remaining(saved[k]) <= step + Remaining(saved[k])'
        /\ Remaining(saved[k])' \in Nat
    BY <1>4, <1>5, <1>7, <1>9, Facts
  <2>2. QED
    BY <1>1, <1>3, <1>4, <2>1, Facts, PolicyAssumption DEF Accounts
<1>10. (LockoutSeconds * (hist.arms - 1)
          <= hist.forward + LockoutSeconds * (hist.lapses + hist.resets))'
  BY <1>1, <1>3, <1>7, Facts, PolicyAssumption
<1>11. QED
  BY <1>3, <1>8, <1>9, <1>10, Facts
  DEF IndInv, TypeOK, CounterAndLockoutAgree, Ledger

\* Trusting the clock changes no attempt.
LEMMA TrustInv ==
  ASSUME IndInv, TrustClock
  PROVE  IndInv'
<1>1. access' \in Context /\ PairOf(access') = PairOf(access)
      /\ access'.lockout_until = access.lockout_until
  BY Facts DEF TrustClock, Context, PairOf
<1>2. /\ saved' = saved /\ eeprom' = eeprom /\ now' = now /\ jumps' = jumps
      /\ hist' = hist /\ pending' = pending
  BY DEF TrustClock
<1>3. QED
  BY <1>1, <1>2, Facts
  DEF IndInv, TypeOK, CounterAndLockoutAgree, Ledger, Accounts, Charged,
      Remaining, InFlight

-----------------------------------------------------------------------------
\* IndInv is inductive: one step per action.
THEOREM Inductive == IndInv /\ [Next]_vars => IndInv'
<1> SUFFICES ASSUME IndInv, [Next]_vars PROVE IndInv'
  OBVIOUS
<1>1. ASSUME NEW h \in Guesses, Submit(h) PROVE IndInv'
  BY <1>1, SubmitInv
<1>2. CASE GateTick
  BY <1>2, GateTickInv
<1>3. CASE SaveAttempts
  BY <1>3, SaveInv
<1>4. CASE SaveAttemptsFails
  BY <1>4, SaveFailsInv
<1>b. ASSUME NEW f \in 0..MaxFailedAttempts, NEW u \in 0..MaxNow,
             SaveAttemptsBlind([failed |-> f, until |-> u])
      PROVE  IndInv'
  BY <1>b, SaveBlindInv
<1>5. ASSUME NEW rtc \in BOOLEAN, NEW chip \in BOOLEAN, NEW p \in Outcomes,
             Boot(rtc, chip, p)
      PROVE  IndInv'
  <2>1. p \in AttemptPair
    BY OutcomeFacts
  <2>2. QED
    BY <1>5, <2>1, BootInv
<1>6. CASE Advance
  <2>1. /\ now + 1 \in Nat /\ now' = now + 1 /\ jumps' \in Nat
        /\ UNCHANGED <<access, saved, eeprom, pending>>
        /\ (IF now + 1 > now THEN (now + 1) - now ELSE 0) = 1
        /\ hist' = [hist EXCEPT !.forward = hist.forward + 1]
    BY <1>6, Facts DEF Advance
  <2>2. QED
    BY <2>1, ClockInv
<1>7. ASSUME NEW t \in 0..MaxNow, SetClock(t) PROVE IndInv'
  <2>1. /\ t \in Nat /\ now' = t /\ jumps' \in Nat
        /\ UNCHANGED <<access, saved, eeprom, pending>>
        /\ hist' = [hist EXCEPT !.forward =
                      hist.forward + (IF t > now THEN t - now ELSE 0)]
    BY <1>7, Facts, BoundsAssumption DEF SetClock
  <2>2. QED
    BY <2>1, ClockInv
<1>8. CASE TrustClock
  BY <1>8, TrustInv
<1>9. CASE UNCHANGED vars
  BY <1>9, Facts
  DEF vars, IndInv, TypeOK, CounterAndLockoutAgree, Ledger, Accounts, Charged,
      Remaining, InFlight
<1>10. QED
  BY <1>1, <1>2, <1>3, <1>4, <1>b, <1>5, <1>6, <1>7, <1>8, <1>9
  DEF Next, HandleWrite

\* Every reachable state satisfies the invariant.
THEOREM Invariance == Spec => []IndInv
  BY InitInv, Inductive, PTL DEF Spec

\* The context of access_core, the saved pair and the history keep their
\* types: in particular the counter never leaves a uint8_t.
THEOREM TypeCorrect == Spec => []TypeOK
<1>1. IndInv => TypeOK
  BY DEF IndInv
<1>2. QED
  BY <1>1, Invariance, PTL

\* The failure counter is at the maximum exactly while a lockout is armed,
\* in RAM and on the chip, for every policy and however writes are lost.
THEOREM CounterAndLockoutAlwaysAgree == Spec => []CounterAndLockoutAgree
<1>1. IndInv => CounterAndLockoutAgree
  BY DEF IndInv
<1>2. QED
  BY <1>1, Invariance, PTL

\* The bound on wrong codes between two grants, and on how close together
\* lockouts can be armed, for every policy, table and pattern of failures.
THEOREM WrongCodesAlwaysBounded == Spec => []WrongCodesBound
<1>1. IndInv => WrongCodesBound
  <2>1. SUFFICES ASSUME IndInv PROVE WrongCodesBound
    OBVIOUS
  <2>2. Charged(PairOf(access)) <= MaxFailedAttempts - 1
    BY <2>1, Facts, PolicyAssumption
    DEF Charged, Coupled, PairOf, AttemptPair
  <2>3. QED
    BY <2>1, <2>2, Facts, PolicyAssumption
    DEF IndInv, Ledger, Accounts, WrongCodesBound
<1>2. QED
  BY <1>1, Invariance, PTL

\* A step that meets a lockout in force and on the chip leaves it alone.
LEMMA HoldStep ==
  ASSUME IndInv, [Next]_vars, access.lockout_until > now,
         saved = Both(PairOf(access)), hist'.resets = hist.resets
  PROVE  PairOf(access') = PairOf(access)
<1>1. ASSUME NEW h \in Guesses, Submit(h) PROVE PairOf(access') = PairOf(access)
  <2>1. AcTick(access, now) = access
    BY Facts DEF AcTick
  <2>2. AcEvaluate(access, h, now).ac = access
    BY <2>1, Facts, EvaluateCases
  <2>3. QED
    BY <1>1, <2>2 DEF Submit
<1>2. CASE GateTick
  BY <1>2, Facts DEF GateTick, AcTick
<1>3. CASE HandleWrite
  BY <1>3 DEF HandleWrite, SaveAttempts, SaveAttemptsFails, SaveAttemptsBlind
<1>4. ASSUME NEW rtc \in BOOLEAN, NEW chip \in BOOLEAN, NEW p \in Outcomes,
             Boot(rtc, chip, p)
      PROVE  PairOf(access') = PairOf(access)
  <2>1. p = PairOf(access)
    BY DEF Outcomes, Both, Copies
  <2>2. chip
    <3>1. SUFFICES ASSUME ~chip PROVE FALSE
      OBVIOUS
    <3>2. hist' = [hist EXCEPT
                     !.lapses = hist.lapses
                                + (IF pending /\ eeprom /\ chip THEN 1 ELSE 0),
                     !.resets = hist.resets
                                + (IF eeprom /\ chip THEN 0 ELSE 1)]
      BY <1>4 DEF Boot
    <3>3. hist'.resets = hist.resets + (IF eeprom /\ chip THEN 0 ELSE 1)
      BY <3>2, Facts DEF History
    <3>4. QED
      BY <3>1, <3>3, Facts
  <2>3. p \in AttemptPair /\ p.until \in Nat /\ Coupled(p)
    BY OutcomeFacts
  <2>4. PairOf(RestoredContext(rtc, chip, p)) = p
    BY <2>2, <2>3, RestoredFacts
  <2>5. QED
    BY <1>4, <2>1, <2>4 DEF Boot
<1>5. CASE Advance
  BY <1>5 DEF Advance
<1>6. ASSUME NEW t \in 0..MaxNow, SetClock(t)
      PROVE  PairOf(access') = PairOf(access)
  BY <1>6 DEF SetClock
<1>7. CASE TrustClock
  BY <1>7, Facts DEF TrustClock, PairOf, Context
<1>8. CASE UNCHANGED vars
  BY <1>8 DEF vars
<1>9. QED
  BY <1>1, <1>2, <1>3, <1>4, <1>5, <1>6, <1>7, <1>8 DEF Next

\* A lockout that is in force and on the chip ends by the clock only, for
\* every policy and table: no code, no tick, no power cut with a working
\* EEPROM ends it.
THEOREM LockoutAlwaysHolds == Spec => LockoutHolds
<1>1. IndInv /\ [Next]_vars
        => [ access.lockout_until > now /\ saved = Both(PairOf(access))
             /\ hist'.resets = hist.resets
             => PairOf(access') = PairOf(access) ]_vars
  BY HoldStep
<1>2. QED
  BY <1>1, Invariance, PTL DEF Spec, LockoutHolds

-----------------------------------------------------------------------------
\* Every step of the gate is a step of the store the attempts are kept in, or
\* changes nothing in it.
LEMMA StepTrusts == IndInv /\ [Next]_vars => [Store!Next]_(Store!vars)
<1> SUFFICES ASSUME IndInv, [Next]_vars PROVE [Store!Next]_(Store!vars)
  OBVIOUS
<1>1. /\ saved \in [Copies -> AttemptPair] /\ "latest" \in Copies
      /\ "durable" \in Copies /\ "latest" # "durable"
  BY Facts DEF Copies
<1>2. PairOf(access') \in AttemptPair
  <2>1. access' \in Context
    BY Inductive DEF IndInv, TypeOK
  <2> QED
    BY <2>1 DEF Context, PairOf, AttemptPair
<1>3. ASSUME NEW h \in Guesses, Submit(h) PROVE Store!Change
  BY <1>2, <1>3 DEF Submit, Store!Change
<1>4. ASSUME GateTick PROVE Store!Change
  BY <1>2, <1>4 DEF GateTick, Store!Change
<1>5. ASSUME NEW p \in AttemptPair, saved' = Both(p)
      PROVE  saved'["latest"] = p /\ saved'["durable"] = p
  BY <1>1, <1>5 DEF Both
<1>6. ASSUME SaveAttempts PROVE Store!Write
  BY <1>5, <1>6, Facts DEF SaveAttempts, Store!Write
<1>7. ASSUME SaveAttemptsFails PROVE Store!WriteFails
  <2>1. PICK p \in Outcomes : saved' = [saved EXCEPT !["latest"] = p]
    BY <1>7 DEF SaveAttemptsFails
  <2>2. saved'["latest"] = p /\ saved'["durable"] = saved["durable"]
    BY <1>1, <2>1
  <2> QED
    BY <1>7, <2>2 DEF SaveAttemptsFails, Outcomes, Store!WriteFails
<1>8. ASSUME NEW f \in 0..MaxFailedAttempts, NEW u \in 0..MaxNow,
             SaveAttemptsBlind([failed |-> f, until |-> u])
      PROVE  Store!WriteBlind \/ UNCHANGED Store!vars
  <2> DEFINE p == [failed |-> f, until |-> u]
  <2>1. p \in AttemptPair
    BY PolicyAssumption, BoundsAssumption DEF AttemptPair
  <2>2. CASE saved' = saved
    BY <1>8, <2>2 DEF SaveAttemptsBlind, Store!vars
  <2>3. CASE saved' = Both(p)
    <3>1. saved'["latest"] = p /\ saved'["durable"] = p
      BY <1>5, <2>1, <2>3
    <3> QED
      BY <1>8, <2>1, <3>1 DEF SaveAttemptsBlind, Store!WriteBlind
  <2> QED
    BY <1>8, <2>2, <2>3 DEF SaveAttemptsBlind
<1>9. ASSUME NEW rtc \in BOOLEAN, NEW chip \in BOOLEAN, NEW p \in Outcomes,
             Boot(rtc, chip, p)
      PROVE  Store!Restart
  <2>1. p \in AttemptPair /\ p.until \in Nat /\ Coupled(p)
    BY OutcomeFacts
  <2>2. PairOf(access') = IF chip THEN p ELSE PairOf(AcInit)
    <3>1. PairOf(access') = IF chip THEN p ELSE [failed |-> 0, until |-> 0]
      BY <1>9, <2>1, RestoredFacts DEF Boot
    <3> QED
      BY <3>1 DEF AcInit, PairOf
  <2>3. saved'["latest"] = p /\ saved'["durable"] = p /\ eeprom' = chip
    BY <1>5, <1>9, <2>1 DEF Boot
  <2> QED
    BY <1>9, <2>1, <2>2, <2>3 DEF Outcomes, Store!Restart
<1>10. ASSUME UNCHANGED <<access, saved, eeprom>> PROVE UNCHANGED Store!vars
  BY <1>10 DEF Store!vars
<1>11. ASSUME Advance \/ (\E t \in 0..MaxNow : SetClock(t)) \/ UNCHANGED vars
       PROVE  UNCHANGED Store!vars
  BY <1>10, <1>11 DEF Advance, SetClock, vars
<1>12. ASSUME TrustClock PROVE UNCHANGED Store!vars
  <2>1. PairOf(access') = PairOf(access)
    BY <1>12, Facts DEF TrustClock, Context, PairOf
  <2> QED
    BY <1>12, <2>1 DEF TrustClock, Store!vars
<1> QED
  BY <1>3, <1>4, <1>6, <1>7, <1>8, <1>9, <1>11, <1>12
     DEF Next, HandleWrite, Store!Next

\* The model takes nothing for granted of the EEPROM but what AttemptStore
\* states, and PersistRing keeps (boot_persist, persist_attempts): what is proved
\* of the counter above holds on top of the ring.
THEOREM OnlyTheStoreIsTrusted == Spec => TrustsStoreOnly
<1>1. Init => Store!Init
  <2> SUFFICES ASSUME Init PROVE Store!Init
    OBVIOUS
  <2>1. PairOf(access) = PairOf(AcInit)
    BY DEF Init, PairOf, AcInit
  <2> QED
    BY <2>1 DEF Init, Both, Copies, Store!Init
<1>2. IndInv /\ [Next]_vars => [Store!Next]_(Store!vars)
  BY StepTrusts
<1> QED
  BY <1>1, <1>2, Invariance, PTL DEF Spec, TrustsStoreOnly, Store!Spec
=============================================================================
