---------------------------- MODULE PortalProofs ----------------------------
(***************************************************************************)
(* Proofs about the two sides of the configuration portal, for every value *)
(* of the constants that their assumptions admit: who may use a session of *)
(* it, and what its requests do to the radio.                              *)
(*                                                                         *)
(* Provisioning: IndInv is an inductive invariant.  Two tasks share the    *)
(* state without a lock, so it says what each may find of the other's in   *)
(* every place it can be: a handler in progress belongs to a session that  *)
(* is open or that is being stopped, and the cookie, the failures and the  *)
(* request to finish to that one.                                          *)
(*                                                                         *)
(* NetLink: NetInv is one.  It says what the server's task has changed of  *)
(* what is wanted and still owes back at each of its places, and what the  *)
(* flag will say once the driver's queue is handled.                       *)
(***************************************************************************)
EXTENDS Provisioning, NetLink, OperatorProofs

-----------------------------------------------------------------------------
(* Provisioning *)

\* A handler in progress began in an open session, and a session that is over
\* while it runs is waited for; an idle server has nothing in hand.
HandlersAreAwaited ==
  /\ http.at = "idle" => http = Idle
  /\ http.at # "idle" => ap /\ (Open \/ loop = "stopping")
  /\ http.at \in {"login", "reply"} => http.client \in Clients
  /\ Open => loop # "stopping"

\* The failures that count towards the end of a session stay below the limit.
FailuresCount ==
  http.at = "login" \/ (ap /\ loop # "stopping")
    => prov.login_failures < MaxLoginFailures

\* The session's clock: its age is what prov_tick computes from the readings.
AgeIsElapsed ==
  Open => /\ hist.age = (now - prov.opened_ms) % Wrap
          /\ ticked => hist.age < SessionMs

\* The button's: how long it has been down is what prov_button computes, until
\* it has been down long enough; a press that opened a session is consumed.
PressIsElapsed ==
  /\ prov.button_down /\ hist.held < HoldMs =>
       hist.held = (now - prov.button_down_ms) % Wrap
  /\ hist.spent => prov.button_down /\ prov.button_consumed

\* A cookie that would be served is its owner's, who logged in to this session;
\* a login between its two writes is about to hand out one.
CookieIsEarned ==
  /\ prov.authenticated /\ sid # NoClient /\ http.at # "reply" /\ loop # "stopping"
       => Open /\ sid \in hist.proved
  /\ http.at = "reply" => http.client \in hist.proved

\* Nobody but an admin of this session has asked to finish it.
FinishIsAsked == finish \/ http.at = "finish" => hist.asked

IndInv ==
  /\ TypeOK /\ HandlersAreAwaited /\ FailuresCount /\ AgeIsElapsed /\ PressIsElapsed
  /\ CookieIsEarned /\ FinishIsAsked

-----------------------------------------------------------------------------
(* The operations of prov_logic *)

\* What the constants and the initial records are.
LEMMA Numbers ==
  /\ Wrap \in Nat \ {0} /\ HoldMs \in Nat \ {0} /\ SessionMs \in Nat \ {0}
  /\ VerifyMs \in Nat \ {0} /\ MaxLoginFailures \in Nat \ {0}
  /\ HoldMs < Wrap /\ SessionMs < Wrap
  /\ 0 \in Reading /\ 0 \in 0..SessionMs /\ 0 \in 0..HoldMs /\ 0 \in 0..VerifyMs
  /\ VerifyMs \in 0..VerifyMs /\ 0 \in 0..MaxLoginFailures
BY ProvAssumption, WrapAssumption DEF Reading

\* The idle handler and the fresh history are of their types.
LEMMA StartFacts ==
  /\ ProvInit \in Ctx /\ Idle \in Handler /\ NoHistory \in History
  /\ ProvInit.state = "CLOSED" /\ ~ProvInit.button_down /\ ~ProvInit.authenticated
  /\ ProvInit.login_failures = 0
  /\ Idle.at = "idle" /\ Idle.left = 0
  /\ ~NoHistory.spent
BY Numbers DEF ProvInit, Ctx, Idle, Handler, NoHistory, History

\* A session that is closed has no admin and no failures; the button is as it was.
LEMMA CloseFacts ==
  ASSUME NEW p \in Ctx
  PROVE  LET q == CloseSession(p)
         IN  /\ q \in Ctx /\ q.state = "CLOSED"
             /\ q.button_down = p.button_down /\ q.button_consumed = p.button_consumed
             /\ q.button_down_ms = p.button_down_ms
             /\ IF p.state = "OPEN" THEN ~q.authenticated /\ q.login_failures = 0
                ELSE q = p
BY Numbers DEF CloseSession, Ctx

\* prov_button: a press is noted when it begins and forgotten when it ends; only a
\* hold that completes touches the session.
LEMMA ButtonFacts ==
  ASSUME NEW p \in Ctx, NEW down \in BOOLEAN, now \in Reading
  PROVE  LET q == ProvButton(p, down)
         IN  /\ q \in Ctx
             /\ q.authenticated = p.authenticated /\ q.login_failures = p.login_failures
             /\ q.button_down = down
             /\ q.button_down_ms = IF down /\ ~p.button_down THEN now
                                   ELSE p.button_down_ms
             /\ IF HoldCompletes(p, down)
                THEN q.state = "OPEN" /\ q.opened_ms = now /\ q.button_consumed
                ELSE /\ q.state = p.state /\ q.opened_ms = p.opened_ms
                     /\ q.button_consumed = (down /\ p.button_consumed)
<1> DEFINE q == ProvButton(p, down)
<1>1. CASE ~down
  <2>1. ~HoldCompletes(p, down)
    BY <1>1 DEF HoldCompletes
  <2>2. q = [p EXCEPT !.button_down = FALSE, !.button_consumed = FALSE]
    BY <1>1, <2>1 DEF ProvButton
  <2> QED
    BY <1>1, <2>1, <2>2 DEF Ctx
<1>2. CASE down /\ ~p.button_down
  <2>1. q = [p EXCEPT !.button_down = TRUE, !.button_down_ms = now]
    BY <1>2 DEF ProvButton, HoldCompletes
  <2>2. ~HoldCompletes(p, down)
    BY <1>2 DEF HoldCompletes
  <2> QED
    BY <1>2, <2>1, <2>2 DEF Ctx
<1>3. CASE HoldCompletes(p, down)
  <2>1. down /\ p.button_down
    BY <1>3 DEF HoldCompletes
  <2>2. q = [p EXCEPT !.button_consumed = TRUE, !.state = "OPEN", !.opened_ms = now]
    BY <1>3, <2>1 DEF ProvButton
  <2> QED
    BY <1>3, <2>1, <2>2 DEF Ctx
<1>4. CASE down /\ p.button_down /\ ~HoldCompletes(p, down)
  <2>1. q = p
    BY <1>4 DEF ProvButton
  <2> QED
    BY <1>4, <2>1 DEF Ctx
<1> QED
  BY <1>1, <1>2, <1>3, <1>4

\* What the history learns from a scan is about the button only.
LEMMA ScanFacts ==
  ASSUME hist \in History, prov \in Ctx, NEW down \in BOOLEAN
  PROVE  /\ Scanned(down) \in History
         /\ Scanned(down).age = hist.age /\ Scanned(down).proved = hist.proved
         /\ Scanned(down).asked = hist.asked
         /\ Scanned(down).held = IF down /\ prov.button_down THEN hist.held ELSE 0
         /\ Scanned(down).spent = (down /\ hist.spent)
BY Numbers DEF Scanned, History, Ctx

\* The four outcomes of wifi_prov_tick.
LEMMA TickCases ==
  ASSUME Tick
  PROVE  /\ loop = "run" /\ ticked' = TRUE /\ now' = now /\ ap' = ap /\ sid' = sid
         /\ dev' = dev /\ http' = http /\ finish' = FALSE
         /\ \/ TickFinishes
            \/ \E down \in BOOLEAN : TickOpens(down) \/ TickCloses(down) \/ TickIdles(down)
BY DEF Tick, TickFinishes, TickOpens, TickCloses, TickIdles, FinishServed, StartStopping

-----------------------------------------------------------------------------
(* The type of the state *)

\* wifi_prov_tick, and the start and the stop of the portal.
LEMMA LoopType ==
  ASSUME TypeOK, LoopStep
  PROVE  TypeOK'
<1>1. prov \in Ctx /\ hist \in History /\ now \in Reading
  BY DEF TypeOK
<1>2. CASE Tick
  <2>1. CASE TickFinishes
    BY <1>1, <1>2, <2>1, TickCases, CloseFacts DEF TickFinishes, StartStopping, TypeOK
  <2>2. ASSUME NEW down \in BOOLEAN, TickOpens(down) PROVE TypeOK'
    <3>1. prov' \in Ctx
      BY <1>1, <2>2, ButtonFacts DEF TickOpens
    <3>2. hist' \in History
      BY <1>1, <2>2, ScanFacts, Numbers DEF TickOpens, History
    <3> QED
      BY <1>2, <2>2, <3>1, <3>2, TickCases DEF TickOpens, TypeOK
  <2>3. ASSUME NEW down \in BOOLEAN, TickCloses(down) PROVE TypeOK'
    <3>1. prov' \in Ctx
      BY <1>1, <2>3, ButtonFacts, CloseFacts DEF TickCloses
    <3> QED
      BY <1>1, <1>2, <2>3, <3>1, ScanFacts, TickCases DEF TickCloses, StartStopping, TypeOK
  <2>4. ASSUME NEW down \in BOOLEAN, TickIdles(down) PROVE TypeOK'
    BY <1>1, <1>2, <2>4, ScanFacts, ButtonFacts, TickCases DEF TickIdles, TypeOK
  <2> QED
    BY <1>2, <2>1, <2>2, <2>3, <2>4, TickCases
<1>3. CASE OpenPortal
  <2> DEFINE fresh == [prov EXCEPT !.authenticated = FALSE, !.login_failures = 0]
  <2>1. fresh \in Ctx
    BY <1>1, Numbers DEF Ctx
  <2>2. CloseSession(fresh) \in Ctx
    BY <2>1, CloseFacts
  <2> QED
    BY <1>3, <2>1, <2>2 DEF OpenPortal, TypeOK
<1>4. CASE PortalStopped
  BY <1>4 DEF PortalStopped, TypeOK
<1> QED
  BY <1>2, <1>3, <1>4 DEF LoopStep

\* The handlers; a failed login stays within the limit.
LEMMA HandlerType ==
  ASSUME TypeOK, HandlersAreAwaited, FailuresCount, HandlerStep
  PROVE  TypeOK'
<1>1. prov \in Ctx /\ hist \in History /\ http \in Handler
  BY DEF TypeOK
<1>2. CASE LoginSucceeds
  <2>1. prov' \in Ctx
    BY <1>1, <1>2, Numbers DEF LoginSucceeds, Ctx
  <2>2. http' \in Handler
    BY <1>1, <1>2 DEF LoginSucceeds, Handler
  <2>3. hist' \in History
    BY <1>1, <1>2 DEF LoginSucceeds, HandlersAreAwaited, History
  <2> QED
    BY <1>2, <2>1, <2>2, <2>3 DEF LoginSucceeds, TypeOK
<1>3. CASE LoginFails
  <2> DEFINE n == [prov EXCEPT !.login_failures = @ + 1]
  <2>1. prov.login_failures + 1 \in 0..MaxLoginFailures
    BY <1>1, <1>3, Numbers DEF LoginFails, FailuresCount, Ctx
  <2>2. n \in Ctx
    BY <1>1, <2>1 DEF Ctx
  <2>3. CloseSession(n) \in Ctx
    BY <2>2, CloseFacts
  <2> QED
    BY <1>3, <2>2, <2>3, StartFacts DEF LoginFails, TypeOK
<1>4. CASE LoginReply
  BY <1>1, <1>4, StartFacts DEF LoginReply, TypeOK, Handler
<1>5. CASE FinishRequested
  BY <1>5, StartFacts DEF FinishRequested, TypeOK
<1>6. CASE WifiPostDone
  BY <1>6, StartFacts DEF WifiPostDone, TypeOK
<1> QED
  BY <1>2, <1>3, <1>4, <1>5, <1>6 DEF HandlerStep

\* The requests, the console and the time.
LEMMA OtherType ==
  ASSUME TypeOK,
         \/ \E c \in Clients, ok \in BOOLEAN : LoginPost(c, ok)
         \/ \E c \in Clients : FinishGet(c) \/ WifiPost(c)
         \/ LogoutGet \/ DevCodeAdded \/ Elapse
  PROVE  TypeOK'
<1>1. prov \in Ctx /\ hist \in History /\ http \in Handler /\ now \in Reading
  BY DEF TypeOK
<1>2. ASSUME NEW c \in Clients, NEW ok \in BOOLEAN, LoginPost(c, ok) PROVE TypeOK'
  <2>1. http' \in Handler
    BY <1>2, StartFacts DEF LoginPost, Handler
  <2> QED
    BY <1>2, <2>1 DEF LoginPost, TypeOK
<1>3. ASSUME NEW c \in Clients, FinishGet(c) PROVE TypeOK'
  <2>1. http' \in Handler
    BY <1>3, StartFacts DEF FinishGet, Handler
  <2>2. hist' \in History
    BY <1>1, <1>3 DEF FinishGet, History
  <2> QED
    BY <1>3, <2>1, <2>2 DEF FinishGet, TypeOK
<1>4. ASSUME NEW c \in Clients, WifiPost(c) PROVE TypeOK'
  <2>1. http' \in Handler
    BY <1>4, StartFacts, Numbers DEF WifiPost, Handler
  <2> QED
    BY <1>4, <2>1 DEF WifiPost, TypeOK
<1>5. CASE LogoutGet
  <2>1. prov' \in Ctx
    BY <1>1, <1>5 DEF LogoutGet, Open, Ctx
  <2> QED
    BY <1>5, <2>1 DEF LogoutGet, TypeOK
<1>6. CASE DevCodeAdded
  BY <1>6 DEF DevCodeAdded, TypeOK
<1>7. CASE Elapse
  <2>1. now' \in Reading
    <3>1. now + 1 \in Int
      BY <1>1, Numbers DEF Reading
    <3> QED
      BY <1>7, <3>1, ModInRange DEF Elapse
  <2>2. http' \in Handler
    <3>1. (IF http.left > 0 THEN http.left - 1 ELSE 0) \in 0..VerifyMs
      BY <1>1, Numbers DEF Handler
    <3> QED
      BY <1>1, <1>7, <3>1 DEF Elapse, Handler
  <2>3. hist' \in History
    <3>1. /\ (IF Open /\ hist.age < SessionMs THEN hist.age + 1 ELSE hist.age) \in 0..SessionMs
          /\ (IF prov.button_down /\ hist.held < HoldMs
              THEN hist.held + 1 ELSE hist.held) \in 0..HoldMs
      BY <1>1, Numbers DEF History
    <3> QED
      BY <1>1, <1>7, <3>1 DEF Elapse, History
  <2> QED
    BY <1>7, <2>1, <2>2, <2>3 DEF Elapse, TypeOK
<1> QED
  BY <1>2, <1>3, <1>4, <1>5, <1>6, <1>7

-----------------------------------------------------------------------------
(* The invariant *)

\* What the actions that neither tick nor let time pass leave alone.
LEMMA ButtonKept ==
  ASSUME TypeOK, Next, ~Tick, ~Elapse
  PROVE  /\ prov'.button_down = prov.button_down
         /\ prov'.button_consumed = prov.button_consumed
         /\ prov'.button_down_ms = prov.button_down_ms
         /\ hist'.held = hist.held /\ hist'.spent = hist.spent
         /\ now' = now
<1>1. prov \in Ctx /\ hist \in History
  BY DEF TypeOK
<1>2. CASE OpenPortal
  <2> DEFINE fresh == [prov EXCEPT !.authenticated = FALSE, !.login_failures = 0]
  <2>1. /\ fresh \in Ctx
        /\ fresh.button_down = prov.button_down
        /\ fresh.button_consumed = prov.button_consumed
        /\ fresh.button_down_ms = prov.button_down_ms
    BY <1>1, Numbers DEF Ctx
  <2>2. /\ prov' = fresh \/ prov' = CloseSession(fresh)
        /\ hist' = hist /\ now' = now
    BY <1>2 DEF OpenPortal
  <2> HIDE DEF fresh
  <2> QED
    BY <2>1, <2>2, CloseFacts
<1>3. CASE PortalStopped
  BY <1>3 DEF PortalStopped
<1>4. CASE LoginSucceeds
  BY <1>1, <1>4 DEF LoginSucceeds, Ctx, History
<1>5. CASE LoginFails
  BY <1>1, <1>5 DEF LoginFails, CloseSession, Ctx
<1>6. CASE LoginReply \/ FinishRequested \/ WifiPostDone
  BY <1>6 DEF LoginReply, FinishRequested, WifiPostDone
<1>7. CASE LogoutGet
  BY <1>1, <1>7 DEF LogoutGet, Ctx
<1>8. ASSUME NEW c \in Clients, NEW ok \in BOOLEAN,
             LoginPost(c, ok) \/ WifiPost(c) \/ FinishGet(c) \/ DevCodeAdded
      PROVE  /\ prov' = prov /\ hist'.held = hist.held /\ hist'.spent = hist.spent
             /\ now' = now
  BY <1>1, <1>8 DEF LoginPost, WifiPost, FinishGet, DevCodeAdded, History
<1>9. CASE DevCodeAdded
  BY <1>9 DEF DevCodeAdded
<1> QED
  BY <1>2, <1>3, <1>4, <1>5, <1>6, <1>7, <1>8, <1>9 DEF Next, LoopStep, HandlerStep

\* The button's readings stay in step with the time it has been down.
LEMMA PressStep ==
  ASSUME TypeOK, PressIsElapsed, [Next]_vars
  PROVE  PressIsElapsed'
<1>1. prov \in Ctx /\ hist \in History /\ now \in Reading
  BY DEF TypeOK
<1>2. CASE Tick
  <2>1. CASE TickFinishes
    BY <1>1, <1>2, <2>1, TickCases, CloseFacts DEF TickFinishes, PressIsElapsed
  <2>2. ASSUME NEW down \in BOOLEAN, TickOpens(down) \/ TickCloses(down) \/ TickIdles(down)
        PROVE  PressIsElapsed'
    <3> DEFINE q == ProvButton(prov, down)
    <3>1. /\ q \in Ctx /\ q.button_down = down
          /\ q.button_down_ms = IF down /\ ~prov.button_down THEN now
                                ELSE prov.button_down_ms
          /\ IF HoldCompletes(prov, down) THEN q.button_consumed
             ELSE q.button_consumed = (down /\ prov.button_consumed)
      BY <1>1, ButtonFacts
    <3>2. HoldCompletes(prov, down) => down
      BY DEF HoldCompletes
    <3>3. /\ prov'.button_down = q.button_down
          /\ prov'.button_consumed = q.button_consumed
          /\ prov'.button_down_ms = q.button_down_ms
      <4> HIDE DEF q
      <4>1. prov' = q \/ prov' = CloseSession(q)
        BY <2>2 DEF TickOpens, TickCloses, TickIdles, q
      <4> QED
        BY <3>1, <4>1, CloseFacts
    <3>4. hist'.held = IF down /\ prov.button_down THEN hist.held ELSE 0
      BY <1>1, <2>2, ScanFacts DEF TickOpens, TickCloses, TickIdles, History
    <3>5. hist'.spent => HoldCompletes(prov, down) \/ (down /\ hist.spent)
      BY <1>1, <2>2, ScanFacts DEF TickOpens, TickCloses, TickIdles, History
    <3>6. (now - now) % Wrap = 0 /\ now' = now
      BY <1>1, <1>2, Numbers, TickCases DEF Reading
    <3> HIDE DEF q
    <3>7. prov'.button_down /\ hist'.held < HoldMs =>
            hist'.held = (now' - prov'.button_down_ms) % Wrap
      BY <3>1, <3>3, <3>4, <3>6 DEF PressIsElapsed
    <3>8. hist'.spent => prov'.button_down /\ prov'.button_consumed
      BY <3>1, <3>2, <3>3, <3>5 DEF PressIsElapsed
    <3> QED
      BY <3>7, <3>8 DEF PressIsElapsed
  <2> QED
    BY <1>2, <2>1, <2>2, TickCases
<1>3. CASE Elapse
  <2>1. /\ prov' = prov /\ now' = (now + 1) % Wrap /\ hist'.spent = hist.spent
        /\ hist'.held = IF prov.button_down /\ hist.held < HoldMs
                        THEN hist.held + 1 ELSE hist.held
    BY <1>1, <1>3 DEF Elapse, History
  <2>2. ASSUME prov.button_down, hist'.held < HoldMs
        PROVE  hist'.held = (now' - prov.button_down_ms) % Wrap
    <3>1. /\ hist.held \in Nat /\ hist.held < HoldMs /\ hist'.held = hist.held + 1
          /\ prov.button_down_ms \in Reading
      BY <1>1, <2>1, <2>2, Numbers DEF History, Ctx
    <3>2. /\ hist.held = (now - prov.button_down_ms) % Wrap
          /\ ((now - prov.button_down_ms) % Wrap) + 1 < Wrap
      BY <2>1, <2>2, <3>1, Numbers DEF PressIsElapsed
    <3>3. (((now + 1) % Wrap) - prov.button_down_ms) % Wrap
            = ((now - prov.button_down_ms) % Wrap) + 1
      BY <1>1, <3>1, <3>2, OneUnitLater
    <3> QED
      BY <2>1, <3>1, <3>2, <3>3
  <2> QED
    BY <2>1, <2>2 DEF PressIsElapsed
<1>4. CASE UNCHANGED vars
  BY <1>4 DEF PressIsElapsed, vars
<1> QED
  BY <1>2, <1>3, <1>4, ButtonKept DEF PressIsElapsed

\* What the actions that neither tick nor let time pass do to the session: they
\* open none, and start none anew.
LEMMA SessionKept ==
  ASSUME TypeOK, Next, ~Tick, ~Elapse, Open'
  PROVE  /\ Open /\ prov'.opened_ms = prov.opened_ms /\ hist'.age = hist.age
         /\ now' = now /\ ticked' = ticked
<1>1. prov \in Ctx /\ hist \in History
  BY DEF TypeOK
<1>2. CASE OpenPortal
  <2> DEFINE fresh == [prov EXCEPT !.authenticated = FALSE, !.login_failures = 0]
  <2>1. fresh \in Ctx /\ fresh.state = prov.state /\ fresh.opened_ms = prov.opened_ms
    BY <1>1, Numbers DEF Ctx
  <2>2. /\ prov' = fresh \/ prov' = CloseSession(fresh)
        /\ hist' = hist /\ now' = now /\ ticked' = ticked
    BY <1>2 DEF OpenPortal
  <2> HIDE DEF fresh
  <2> QED
    BY <2>1, <2>2, CloseFacts DEF Open
<1>3. CASE PortalStopped
  BY <1>3 DEF PortalStopped, Open
<1>4. CASE LoginSucceeds
  BY <1>1, <1>4 DEF LoginSucceeds, Ctx, History, Open
<1>5. CASE LoginFails
  <2> DEFINE n == [prov EXCEPT !.login_failures = @ + 1]
  <2>1. n.state = prov.state /\ n.opened_ms = prov.opened_ms
    BY <1>1 DEF Ctx
  <2>2. prov' = n \/ prov' = CloseSession(n)
    BY <1>5 DEF LoginFails
  <2>3. prov' = n
    BY <1>1, <2>2 DEF CloseSession, Open, Ctx
  <2> QED
    BY <1>5, <2>1, <2>3 DEF LoginFails, Open
<1>6. CASE LoginReply \/ FinishRequested \/ WifiPostDone
  BY <1>6 DEF LoginReply, FinishRequested, WifiPostDone, Open
<1>7. CASE LogoutGet
  BY <1>1, <1>7 DEF LogoutGet, Ctx, Open
<1>8. ASSUME NEW c \in Clients, NEW ok \in BOOLEAN,
             LoginPost(c, ok) \/ WifiPost(c) \/ FinishGet(c)
      PROVE  /\ prov' = prov /\ hist'.age = hist.age /\ now' = now /\ ticked' = ticked
  BY <1>1, <1>8 DEF LoginPost, WifiPost, FinishGet, History
<1>9. CASE DevCodeAdded
  BY <1>9 DEF DevCodeAdded, Open
<1> QED
  BY <1>2, <1>3, <1>4, <1>5, <1>6, <1>7, <1>8, <1>9 DEF Next, LoopStep, HandlerStep, Open

\* The session's age stays in step with the readings, and is below the cap after
\* every tick.
LEMMA AgeStep ==
  ASSUME TypeOK, HandlersAreAwaited, AgeIsElapsed, [Next]_vars
  PROVE  AgeIsElapsed'
<1>1. prov \in Ctx /\ hist \in History /\ now \in Reading
  BY DEF TypeOK
<1>2. (now - now) % Wrap = 0
  BY <1>1, Numbers DEF Reading
<1>3. CASE Tick
  <2>1. CASE TickFinishes
    BY <1>1, <2>1, CloseFacts DEF TickFinishes, AgeIsElapsed, Open
  <2>2. ASSUME NEW down \in BOOLEAN, TickOpens(down) PROVE AgeIsElapsed'
    <3>1. prov'.opened_ms = now
      BY <1>1, <2>2, ButtonFacts DEF TickOpens
    <3>2. hist'.age = 0
      BY <1>1, <2>2, ScanFacts DEF TickOpens, History
    <3> QED
      BY <1>2, <1>3, <3>1, <3>2, Numbers, TickCases DEF AgeIsElapsed
  <2>3. ASSUME NEW down \in BOOLEAN, TickCloses(down) PROVE AgeIsElapsed'
    <3>1. ~Open'
      BY <1>1, <2>3, ButtonFacts, CloseFacts DEF TickCloses, Open
    <3> QED
      BY <3>1 DEF AgeIsElapsed
  <2>4. ASSUME NEW down \in BOOLEAN, TickIdles(down) PROVE AgeIsElapsed'
    <3>1. /\ prov'.state = prov.state /\ prov'.opened_ms = prov.opened_ms
          /\ hist'.age = hist.age
      BY <1>1, <2>4, ButtonFacts, ScanFacts DEF TickIdles
    <3>2. Open => ~((now - prov.opened_ms) % Wrap >= SessionMs)
      BY <2>4 DEF TickIdles, SessionExpired, Elapsed, Open
    <3>3. Open => hist.age < SessionMs
      BY <1>1, <3>2, Numbers DEF AgeIsElapsed, History
    <3> QED
      BY <1>3, <3>1, <3>3, TickCases DEF AgeIsElapsed, Open
  <2> QED
    BY <1>3, <2>1, <2>2, <2>3, <2>4, TickCases
<1>4. CASE Elapse
  <2>1. /\ prov' = prov /\ now' = (now + 1) % Wrap /\ ~ticked'
        /\ hist'.age = IF Open /\ hist.age < SessionMs THEN hist.age + 1 ELSE hist.age
    BY <1>1, <1>4 DEF Elapse, History
  <2>2. ASSUME Open PROVE hist'.age = (now' - prov.opened_ms) % Wrap
    <3>1. /\ hist.age \in Nat /\ hist.age < SessionMs /\ hist'.age = hist.age + 1
          /\ prov.opened_ms \in Reading /\ hist.age = (now - prov.opened_ms) % Wrap
      BY <1>1, <1>4, <2>1, <2>2, Numbers
         DEF Elapse, HandlersAreAwaited, AgeIsElapsed, History, Ctx
    <3>2. ((now - prov.opened_ms) % Wrap) + 1 < Wrap
      BY <3>1, Numbers
    <3>3. (((now + 1) % Wrap) - prov.opened_ms) % Wrap
            = ((now - prov.opened_ms) % Wrap) + 1
      BY <1>1, <3>1, <3>2, OneUnitLater
    <3> QED
      BY <2>1, <3>1, <3>3
  <2> QED
    BY <2>1, <2>2 DEF AgeIsElapsed, Open
<1>5. ASSUME Next, ~Tick, ~Elapse PROVE AgeIsElapsed'
  BY <1>5, SessionKept DEF AgeIsElapsed
<1>6. CASE UNCHANGED vars
  BY <1>6 DEF AgeIsElapsed, Open, vars
<1> QED
  BY <1>3, <1>4, <1>5, <1>6

\* A handler in progress stays one of a session that is open or being stopped.
LEMMA HandlersStep ==
  ASSUME TypeOK, HandlersAreAwaited, [Next]_vars
  PROVE  HandlersAreAwaited'
<1>1. prov \in Ctx /\ hist \in History /\ now \in Reading /\ http \in Handler
  BY DEF TypeOK
<1>2. CASE Tick
  <2>1. CASE TickFinishes
    BY <1>1, <1>2, <2>1, TickCases, CloseFacts
       DEF TickFinishes, StartStopping, HandlersAreAwaited, Open
  <2>2. ASSUME NEW down \in BOOLEAN, TickOpens(down) PROVE HandlersAreAwaited'
    <3>1. prov'.state = "OPEN" /\ loop' = "opening"
      BY <1>1, <2>2, ButtonFacts DEF TickOpens
    <3> QED
      BY <1>2, <3>1, TickCases DEF HandlersAreAwaited, Open
  <2>3. ASSUME NEW down \in BOOLEAN, TickCloses(down) PROVE HandlersAreAwaited'
    <3>1. ~Open' /\ loop' = "stopping"
      BY <1>1, <2>3, ButtonFacts, CloseFacts DEF TickCloses, StartStopping, Open
    <3> QED
      BY <1>2, <3>1, TickCases DEF HandlersAreAwaited
  <2>4. ASSUME NEW down \in BOOLEAN, TickIdles(down) PROVE HandlersAreAwaited'
    <3>1. prov'.state = prov.state /\ loop' = loop
      BY <1>1, <2>4, ButtonFacts DEF TickIdles
    <3> QED
      BY <1>2, <3>1, TickCases DEF HandlersAreAwaited, Open
  <2> QED
    BY <1>2, <2>1, <2>2, <2>3, <2>4, TickCases
<1>3. CASE OpenPortal
  <2>1. ap => ap' /\ prov'.state = prov.state
    BY <1>1, <1>3 DEF OpenPortal, Ctx
  <2> QED
    BY <1>3, <2>1 DEF OpenPortal, HandlersAreAwaited, Open
<1>4. CASE PortalStopped
  BY <1>4, StartFacts DEF PortalStopped, HandlersAreAwaited, Open
<1>5. ASSUME NEW c \in Clients, NEW ok \in BOOLEAN,
             LoginPost(c, ok) \/ WifiPost(c) \/ FinishGet(c)
      PROVE  HandlersAreAwaited'
  BY <1>5, StartFacts DEF LoginPost, WifiPost, FinishGet, Request, Authenticated,
       HandlersAreAwaited, Open, Idle
<1>6. CASE LoginSucceeds
  BY <1>1, <1>6 DEF LoginSucceeds, HandlersAreAwaited, Open, Ctx, Handler
<1>7. CASE LoginFails
  BY <1>1, <1>7, StartFacts DEF LoginFails, CloseSession, HandlersAreAwaited, Open, Ctx
<1>8. CASE LoginReply \/ FinishRequested \/ WifiPostDone
  BY <1>8, StartFacts DEF LoginReply, FinishRequested, WifiPostDone,
       HandlersAreAwaited, Open
<1>9. CASE LogoutGet
  BY <1>1, <1>9 DEF LogoutGet, HandlersAreAwaited, Open, Ctx
<1>10. CASE Elapse
  <2> DEFINE left == IF http.left > 0 THEN http.left - 1 ELSE 0
  <2>1. http = Idle => left = http.left
    BY StartFacts
  <2>2. http' = [http EXCEPT !.left = left]
    BY <1>10 DEF Elapse
  <2> HIDE DEF left
  <2>3. http'.at = http.at /\ http'.client = http.client /\ (http = Idle => http' = Idle)
    BY <1>1, <2>1, <2>2 DEF Handler
  <2> QED
    BY <1>10, <2>3 DEF Elapse, HandlersAreAwaited, Open
<1>11. CASE DevCodeAdded \/ UNCHANGED vars
  BY <1>11 DEF DevCodeAdded, HandlersAreAwaited, Open, vars
<1> QED
  BY <1>2, <1>3, <1>4, <1>5, <1>6, <1>7, <1>8, <1>9, <1>10, <1>11
     DEF Next, LoopStep, HandlerStep

\* The failures stay below the limit wherever another may be counted.
LEMMA FailuresStep ==
  ASSUME TypeOK, HandlersAreAwaited, FailuresCount, [Next]_vars
  PROVE  FailuresCount'
<1>1. /\ prov \in Ctx /\ hist \in History /\ http \in Handler /\ now \in Reading
      /\ prov.login_failures \in Nat /\ 0 < MaxLoginFailures
  BY Numbers DEF TypeOK, Ctx
<1>2. CASE Tick
  <2>1. CASE TickFinishes
    BY <1>1, <1>2, <2>1, TickCases, CloseFacts DEF TickFinishes, FailuresCount, Open
  <2>2. ASSUME NEW down \in BOOLEAN, TickOpens(down) \/ TickIdles(down)
        PROVE  FailuresCount'
    <3>1. prov'.login_failures = prov.login_failures
      BY <1>1, <2>2, ButtonFacts DEF TickOpens, TickIdles
    <3> QED
      BY <1>2, <2>2, <3>1, TickCases DEF FailuresCount
  <2>3. ASSUME NEW down \in BOOLEAN, TickCloses(down) PROVE FailuresCount'
    <3> DEFINE q == ProvButton(prov, down)
    <3>1. q \in Ctx /\ q.state = prov.state
      BY <1>1, <2>3, ButtonFacts DEF TickCloses
    <3>2. prov' = CloseSession(q) /\ prov.state = "OPEN"
      BY <2>3 DEF TickCloses, SessionExpired
    <3> HIDE DEF q
    <3>3. prov'.login_failures = 0
      BY <3>1, <3>2, CloseFacts
    <3> QED
      BY <1>1, <3>3 DEF FailuresCount
  <2> QED
    BY <1>2, <2>1, <2>2, <2>3, TickCases
<1>3. CASE OpenPortal
  <2> DEFINE fresh == [prov EXCEPT !.authenticated = FALSE, !.login_failures = 0]
  <2>1. fresh \in Ctx /\ fresh.login_failures = 0
    BY <1>1, Numbers DEF Ctx
  <2>2. prov' = fresh \/ prov' = CloseSession(fresh)
    BY <1>3 DEF OpenPortal
  <2> HIDE DEF fresh
  <2>3. prov'.login_failures = 0
    BY <2>1, <2>2, CloseFacts
  <2> QED
    BY <1>1, <2>3 DEF FailuresCount
<1>4. CASE PortalStopped
  BY <1>4, StartFacts DEF PortalStopped, FailuresCount
<1>5. ASSUME NEW c \in Clients, NEW ok \in BOOLEAN,
             LoginPost(c, ok) \/ WifiPost(c) \/ FinishGet(c)
      PROVE  FailuresCount'
  BY <1>5 DEF LoginPost, WifiPost, FinishGet, Request, FailuresCount
<1>6. CASE LoginSucceeds
  BY <1>1, <1>6 DEF LoginSucceeds, FailuresCount, Ctx
<1>7. CASE LoginFails
  <2> DEFINE n == [prov EXCEPT !.login_failures = @ + 1]
  <2>1. n.state = prov.state /\ n.login_failures = prov.login_failures + 1
    BY <1>1 DEF Ctx
  <2>2. prov' = IF n.login_failures >= MaxLoginFailures THEN CloseSession(n) ELSE n
    BY <1>7 DEF LoginFails
  <2>3. CASE loop = "stopping"
    BY <1>7, <2>3, StartFacts DEF LoginFails, FailuresCount
  <2>4. CASE loop # "stopping"
    <3>1. n.state = "OPEN"
      BY <1>7, <2>1, <2>4 DEF LoginFails, HandlersAreAwaited, Open
    <3>2. n \in Ctx
      <4>1. prov.login_failures + 1 \in 0..MaxLoginFailures
        BY <1>1, <1>7, Numbers DEF LoginFails, FailuresCount
      <4> QED
        BY <1>1, <4>1 DEF Ctx
    <3> HIDE DEF n
    <3>3. CloseSession(n).login_failures = 0
      BY <3>1, <3>2, CloseFacts
    <3>4. n.login_failures \in Nat
      BY <3>2 DEF Ctx
    <3> QED
      BY <1>1, <2>2, <3>3, <3>4, Numbers DEF FailuresCount
  <2> QED
    BY <2>3, <2>4
<1>8. CASE LoginReply \/ FinishRequested \/ WifiPostDone
  BY <1>8, StartFacts DEF LoginReply, FinishRequested, WifiPostDone, FailuresCount
<1>9. CASE LogoutGet
  BY <1>1, <1>9 DEF LogoutGet, FailuresCount, Ctx
<1>10. CASE Elapse
  BY <1>1, <1>10 DEF Elapse, FailuresCount, Handler
<1>11. CASE DevCodeAdded \/ UNCHANGED vars
  BY <1>11 DEF DevCodeAdded, FailuresCount, vars
<1> QED
  BY <1>2, <1>3, <1>4, <1>5, <1>6, <1>7, <1>8, <1>9, <1>10, <1>11
     DEF Next, LoopStep, HandlerStep

\* A cookie that would be served stays its owner's.
LEMMA CookieStep ==
  ASSUME TypeOK, HandlersAreAwaited, CookieIsEarned, [Next]_vars
  PROVE  CookieIsEarned'
<1>1. /\ prov \in Ctx /\ hist \in History /\ http \in Handler /\ now \in Reading
  BY DEF TypeOK
<1>2. CASE Tick
  <2>1. CASE TickFinishes
    BY <1>1, <2>1 DEF TickFinishes, StartStopping, CookieIsEarned
  <2>2. ASSUME NEW down \in BOOLEAN, TickOpens(down) PROVE CookieIsEarned'
    <3>1. prov'.authenticated = prov.authenticated
      BY <1>1, <2>2, ButtonFacts DEF TickOpens
    <3>2. ~Open /\ http.at = "idle"
      BY <1>2, <2>2, TickCases DEF TickOpens, HoldCompletes, HandlersAreAwaited, Open
    <3>3. ~(prov.authenticated /\ sid # NoClient)
      BY <1>2, <3>2, TickCases DEF CookieIsEarned
    <3> QED
      BY <1>2, <3>1, <3>2, <3>3, TickCases DEF CookieIsEarned
  <2>3. ASSUME NEW down \in BOOLEAN, TickCloses(down) PROVE CookieIsEarned'
    <3>1. hist'.proved = hist.proved /\ loop' = "stopping" /\ http' = http
      BY <1>1, <2>3, ScanFacts DEF TickCloses, StartStopping
    <3> QED
      BY <3>1 DEF CookieIsEarned
  <2>4. ASSUME NEW down \in BOOLEAN, TickIdles(down) PROVE CookieIsEarned'
    <3>1. /\ prov'.authenticated = prov.authenticated /\ prov'.state = prov.state
          /\ hist'.proved = hist.proved
      BY <1>1, <2>4, ScanFacts, ButtonFacts DEF TickIdles
    <3> QED
      BY <2>4, <3>1 DEF TickIdles, CookieIsEarned, Open
  <2> QED
    BY <1>2, <2>1, <2>2, <2>3, <2>4, TickCases
<1>3. CASE OpenPortal
  <2> DEFINE fresh == [prov EXCEPT !.authenticated = FALSE, !.login_failures = 0]
  <2>1. fresh \in Ctx /\ ~fresh.authenticated
    BY <1>1, Numbers DEF Ctx
  <2>2. prov' = fresh \/ prov' = CloseSession(fresh)
    BY <1>3 DEF OpenPortal
  <2> HIDE DEF fresh
  <2>3. ~prov'.authenticated
    BY <2>1, <2>2, CloseFacts
  <2> QED
    BY <1>3, <2>3 DEF OpenPortal, CookieIsEarned
<1>4. CASE PortalStopped
  BY <1>4, StartFacts DEF PortalStopped, CookieIsEarned
<1>5. ASSUME NEW c \in Clients, NEW ok \in BOOLEAN,
             LoginPost(c, ok) \/ WifiPost(c) \/ FinishGet(c)
      PROVE  CookieIsEarned'
  <2>1. /\ http = Idle /\ http.at = "idle" /\ http'.at \in {"login", "verify", "finish"}
        /\ hist'.proved = hist.proved
    BY <1>1, <1>5, StartFacts DEF LoginPost, WifiPost, FinishGet, Request, History, Idle
  <2> QED
    BY <1>5, <2>1 DEF LoginPost, WifiPost, FinishGet, CookieIsEarned, Open
<1>6. CASE LoginSucceeds
  <2>1. /\ http'.at = "reply" /\ http'.client = http.client
        /\ hist'.proved = hist.proved \union {http.client}
    BY <1>1, <1>6 DEF LoginSucceeds, Handler, History
  <2> QED
    BY <2>1 DEF CookieIsEarned
<1>7. CASE LoginFails
  <2> DEFINE n == [prov EXCEPT !.login_failures = @ + 1]
  <2>1. n.state = prov.state /\ n.authenticated = prov.authenticated
    BY <1>1 DEF Ctx
  <2>2. \/ prov' = n
        \/ prov' = CloseSession(n)
    BY <1>7 DEF LoginFails
  <2>3. CASE prov'.authenticated = prov.authenticated /\ prov'.state = prov.state
    BY <1>7, <2>3, StartFacts DEF LoginFails, CookieIsEarned, Open
  <2>4. CASE ~prov'.authenticated
    BY <1>7, <2>4, StartFacts DEF LoginFails, CookieIsEarned
  <2>5. prov' = CloseSession(n) => prov' = n \/ ~prov'.authenticated
    BY <1>1 DEF CloseSession, Ctx
  <2> HIDE DEF n
  <2> QED
    BY <2>1, <2>2, <2>3, <2>4, <2>5
<1>8. CASE LoginReply
  BY <1>8, StartFacts DEF LoginReply, CookieIsEarned, HandlersAreAwaited, Open
<1>9. CASE FinishRequested \/ WifiPostDone
  BY <1>9, StartFacts DEF FinishRequested, WifiPostDone, CookieIsEarned, Open
<1>10. CASE LogoutGet
  BY <1>10, StartFacts DEF LogoutGet, Request, CookieIsEarned
<1>11. CASE Elapse
  BY <1>1, <1>11 DEF Elapse, CookieIsEarned, Handler, History, Open
<1>12. CASE DevCodeAdded \/ UNCHANGED vars
  BY <1>12 DEF DevCodeAdded, CookieIsEarned, Open, vars
<1> QED
  BY <1>2, <1>3, <1>4, <1>5, <1>6, <1>7, <1>8, <1>9, <1>10, <1>11, <1>12
     DEF Next, LoopStep, HandlerStep

\* A request to finish stays one of this session.
LEMMA FinishStep ==
  ASSUME TypeOK, HandlersAreAwaited, FinishIsAsked, [Next]_vars
  PROVE  FinishIsAsked'
<1>1. /\ prov \in Ctx /\ hist \in History /\ http \in Handler /\ now \in Reading
  BY DEF TypeOK
<1>2. CASE Tick
  <2>1. CASE TickFinishes
    BY <1>2, <2>1, TickCases DEF TickFinishes, FinishIsAsked
  <2>2. ASSUME NEW down \in BOOLEAN, TickOpens(down) PROVE FinishIsAsked'
    <3>1. http.at = "idle"
      BY <1>2, <2>2, TickCases DEF TickOpens, HoldCompletes, HandlersAreAwaited, Open
    <3> QED
      BY <1>2, <3>1, TickCases DEF FinishIsAsked
  <2>3. ASSUME NEW down \in BOOLEAN, TickCloses(down) \/ TickIdles(down)
        PROVE  FinishIsAsked'
    <3>1. hist'.asked = hist.asked
      BY <1>1, <2>3, ScanFacts DEF TickCloses, TickIdles
    <3> QED
      BY <1>2, <3>1, TickCases DEF FinishIsAsked
  <2> QED
    BY <1>2, <2>1, <2>2, <2>3, TickCases
<1>3. CASE OpenPortal \/ PortalStopped \/ LogoutGet \/ DevCodeAdded \/ UNCHANGED vars
  BY <1>3 DEF OpenPortal, PortalStopped, LogoutGet, DevCodeAdded, FinishIsAsked, vars
<1>4. ASSUME NEW c \in Clients, NEW ok \in BOOLEAN, LoginPost(c, ok) \/ WifiPost(c)
      PROVE  FinishIsAsked'
  BY <1>4 DEF LoginPost, WifiPost, FinishIsAsked, Idle
<1>5. ASSUME NEW c \in Clients, FinishGet(c) PROVE FinishIsAsked'
  BY <1>1, <1>5 DEF FinishGet, FinishIsAsked, History
<1>6. CASE LoginSucceeds
  BY <1>1, <1>6 DEF LoginSucceeds, FinishIsAsked, Handler, History
<1>7. CASE LoginFails \/ LoginReply \/ FinishRequested \/ WifiPostDone
  BY <1>7, StartFacts DEF LoginFails, LoginReply, FinishRequested, WifiPostDone,
       FinishIsAsked
<1>8. CASE Elapse
  BY <1>1, <1>8 DEF Elapse, FinishIsAsked, Handler, History
<1> QED
  BY <1>2, <1>3, <1>4, <1>5, <1>6, <1>7, <1>8 DEF Next, LoopStep, HandlerStep

-----------------------------------------------------------------------------
(* The theorems *)

\* A boot satisfies the invariant, wherever the clock stands.
LEMMA InitInv == Init => IndInv
<1> SUFFICES ASSUME Init PROVE IndInv
  OBVIOUS
<1>1. TypeOK
  BY StartFacts DEF Init, TypeOK
<1>2. HandlersAreAwaited /\ FailuresCount /\ AgeIsElapsed
  BY StartFacts DEF Init, HandlersAreAwaited, FailuresCount, AgeIsElapsed, Open
<1>3. PressIsElapsed /\ CookieIsEarned /\ FinishIsAsked
  BY StartFacts DEF Init, PressIsElapsed, CookieIsEarned, FinishIsAsked
<1> QED
  BY <1>1, <1>2, <1>3 DEF IndInv

\* Every step of the two tasks, of the browsers and of the time preserves it.
LEMMA NextInv == IndInv /\ [Next]_vars => IndInv'
<1> SUFFICES ASSUME IndInv, [Next]_vars PROVE IndInv'
  OBVIOUS
<1>1. /\ TypeOK /\ HandlersAreAwaited /\ FailuresCount /\ AgeIsElapsed
      /\ PressIsElapsed /\ CookieIsEarned /\ FinishIsAsked
  BY DEF IndInv
<1>2. TypeOK'
  <2>1. CASE UNCHANGED vars
    BY <1>1, <2>1 DEF vars, TypeOK
  <2>2. CASE LoopStep
    BY <1>1, <2>2, LoopType
  <2>3. CASE HandlerStep
    BY <1>1, <2>3, HandlerType
  <2>4. CASE \/ \E c \in Clients, ok \in BOOLEAN : LoginPost(c, ok)
             \/ \E c \in Clients : FinishGet(c) \/ WifiPost(c)
             \/ LogoutGet \/ DevCodeAdded \/ Elapse
    BY <1>1, <2>4, OtherType
  <2> QED
    BY <2>1, <2>2, <2>3, <2>4 DEF Next
<1>3. HandlersAreAwaited'
  BY <1>1, HandlersStep
<1>4. FailuresCount'
  BY <1>1, FailuresStep
<1>5. AgeIsElapsed' /\ PressIsElapsed'
  BY <1>1, AgeStep, PressStep
<1>6. CookieIsEarned' /\ FinishIsAsked'
  BY <1>1, CookieStep, FinishStep
<1> QED
  BY <1>2, <1>3, <1>4, <1>5, <1>6 DEF IndInv

\* IndInv is an invariant of every behaviour.
THEOREM Invariance == Spec => []IndInv
BY InitInv, NextInv, PTL DEF Spec

\* The session, the handler in progress and the main loop stay in their types: in
\* particular the count of failed logins never exceeds its limit.
THEOREM TypeCorrect == Spec => []TypeOK
<1>1. IndInv => TypeOK
  BY DEF IndInv
<1> QED
  BY <1>1, Invariance, PTL

\* A session is over when prov_tick has run SessionMs after the hold, whatever the
\* clients did meanwhile and wherever the clock wraps.
THEOREM SessionsEndInTime == Spec => []SessionCapped
<1>1. IndInv => SessionCapped
  BY DEF IndInv, AgeIsElapsed, SessionCapped
<1> QED
  BY <1>1, Invariance, PTL

\* No client is served as authenticated that has not logged in since the session
\* opened (login_post, new_sid, prov_authenticated), without a lock between the
\* task that opens and closes sessions and the one that serves them.
THEOREM OnlyOwnLoginsServe == Spec => []ServedOnlyAfterLogin
<1>1. ASSUME IndInv PROVE ServedOnlyAfterLogin
  <2> SUFFICES ASSUME NEW c \in Clients, http = Idle, Authenticated(c)
               PROVE  c \in hist.proved
    BY DEF ServedOnlyAfterLogin
  <2>1. sid = c /\ sid # NoClient /\ http.at = "idle"
    BY ProvAssumption, StartFacts DEF Authenticated
  <2>2. loop # "stopping"
    BY <1>1 DEF IndInv, HandlersAreAwaited, Authenticated
  <2> QED
    BY <1>1, <2>1, <2>2 DEF IndInv, CookieIsEarned, Authenticated
<1> QED
  BY <1>1, Invariance, PTL

\* A session opens by a full press of its own and ends by its timeout, its admin,
\* its failed logins or a radio that does not start: nothing one task does late
\* reaches the next session (prov_button, prov_tick, prov_login,
\* prov_session_finish).
THEOREM SessionsHaveOwners == Spec => SessionsAreOwned
<1> DEFINE Owned == OneSessionPerPress /\ EndsForItsOwnReasons
<1>1. ASSUME IndInv, [Next]_vars PROVE Owned
  <2>1. /\ TypeOK /\ prov \in Ctx /\ hist \in History /\ now \in Reading
        /\ AgeIsElapsed /\ PressIsElapsed /\ FinishIsAsked
    BY <1>1 DEF IndInv, TypeOK
  <2>2. OneSessionPerPress
    <3> SUFFICES ASSUME ~Open, prov'.state = "OPEN"
                 PROVE  hist.held >= HoldMs /\ ~hist.spent
      BY DEF OneSessionPerPress
    <3>1. Tick
      BY <1>1, <2>1, SessionKept DEF Open, Elapse, vars
    <3>2. PICK down \in BOOLEAN : TickOpens(down)
      <4>1. ~TickFinishes
        BY DEF TickFinishes
      <4>2. ASSUME NEW down \in BOOLEAN, TickCloses(down) PROVE FALSE
        BY <4>2 DEF TickCloses, SessionExpired, Open
      <4>3. ASSUME NEW down \in BOOLEAN, TickIdles(down) PROVE FALSE
        BY <2>1, <4>3, ButtonFacts DEF TickIdles, Open
      <4> QED
        BY <3>1, <4>1, <4>2, <4>3, TickCases
    <3>3. /\ prov.button_down /\ ~prov.button_consumed
          /\ (now - prov.button_down_ms) % Wrap >= HoldMs
      BY <3>2 DEF TickOpens, HoldCompletes, Elapsed
    <3>4. hist.held \in Nat
      BY <2>1, Numbers DEF History
    <3> QED
      BY <2>1, <3>3, <3>4, Numbers DEF PressIsElapsed
  <2>3. EndsForItsOwnReasons
    <3> SUFFICES ASSUME Open, prov'.state = "CLOSED",
                        ~(hist.age >= SessionMs), ~hist.asked, loop # "opening"
                 PROVE  /\ http.at = "login" /\ ~http.ok
                        /\ prov.login_failures + 1 >= MaxLoginFailures
      BY DEF EndsForItsOwnReasons
    <3>1. ~Tick
      <4> SUFFICES ASSUME Tick PROVE FALSE
        OBVIOUS
      <4>1. ~TickFinishes
        BY <2>1 DEF TickFinishes, FinishIsAsked
      <4>2. ASSUME NEW down \in BOOLEAN, TickOpens(down) PROVE FALSE
        BY <4>2 DEF TickOpens, HoldCompletes, Open
      <4>3. ASSUME NEW down \in BOOLEAN, TickCloses(down) PROVE FALSE
        BY <2>1, <4>3 DEF TickCloses, SessionExpired, Elapsed, AgeIsElapsed
      <4>4. ASSUME NEW down \in BOOLEAN, TickIdles(down) PROVE FALSE
        BY <2>1, <4>4, ButtonFacts DEF TickIdles, Open
      <4> QED
        BY <4>1, <4>2, <4>3, <4>4, TickCases
    <3>2. prov' # prov
      BY DEF Open
    <3>3. ~LoginSucceeds /\ ~LogoutGet
      BY <2>1 DEF LoginSucceeds, LogoutGet, Ctx, Open
    <3>4. LoginFails
      BY <1>1, <3>1, <3>2, <3>3
         DEF Next, LoopStep, HandlerStep, OpenPortal, PortalStopped, LoginReply,
             FinishRequested, WifiPostDone, LoginPost, FinishGet, WifiPost,
             DevCodeAdded, Elapse, vars
    <3> QED
      BY <2>1, <3>4 DEF LoginFails, Ctx, Open
  <2> QED
    BY <2>2, <2>3
<1> HIDE DEF Owned
<1>2. IndInv /\ [Next]_vars => [Owned]_vars
  BY <1>1
<1>3. Spec => [][Owned]_vars
  BY <1>2, Invariance, PTL DEF Spec
<1> QED
  BY <1>3 DEF SessionsAreOwned, Owned

-----------------------------------------------------------------------------
(* NetLink *)

\* What the flag says once the queue is handled - the last loss or address in it, or
\* what it says now - is what the link is.
Settles(flag, ev, association) ==
  /\ \A k \in 1..Len(ev) :
       ev[k] # "START" /\ (\A j \in (k + 1)..Len(ev) : ev[j] = "START")
         => (association = "joined" <=> ev[k] = "IP")
  /\ (\A k \in 1..Len(ev) : ev[k] = "START") => (association = "joined" <=> flag)

\* The places of a test of credentials between its first call and its last but two.
Testing == {"leave", "clear", "configure", "connect", "wait", "leave again",
            "put back", "want back"}

\* The places where what is wanted is what the stored credentials say.
Settled == {"idle", "rejoin", "save", "reconfigure", "join", "page"}

\* What the radio runs is what is wanted, and only a station has a link.
RadioFollows ==
  /\ mode = Wanted(want)
  /\ link # "idle" => want.sta

\* What the server's task has changed of what is wanted, and remembers to put back.
RequestOwes ==
  /\ server.at \in Settled =>
       want.sta = want.join /\ (want.join <=> stored # NoCreds)
  /\ server.at = "scanning" =>
       want.sta /\ (want.join <=> stored # NoCreds) /\ (server.added <=> ~want.join)
  /\ server.at \in Testing =>
       want.sta /\ want.join /\ (server.had <=> stored # NoCreds)
  /\ server.at \in Testing \union {"rejoin", "save"} => server.tried \in Creds
  /\ server.at = "start" => stored # NoCreds

NetInv ==
  /\ NetTypeOK
  /\ RadioFollows
  /\ RequestOwes
  /\ Settles(connected, events, link)

Happenings == {"START", "LOST", "IP"}
Links == {"idle", "connecting", "joined"}

-----------------------------------------------------------------------------

\* The start of an interface says nothing of the link.
LEMMA StartSettles ==
  ASSUME NEW flag \in BOOLEAN, NEW ev \in Seq(Happenings), NEW association,
         Settles(flag, ev, association)
  PROVE  Settles(flag, Append(ev, "START"), association)
<1> DEFINE more == Append(ev, "START")
<1>1. /\ more \in Seq(Happenings) /\ Len(ev) \in Nat /\ Len(more) = Len(ev) + 1
      /\ more[Len(ev) + 1] = "START"
      /\ \A k \in 1..Len(ev) : more[k] = ev[k]
  BY DEF Happenings
<1> HIDE DEF more
<1>2. ASSUME NEW k \in 1..Len(more), more[k] # "START",
             \A j \in (k + 1)..Len(more) : more[j] = "START"
      PROVE  association = "joined" <=> more[k] = "IP"
  <2>1. k \in 1..Len(ev) /\ ev[k] = more[k]
    BY <1>1, <1>2
  <2>2. \A j \in (k + 1)..Len(ev) : ev[j] = "START"
    BY <1>1, <1>2, <2>1
  <2> QED
    BY <1>2, <2>1, <2>2 DEF Settles
<1>3. ASSUME \A k \in 1..Len(more) : more[k] = "START"
      PROVE  association = "joined" <=> flag
  <2>1. \A k \in 1..Len(ev) : ev[k] = "START"
    BY <1>1, <1>3
  <2> QED
    BY <2>1 DEF Settles
<1> QED
  BY <1>2, <1>3 DEF Settles, more

\* The newest loss or address says what the link is.
LEMMA NewsSettles ==
  ASSUME NEW flag \in BOOLEAN, NEW ev \in Seq(Happenings), NEW association,
         NEW news \in {"LOST", "IP"}, association = "joined" <=> news = "IP"
  PROVE  Settles(flag, Append(ev, news), association)
<1> DEFINE more == Append(ev, news)
<1>1. /\ Len(ev) \in Nat /\ Len(more) = Len(ev) + 1 /\ more[Len(ev) + 1] = news
  BY DEF Happenings
<1> HIDE DEF more
<1>2. ASSUME NEW k \in 1..Len(more), \A j \in (k + 1)..Len(more) : more[j] = "START"
      PROVE  more[k] = news
  <2>1. k < Len(more) => more[Len(more)] = "START"
    BY <1>1, <1>2
  <2>2. k = Len(more)
    BY <1>1, <2>1
  <2> QED
    BY <1>1, <2>2
<1>3. ~\A k \in 1..Len(more) : more[k] = "START"
  <2>1. Len(more) \in 1..Len(more) /\ more[Len(more)] # "START"
    BY <1>1
  <2> QED
    BY <2>1
<1> QED
  BY <1>2, <1>3 DEF Settles, more

\* What is left of a queue.
LEMMA TailFacts ==
  ASSUME NEW ev \in Seq(Happenings), ev # <<>>
  PROVE  /\ Tail(ev) \in Seq(Happenings) /\ Len(ev) \in Nat /\ Len(ev) >= 1
         /\ Len(Tail(ev)) = Len(ev) - 1 /\ Head(ev) = ev[1]
         /\ \A k \in 1..(Len(ev) - 1) : Tail(ev)[k] = ev[k + 1]
OBVIOUS

\* Handling an event: the start of an interface leaves the flag alone, a loss and an
\* address set it.
LEMMA HandlingSettles ==
  ASSUME NEW flag \in BOOLEAN, NEW ev \in Seq(Happenings), ev # <<>>, NEW association,
         Settles(flag, ev, association), NEW later \in BOOLEAN,
         IF Head(ev) = "START" THEN later = flag ELSE later <=> Head(ev) = "IP"
  PROVE  Settles(later, Tail(ev), association)
<1> DEFINE rest == Tail(ev)
<1>1. /\ Len(ev) \in Nat /\ Len(ev) >= 1 /\ Len(rest) = Len(ev) - 1 /\ Head(ev) = ev[1]
      /\ \A k \in 1..(Len(ev) - 1) : rest[k] = ev[k + 1]
  BY TailFacts
<1> HIDE DEF rest
<1>2. ASSUME NEW k \in 1..Len(rest), rest[k] # "START",
             \A j \in (k + 1)..Len(rest) : rest[j] = "START"
      PROVE  association = "joined" <=> rest[k] = "IP"
  <2>1. k + 1 \in 1..Len(ev) /\ ev[k + 1] = rest[k]
    BY <1>1
  <2>2. ASSUME NEW j \in ((k + 1) + 1)..Len(ev) PROVE ev[j] = "START"
    <3>1. j - 1 \in (k + 1)..Len(rest) /\ rest[j - 1] = ev[(j - 1) + 1] /\ (j - 1) + 1 = j
      BY <1>1
    <3> QED
      BY <1>2, <3>1
  <2> QED
    BY <1>2, <2>1, <2>2 DEF Settles
<1>3. ASSUME \A k \in 1..Len(rest) : rest[k] = "START"
      PROVE  association = "joined" <=> later
  <2>1. ASSUME NEW j \in 2..Len(ev) PROVE ev[j] = "START"
    <3>1. j - 1 \in 1..Len(rest) /\ rest[j - 1] = ev[(j - 1) + 1] /\ (j - 1) + 1 = j
      BY <1>1
    <3> QED
      BY <1>3, <3>1
  <2>2. CASE Head(ev) = "START"
    <3>1. \A k \in 1..Len(ev) : ev[k] = "START"
      BY <1>1, <2>1, <2>2
    <3> QED
      BY <2>2, <3>1 DEF Settles
  <2>3. CASE Head(ev) # "START"
    <3>1. 1 \in 1..Len(ev) /\ ev[1] # "START" /\ \A j \in (1 + 1)..Len(ev) : ev[j] = "START"
      BY <1>1, <2>1, <2>3
    <3>2. association = "joined" <=> ev[1] = "IP"
      BY <3>1 DEF Settles
    <3> QED
      BY <1>1, <2>3, <3>2
  <2> QED
    BY <2>2, <2>3
<1> QED
  BY <1>2, <1>3 DEF Settles, rest

\* Connecting does not join, so nothing the flag says of the link changes.
LEMMA SettlesWhenUnjoined ==
  ASSUME NEW flag, NEW ev, NEW before, NEW after, Settles(flag, ev, before),
         before = "joined" <=> after = "joined"
  PROVE  Settles(flag, ev, after)
BY DEF Settles

-----------------------------------------------------------------------------
(* The driver's calls *)

\* The types, as the lemmas need them.
LEMMA NetTypes ==
  NetTypeOK <=>
    /\ want \in Wants
    /\ connected \in BOOLEAN /\ synced \in BOOLEAN /\ tick \in BOOLEAN
    /\ in_sntp \in BOOLEAN
    /\ bits \subseteq {"GOT_IP", "STA_FAIL"}
    /\ retry \in Retry
    /\ server \in Serving
    /\ stored \in Stored /\ cfg \in Stored
    /\ mode \subseteq {"STA", "AP"}
    /\ link \in Links
    /\ events \in Seq(Happenings)
BY DEF NetTypeOK, Links, Happenings

\* Which interfaces are wanted.
LEMMA WantedFacts ==
  ASSUME NEW w \in Wants
  PROVE  /\ Wanted(w) \subseteq {"STA", "AP"}
         /\ "STA" \in Wanted(w) <=> w.sta
BY DEF Wanted

\* Another mode: the interface that goes takes its link along, and says so.
LEMMA ApplyModeFacts ==
  ASSUME NetInv, NEW w \in Wants, ApplyMode(w)
  PROVE  /\ want' = w /\ mode' = Wanted(w) /\ mode' \subseteq {"STA", "AP"}
         /\ link' \in Links /\ events' \in Seq(Happenings)
         /\ link' # "idle" => w.sta
         /\ Settles(connected, events', link')
<1>1. /\ want' = w /\ mode' = Wanted(w) /\ mode = Wanted(want)
      /\ link # "idle" => want.sta
      /\ Settles(connected, events, link)
      /\ connected \in BOOLEAN /\ events \in Seq(Happenings) /\ link \in Links
      /\ want \in Wants
  BY NetTypes DEF ApplyMode, NetInv, RadioFollows
<1>2. /\ Wanted(w) \subseteq {"STA", "AP"}
      /\ "STA" \in mode' <=> w.sta
      /\ "STA" \in mode <=> want.sta
  BY <1>1, WantedFacts
<1>3. CASE "STA" \in mode' \ mode
  <2>1. events' = Append(events, "START") /\ link' = link /\ w.sta
    BY <1>2, <1>3 DEF ApplyMode
  <2>2. events' \in Seq(Happenings)
    BY <1>1, <2>1 DEF Happenings
  <2> QED
    BY <1>1, <1>2, <2>1, <2>2, StartSettles
<1>4. CASE "STA" \in mode \ mode' /\ link # "idle"
  <2>1. events' = Append(events, "LOST") /\ link' = "idle"
    BY <1>4 DEF ApplyMode
  <2>2. events' \in Seq(Happenings) /\ link' \in Links
    BY <1>1, <2>1 DEF Happenings, Links
  <2>3. Settles(connected, events', link')
    BY <1>1, <2>1, NewsSettles
  <2> QED
    BY <1>1, <1>2, <2>1, <2>2, <2>3
<1>5. CASE "STA" \notin mode' \ mode /\ ~("STA" \in mode \ mode' /\ link # "idle")
  <2>1. events' = events /\ link' = link
    BY <1>5 DEF ApplyMode
  <2> QED
    BY <1>1, <1>2, <1>5, <2>1
<1> QED
  BY <1>3, <1>4, <1>5

\* A connect begins an attempt at most.
LEMMA ConnectFacts ==
  ASSUME link \in Links, Connect
  PROVE  /\ link' \in Links
         /\ link' # "idle" => link # "idle" \/ "STA" \in mode
         /\ link = "joined" <=> link' = "joined"
BY DEF Connect, Links

\* A disconnect leaves no link, and a loss to handle if there was one.
LEMMA DisconnectFacts ==
  ASSUME NetInv, Disconnect
  PROVE  /\ link' = "idle" /\ events' \in Seq(Happenings)
         /\ Settles(connected, events', link')
<1>1. /\ connected \in BOOLEAN /\ events \in Seq(Happenings)
      /\ Settles(connected, events, link) /\ link' = "idle"
  BY NetTypes DEF NetInv, Disconnect
<1>2. CASE link = "idle"
  BY <1>1, <1>2 DEF Disconnect
<1>3. CASE link # "idle"
  <2>1. events' = Append(events, "LOST")
    BY <1>3 DEF Disconnect
  <2>2. events' \in Seq(Happenings)
    BY <1>1, <2>1 DEF Happenings
  <2> QED
    BY <1>1, <2>1, <2>2, NewsSettles
<1> QED
  BY <1>2, <1>3

\* net_retry keeps its delay within its two bounds.
LEMMA RetryFacts ==
  ASSUME NEW r \in Retry
  PROVE  /\ NetRetryInit \in Retry /\ NetRetryFailed(r) \in Retry
         /\ NetRetryConnected(r) \in Retry /\ NetRetryDisconnected(r) \in Retry
         /\ r.due_in > 0 => [r EXCEPT !.due_in = @ - 1] \in Retry
<1>1. /\ RetryFirst \in Nat /\ RetryMax \in Nat /\ RetryFirst >= 1 /\ RetryFirst <= RetryMax
      /\ r.delay \in RetryFirst..RetryMax /\ r.due_in \in 0..RetryMax
  BY RetryAssumption DEF Retry
<1>2. NetRetryInit \in Retry /\ NetRetryDisconnected(r) \in Retry
  BY <1>1 DEF NetRetryInit, NetRetryDisconnected, Retry
<1>3. NetRetryFailed(r) \in Retry
  <2> DEFINE delay == IF 2 * r.delay > RetryMax THEN RetryMax ELSE 2 * r.delay
  <2>1. delay \in RetryFirst..RetryMax /\ r.delay \in 0..RetryMax
    BY <1>1
  <2> HIDE DEF delay
  <2>2. [connected |-> FALSE, due_in |-> r.delay, delay |-> delay] \in Retry
    BY <2>1 DEF Retry
  <2> QED
    BY <2>2 DEF NetRetryFailed, delay
<1>4. NetRetryConnected(r) \in Retry
  <2>1. RetryFirst \in RetryFirst..RetryMax
    BY <1>1
  <2> QED
    BY <2>1, Zenon DEF NetRetryConnected, Retry
<1>5. r.due_in > 0 => [r EXCEPT !.due_in = @ - 1] \in Retry
  BY <1>1 DEF Retry
<1> QED
  BY <1>2, <1>3, <1>4, <1>5

-----------------------------------------------------------------------------
(* The steps *)

\* A step that leaves what is wanted, and the server's task, alone.
LEMMA OthersKeepRadio ==
  ASSUME NetInv, UNCHANGED <<want, mode, server, stored>>,
         link' # "idle" => link # "idle" \/ "STA" \in mode
  PROVE  RadioFollows' /\ RequestOwes'
<1>1. "STA" \in mode <=> want.sta
  BY NetTypes, WantedFacts DEF NetInv, RadioFollows
<1>2. RadioFollows'
  BY <1>1 DEF NetInv, RadioFollows
<1>3. RequestOwes'
  BY DEF NetInv, RequestOwes
<1> QED
  BY <1>2, <1>3

\* The router and the driver: an attempt that ends.
LEMMA LinkStep ==
  ASSUME NetInv, Joins \/ Loses
  PROVE  NetInv'
<1>1. /\ UNCHANGED <<want, connected, synced, bits, retry, tick, server, stored, mode,
                     cfg, in_sntp>>
      /\ link # "idle"
      /\ \E news \in {"LOST", "IP"} :
           /\ events' = Append(events, news) /\ link' \in Links
           /\ link' = "joined" <=> news = "IP"
  BY DEF Joins, Loses, Links
<1>2. PICK news \in {"LOST", "IP"} :
        /\ events' = Append(events, news) /\ link' \in Links
        /\ link' = "joined" <=> news = "IP"
  BY <1>1
<1>3. NetTypeOK
  BY DEF NetInv
<1>4. events' \in Seq(Happenings) /\ connected \in BOOLEAN /\ events \in Seq(Happenings)
  BY <1>2, <1>3, NetTypes DEF Happenings
<1>5. Settles(connected', events', link')
  BY <1>1, <1>2, <1>4, NewsSettles
<1>6. RadioFollows' /\ RequestOwes'
  BY <1>1, OthersKeepRadio
<1>7. NetTypeOK'
  BY <1>1, <1>2, <1>3, <1>4, NetTypes DEF NetTypeOK, Links, Happenings
<1> QED
  BY <1>5, <1>6, <1>7 DEF NetInv

\* The event task takes an event off the queue.
LEMMA HandlesFacts ==
  ASSUME NetInv, NEW event, Handles(event), NEW later \in BOOLEAN,
         \/ event = "START" /\ later = connected
         \/ event = "LOST" /\ ~later
         \/ event = "IP" /\ later
  PROVE  /\ events' \in Seq(Happenings)
         /\ Settles(later, events', link)
         /\ UNCHANGED <<want, tick, server, stored, mode, cfg>>
<1>1. /\ events # <<>> /\ Head(events) = event /\ events' = Tail(events)
      /\ UNCHANGED <<want, tick, server, stored, mode, cfg>>
  BY DEF Handles
<1>2. /\ connected \in BOOLEAN /\ events \in Seq(Happenings)
      /\ Settles(connected, events, link)
  BY NetTypes DEF NetInv
<1>3. events' \in Seq(Happenings)
  BY <1>1, <1>2, TailFacts
<1>4. IF Head(events) = "START" THEN later = connected ELSE later <=> Head(events) = "IP"
  BY <1>1
<1> QED
  BY <1>1, <1>2, <1>3, <1>4, HandlingSettles

\* The event task.
LEMMA EventStep ==
  ASSUME NetInv, EventTask
  PROVE  NetInv'
<1>1. NetTypeOK /\ link \in Links /\ connected \in BOOLEAN /\ retry \in Retry
  BY NetTypes DEF NetInv
<1>2. CASE OnStart
  <2>1. /\ Handles("START")
        /\ UNCHANGED <<connected, synced, bits, retry, in_sntp>>
        /\ Connect \/ UNCHANGED link
    BY <1>2 DEF OnStart
  <2>2. /\ events' \in Seq(Happenings)
        /\ Settles(connected, events', link)
        /\ UNCHANGED <<want, tick, server, stored, mode, cfg>>
    BY <1>1, <2>1, HandlesFacts
  <2>3. /\ link' \in Links
        /\ link' # "idle" => link # "idle" \/ "STA" \in mode
        /\ link = "joined" <=> link' = "joined"
    BY <1>1, <2>1, ConnectFacts
  <2>4. Settles(connected', events', link')
    BY <2>1, <2>2, <2>3, SettlesWhenUnjoined
  <2>5. RadioFollows' /\ RequestOwes'
    BY <2>2, <2>3, OthersKeepRadio
  <2>6. NetTypeOK'
    BY <1>1, <2>1, <2>2, <2>3, NetTypes DEF NetTypeOK, Links, Happenings
  <2> QED
    BY <2>4, <2>5, <2>6 DEF NetInv
<1>3. CASE OnLost
  <2>1. /\ Handles("LOST") /\ connected' = FALSE
        /\ bits' = bits \union {"STA_FAIL"}
        /\ retry' \in {retry, NetRetryDisconnected(retry), NetRetryFailed(retry)}
        /\ UNCHANGED <<synced, in_sntp, link>>
    BY <1>3 DEF OnLost, LinkLost
  <2>2. /\ events' \in Seq(Happenings)
        /\ Settles(connected', events', link)
        /\ UNCHANGED <<want, tick, server, stored, mode, cfg>>
    <3>1. PICK later \in BOOLEAN : later = FALSE
      OBVIOUS
    <3>2. ~later
      BY <3>1
    <3>3. /\ events' \in Seq(Happenings)
          /\ Settles(later, events', link)
          /\ UNCHANGED <<want, tick, server, stored, mode, cfg>>
      BY <2>1, <3>2, HandlesFacts
    <3> QED
      BY <2>1, <3>1, <3>3
  <2>3. retry' \in Retry
    BY <1>1, <2>1, RetryFacts
  <2>4. RadioFollows' /\ RequestOwes'
    BY <2>1, <2>2, OthersKeepRadio
  <2>5. NetTypeOK'
    BY <1>1, <2>1, <2>2, <2>3, NetTypes DEF NetTypeOK, Happenings
  <2> QED
    BY <2>1, <2>2, <2>4, <2>5 DEF NetInv
<1>4. CASE OnIp
  <2>1. /\ Handles("IP") /\ connected' = TRUE
        /\ bits' = bits \union {"GOT_IP"}
        /\ retry' = NetRetryConnected(retry)
        /\ in_sntp' \in BOOLEAN
        /\ UNCHANGED <<synced, link>>
    BY <1>1, <1>4 DEF OnIp, NetTypeOK
  <2>2. /\ events' \in Seq(Happenings)
        /\ Settles(connected', events', link)
        /\ UNCHANGED <<want, tick, server, stored, mode, cfg>>
    <3>1. PICK later \in BOOLEAN : later = TRUE
      OBVIOUS
    <3>2. later
      BY <3>1
    <3>3. /\ events' \in Seq(Happenings)
          /\ Settles(later, events', link)
          /\ UNCHANGED <<want, tick, server, stored, mode, cfg>>
      BY <2>1, <3>2, HandlesFacts
    <3> QED
      BY <2>1, <3>1, <3>3
  <2>3. retry' \in Retry
    BY <1>1, <2>1, RetryFacts
  <2>4. RadioFollows' /\ RequestOwes'
    BY <2>1, <2>2, OthersKeepRadio
  <2>5. NetTypeOK'
    BY <1>1, <2>1, <2>2, <2>3, NetTypes DEF NetTypeOK, Happenings
  <2> QED
    BY <2>1, <2>2, <2>4, <2>5 DEF NetInv
<1>5. CASE SntpEnds
  <2>1. /\ in_sntp' = FALSE /\ synced' \in BOOLEAN
        /\ UNCHANGED <<want, connected, bits, retry, tick, server, stored, mode, cfg,
                       link, events>>
    BY <1>5 DEF SntpEnds, driver
  <2>2. NetTypeOK'
    BY <1>1, <2>1 DEF NetTypeOK
  <2>3. RadioFollows' /\ RequestOwes'
    BY <2>1, OthersKeepRadio
  <2> QED
    BY <2>1, <2>2, <2>3 DEF NetInv
<1> QED
  BY <1>2, <1>3, <1>4, <1>5 DEF EventTask

\* The main loop's tick, and the clock.
LEMMA NetLoopStep ==
  ASSUME NetInv, MainLoop \/ RetryElapses
  PROVE  NetInv'
<1>1. NetTypeOK /\ link \in Links /\ retry \in Retry
  BY NetTypes DEF NetInv
<1>2. CASE NetLinkTick \/ RetryElapses
  <2>1. /\ retry' \in Retry /\ tick' \in BOOLEAN
        /\ UNCHANGED <<want, connected, synced, bits, server, stored, mode, cfg, link,
                       events, in_sntp>>
    BY <1>1, <1>2, RetryFacts DEF NetLinkTick, RetryElapses, driver, NetTypeOK
  <2>2. NetTypeOK'
    BY <1>1, <2>1 DEF NetTypeOK
  <2>3. RadioFollows' /\ RequestOwes'
    BY <2>1, OthersKeepRadio
  <2> QED
    BY <2>1, <2>2, <2>3 DEF NetInv
<1>3. CASE TickConnects
  <2>1. /\ tick' = FALSE /\ Connect
        /\ UNCHANGED <<want, connected, synced, bits, retry, server, stored, mode, cfg,
                       events, in_sntp>>
    BY <1>3 DEF TickConnects
  <2>2. /\ link' \in Links
        /\ link' # "idle" => link # "idle" \/ "STA" \in mode
        /\ link = "joined" <=> link' = "joined"
    BY <1>1, <2>1, ConnectFacts
  <2>3. Settles(connected', events', link')
    BY <2>1, <2>2, SettlesWhenUnjoined DEF NetInv
  <2>4. NetTypeOK'
    BY <1>1, <2>1, <2>2 DEF NetTypeOK, Links
  <2>5. RadioFollows' /\ RequestOwes'
    BY <2>1, <2>2, OthersKeepRadio
  <2> QED
    BY <2>3, <2>4, <2>5 DEF NetInv
<1> QED
  BY <1>2, <1>3 DEF MainLoop

\* A step that changes the mode: what is left to show is what the server's task owes.
LEMMA ModeStep ==
  ASSUME NetInv, NEW w \in Wants, ApplyMode(w), server' \in Serving,
         UNCHANGED <<connected, synced, bits, retry, tick, in_sntp, stored, cfg>>,
         RequestOwes'
  PROVE  NetInv'
<1>1. /\ want' = w /\ mode' = Wanted(w) /\ mode' \subseteq {"STA", "AP"}
      /\ link' \in Links /\ events' \in Seq(Happenings)
      /\ link' # "idle" => w.sta
      /\ Settles(connected, events', link')
  BY ApplyModeFacts
<1>2. NetTypeOK'
  BY <1>1 DEF NetInv, NetTypeOK, Links, Happenings
<1>3. RadioFollows'
  BY <1>1 DEF RadioFollows
<1> QED
  BY <1>1, <1>2, <1>3 DEF NetInv

\* The portal goes up or down.
LEMMA PortalStep ==
  ASSUME NetInv, NEW up \in BOOLEAN, Portal(up)
  PROVE  NetInv'
<1> DEFINE w == [want EXCEPT !.ap = up]
<1>1. want \in Wants /\ server \in Serving
  BY NetTypes DEF NetInv
<1>2. w \in Wants /\ w.sta = want.sta /\ w.join = want.join
  BY <1>1 DEF Wants
<1>3. /\ ApplyMode(w)
      /\ UNCHANGED <<connected, synced, bits, retry, tick, server, stored, cfg, in_sntp>>
  BY DEF Portal
<1> HIDE DEF w
<1>4. want' = w
  BY <1>3 DEF ApplyMode
<1>5. RequestOwes'
  BY <1>2, <1>3, <1>4 DEF NetInv, RequestOwes
<1> QED
  BY <1>1, <1>2, <1>3, <1>5, ModeStep

\* The next place of the server's task.
LEMMA GoesFacts ==
  ASSUME NEW from, NEW to \in Stages, server \in Serving, Goes(from, to)
  PROVE  /\ server.at = from /\ server' \in Serving /\ server'.at = to
         /\ server'.tried = server.tried /\ server'.had = server.had
         /\ server'.previous = server.previous /\ server'.added = server.added
         /\ server'.ok = server.ok
BY DEF Goes, Serving

\* A scan puts back the interface it added.
LEMMA ScanStep ==
  ASSUME NetInv, ScanStarts \/ ScanEnds
  PROVE  NetInv'
<1>1. /\ want \in Wants /\ server \in Serving /\ RequestOwes
      /\ NoCreds \in Stored /\ NoCreds \notin Creds
  BY NetTypes, CredsAssumption DEF NetInv, Stored
<1>2. /\ UNCHANGED <<connected, synced, bits, retry, tick, in_sntp, stored, cfg>>
  BY DEF ScanStarts, ScanEnds, OthersKept
<1>3. CASE ScanStarts
  <2> DEFINE w == [want EXCEPT !.sta = TRUE]
             added == ~want.sta
  <2>1. /\ server.at \in {"idle", "page"}
        /\ server' = [Unoccupied EXCEPT !.at = "scanning", !.added = added]
        /\ ApplyMode(w)
    BY <1>3 DEF ScanStarts
  <2>2. w \in Wants /\ w.sta /\ w.join = want.join /\ added \in BOOLEAN
        /\ (added <=> ~want.sta)
    BY <1>1 DEF Wants
  <2> HIDE DEF w, added
  <2>3. server' = [at |-> "scanning", tried |-> NoCreds, had |-> FALSE,
                   previous |-> NoCreds, added |-> added, ok |-> FALSE]
    BY <2>1 DEF Unoccupied
  <2>4. server' \in Serving /\ server'.at = "scanning" /\ server'.added = added
    BY <1>1, <2>2, <2>3 DEF Serving, Stages
  <2>5. want' = w
    BY <2>1 DEF ApplyMode
  <2>6. RequestOwes'
    BY <1>1, <1>2, <2>1, <2>2, <2>4, <2>5 DEF RequestOwes, Settled, Testing
  <2> QED
    BY <1>2, <2>1, <2>2, <2>4, <2>6, ModeStep
<1>4. CASE ScanEnds
  <2> DEFINE w == [want EXCEPT !.sta = @ /\ ~server.added]
  <2>1. /\ server.at = "scanning" /\ server' = Unoccupied /\ ApplyMode(w)
    BY <1>4 DEF ScanEnds
  <2>2. w \in Wants /\ w.sta = (want.sta /\ ~server.added) /\ w.join = want.join
    BY <1>1 DEF Wants
  <2> HIDE DEF w
  <2>3. server' \in Serving /\ server'.at = "idle"
    BY <1>1, <2>1 DEF Serving, Stages, Unoccupied
  <2>4. want' = w
    BY <2>1 DEF ApplyMode
  <2>5. want.join \in BOOLEAN
    BY <1>1 DEF Wants
  <2>6. RequestOwes'
    BY <1>1, <1>2, <2>1, <2>2, <2>3, <2>4, <2>5 DEF RequestOwes, Settled, Testing
  <2> QED
    BY <1>2, <2>1, <2>2, <2>3, <2>6, ModeStep
<1> QED
  BY <1>3, <1>4

\* wifi_post notes what there was before the test changes it.
LEMMA TryStep ==
  ASSUME NetInv, NEW creds \in Creds, TryCredentials(creds)
  PROVE  NetInv'
<1> DEFINE w == [want EXCEPT !.sta = TRUE, !.join = TRUE]
           had == want.join
<1>1. /\ want \in Wants /\ server \in Serving /\ stored \in Stored /\ RequestOwes
      /\ creds \in Stored
  BY NetTypes DEF NetInv, Stored
<1>2. /\ UNCHANGED <<connected, synced, bits, retry, tick, in_sntp, stored, cfg>>
      /\ server.at = "idle"
      /\ server' = [Unoccupied EXCEPT !.at = "leave", !.tried = creds,
                                      !.had = had, !.previous = stored]
      /\ ApplyMode(w)
  BY DEF TryCredentials, OthersKept
<1>3. w \in Wants /\ w.sta /\ w.join /\ had \in BOOLEAN
  BY <1>1 DEF Wants
<1>4. had <=> stored # NoCreds
  BY <1>1, <1>2 DEF RequestOwes, Settled
<1> HIDE DEF w, had
<1>5. server' = [at |-> "leave", tried |-> creds, had |-> had, previous |-> stored,
                 added |-> FALSE, ok |-> FALSE]
  BY <1>2 DEF Unoccupied
<1>6. /\ server' \in Serving /\ server'.at = "leave" /\ server'.had = had
      /\ server'.tried = creds
  BY <1>1, <1>3, <1>5 DEF Serving, Stages
<1>7. want' = w
  BY <1>2 DEF ApplyMode
<1>8. RequestOwes'
  BY <1>2, <1>3, <1>4, <1>6, <1>7 DEF RequestOwes, Settled, Testing
<1> QED
  BY <1>2, <1>3, <1>6, <1>8, ModeStep

\* A call of the server's task that leaves the mode alone.
LEMMA CallStep ==
  ASSUME NetInv, RequestOwes', server' \in Serving,
         UNCHANGED <<want, mode, connected, synced, retry, tick, in_sntp>>,
         bits' \subseteq {"GOT_IP", "STA_FAIL"}, stored' \in Stored, cfg' \in Stored,
         \/ UNCHANGED <<link, events>>
         \/ Connect /\ UNCHANGED events
         \/ Disconnect
  PROVE  NetInv'
<1>1. /\ link \in Links /\ events \in Seq(Happenings) /\ RadioFollows
      /\ Settles(connected, events, link) /\ want \in Wants
  BY NetTypes DEF NetInv
<1>2. /\ link' \in Links /\ events' \in Seq(Happenings)
      /\ link' # "idle" => link # "idle" \/ "STA" \in mode
      /\ Settles(connected, events', link')
  <2>1. CASE UNCHANGED <<link, events>>
    BY <1>1, <2>1
  <2>2. CASE Connect /\ UNCHANGED events
    <3>1. /\ link' \in Links
          /\ link' # "idle" => link # "idle" \/ "STA" \in mode
          /\ link = "joined" <=> link' = "joined"
      BY <1>1, <2>2, ConnectFacts
    <3> QED
      BY <1>1, <2>2, <3>1, SettlesWhenUnjoined
  <2>3. CASE Disconnect
    BY <2>3, DisconnectFacts DEF Links
  <2> QED
    BY <2>1, <2>2, <2>3
<1>3. RadioFollows'
  <2>1. "STA" \in mode <=> want.sta
    BY <1>1, WantedFacts DEF RadioFollows
  <2> QED
    BY <1>1, <1>2, <2>1 DEF RadioFollows
<1>4. NetTypeOK'
  BY <1>2 DEF NetInv, NetTypeOK, Links, Happenings
<1> QED
  BY <1>2, <1>3, <1>4 DEF NetInv

\* Within the test what was wanted before is remembered, and so is what is tested.
LEMMA TestingOwes ==
  ASSUME RequestOwes, server.at \in Testing, server'.at \in Testing,
         server'.had = server.had, server'.tried = server.tried,
         UNCHANGED <<want, stored>>
  PROVE  RequestOwes'
BY DEF RequestOwes, Testing, Settled

\* The calls of the test, but for the two that change the mode or end it.
LEMMA TestCallStep ==
  ASSUME NetInv,
         \/ TryLeaves \/ TryClears \/ TryConfigures \/ TryConnects
         \/ TryAnswered \/ TryTimesOut \/ TryLeavesAgain \/ TryPutsBack
  PROVE  NetInv'
<1>1. /\ server \in Serving /\ RequestOwes /\ bits \subseteq {"GOT_IP", "STA_FAIL"}
      /\ cfg \in Stored /\ stored \in Stored
      /\ server.tried \in Stored /\ server.previous \in Stored
  BY NetTypes DEF NetInv, Serving
<1>2. UNCHANGED <<want, stored, mode, connected, synced, retry, tick, in_sntp>>
  BY DEF TryLeaves, TryClears, TryConfigures, TryConnects, TryAnswered, TryTimesOut,
         TryLeavesAgain, TryPutsBack, OthersKept, driver
<1>3. /\ server.at \in Testing /\ server' \in Serving /\ server'.at \in Testing
      /\ server'.had = server.had /\ server'.tried = server.tried
  <2>1. CASE TryAnswered
    <3> DEFINE ok == "GOT_IP" \in bits
    <3>1. server.at = "wait" /\ server' = [server EXCEPT !.at = "leave again", !.ok = ok]
      BY <2>1 DEF TryAnswered
    <3>2. ok \in BOOLEAN
      OBVIOUS
    <3> HIDE DEF ok
    <3> QED
      BY <1>1, <3>1, <3>2 DEF Serving, Stages, Testing
  <2>2. CASE ~TryAnswered
    <3>1. \E from, to \in Testing : Goes(from, to)
      BY <2>2 DEF TryLeaves, TryClears, TryConfigures, TryConnects, TryTimesOut,
                  TryLeavesAgain, TryPutsBack, Testing
    <3>2. PICK from \in Testing, to \in Testing : Goes(from, to)
      BY <3>1
    <3>3. to \in Stages
      BY DEF Testing, Stages
    <3> QED
      BY <1>1, <3>2, <3>3, GoesFacts
  <2> QED
    BY <2>1, <2>2
<1>4. RequestOwes'
  BY <1>1, <1>2, <1>3, TestingOwes
<1>5. bits' \subseteq {"GOT_IP", "STA_FAIL"}
  BY <1>1 DEF TryLeaves, TryClears, TryConfigures, TryConnects, TryAnswered, TryTimesOut,
              TryLeavesAgain, TryPutsBack
<1>6. cfg' \in Stored
  BY <1>1 DEF TryLeaves, TryClears, TryConfigures, TryConnects, TryAnswered, TryTimesOut,
              TryLeavesAgain, TryPutsBack, driver
<1>7. \/ UNCHANGED <<link, events>>
      \/ Connect /\ UNCHANGED events
      \/ Disconnect
  BY DEF TryLeaves, TryClears, TryConfigures, TryConnects, TryAnswered, TryTimesOut,
         TryLeavesAgain, TryPutsBack, driver
<1> QED
  BY <1>1, <1>2, <1>3, <1>4, <1>5, <1>6, <1>7, CallStep

\* The test puts back what was wanted.
LEMMA WantsBackStep ==
  ASSUME NetInv, TryWantsBack
  PROVE  NetInv'
<1> DEFINE w == Before(want, server.had)
<1>1. want \in Wants /\ server \in Serving /\ RequestOwes /\ server.had \in BOOLEAN
  BY NetTypes DEF NetInv, Serving
<1>2. /\ Goes("want back", "rejoin") /\ ApplyMode(w)
      /\ UNCHANGED <<connected, synced, bits, retry, tick, in_sntp, stored, cfg>>
  BY DEF TryWantsBack, OthersKept
<1>3. w \in Wants /\ w.sta = server.had /\ w.join = server.had
  BY <1>1 DEF Before, Wants
<1>4. /\ server.at = "want back" /\ server' \in Serving /\ server'.at = "rejoin"
      /\ server'.tried = server.tried
  <2>1. "rejoin" \in Stages
    BY DEF Stages
  <2> QED
    BY <1>1, <1>2, <2>1, GoesFacts
<1> HIDE DEF w
<1>5. want' = w
  BY <1>2 DEF ApplyMode
<1>6. RequestOwes'
  BY <1>1, <1>2, <1>3, <1>4, <1>5 DEF RequestOwes, Settled, Testing
<1> QED
  BY <1>2, <1>3, <1>4, <1>6, ModeStep

\* Once the credentials are saved the station is to join with them.
LEMMA StaStartStep ==
  ASSUME NetInv, StaStart
  PROVE  NetInv'
<1> DEFINE w == [want EXCEPT !.sta = TRUE, !.join = TRUE]
<1>1. want \in Wants /\ server \in Serving /\ RequestOwes
  BY NetTypes DEF NetInv
<1>2. /\ Goes("start", "reconfigure") /\ ApplyMode(w)
      /\ UNCHANGED <<connected, synced, bits, retry, tick, in_sntp, stored, cfg>>
  BY DEF StaStart, OthersKept
<1>3. w \in Wants /\ w.sta = TRUE /\ w.join = TRUE
  BY <1>1 DEF Wants
<1>4. server.at = "start" /\ server' \in Serving /\ server'.at = "reconfigure"
  <2>1. "reconfigure" \in Stages
    BY DEF Stages
  <2> QED
    BY <1>1, <1>2, <2>1, GoesFacts
<1> HIDE DEF w
<1>5. want' = w
  BY <1>2 DEF ApplyMode
<1>6. RequestOwes'
  BY <1>1, <1>2, <1>3, <1>4, <1>5 DEF RequestOwes, Settled, Testing
<1> QED
  BY <1>2, <1>3, <1>4, <1>6, ModeStep

\* The rest of wifi_post: the test's last call, the write to NVS, and the two calls
\* that join with what was written.
LEMMA SaveStep ==
  ASSUME NetInv, TryRejoins \/ ProvNvsSave \/ StaConfigures \/ StaJoins
  PROVE  NetInv'
<1>1. /\ server \in Serving /\ RequestOwes /\ bits \subseteq {"GOT_IP", "STA_FAIL"}
      /\ cfg \in Stored /\ stored \in Stored /\ server.tried \in Stored
      /\ NoCreds \notin Creds
  BY NetTypes, CredsAssumption DEF NetInv, Serving
<1>2. UNCHANGED <<want, bits, mode, connected, synced, retry, tick, in_sntp>>
  BY DEF TryRejoins, ProvNvsSave, StaConfigures, StaJoins, OthersKept, driver
<1>3. /\ cfg' \in Stored /\ stored' \in Stored
      /\ \/ UNCHANGED <<link, events>>
         \/ Connect /\ UNCHANGED events
         \/ Disconnect
  BY <1>1 DEF TryRejoins, ProvNvsSave, StaConfigures, StaJoins, driver
<1>4. /\ server.at \in {"rejoin", "save", "reconfigure", "join"}
      /\ server' \in Serving /\ server'.tried = server.tried
      /\ \/ /\ server'.at \in {"save", "page", "join"} /\ stored' = stored
            /\ server'.at = "save" => server.at = "rejoin"
         \/ /\ server.at = "save" /\ server'.at = "start"
            /\ stored' = server.tried
  <2>1. \E from \in {"rejoin", "save", "reconfigure", "join"},
           to \in {"save", "page", "join", "start"} :
          /\ Goes(from, to)
          /\ \/ to # "start" /\ stored' = stored /\ (to = "save" => from = "rejoin")
             \/ from = "save" /\ to = "start" /\ stored' = server.tried
    BY DEF TryRejoins, ProvNvsSave, StaConfigures, StaJoins
  <2>2. PICK from \in {"rejoin", "save", "reconfigure", "join"},
             to \in {"save", "page", "join", "start"} :
          /\ Goes(from, to)
          /\ \/ to # "start" /\ stored' = stored /\ (to = "save" => from = "rejoin")
             \/ from = "save" /\ to = "start" /\ stored' = server.tried
    BY <2>1
  <2>3. to \in Stages
    BY DEF Stages
  <2>4. /\ server.at = from /\ server' \in Serving /\ server'.at = to
        /\ server'.tried = server.tried
    BY <1>1, <2>2, <2>3, GoesFacts
  <2> QED
    BY <2>2, <2>4
<1>5. RequestOwes'
  BY <1>1, <1>2, <1>4 DEF RequestOwes, Settled, Testing
<1> QED
  BY <1>2, <1>1, <1>3, <1>4, <1>5, CallStep

\* The boot.
LEMMA NetInvInit == NetInit => NetInv
<1> SUFFICES ASSUME NetInit PROVE NetInv
  OBVIOUS
<1>1. /\ stored \in Stored /\ NoCreds \in Stored
      /\ RetryFirst \in Nat /\ RetryMax \in Nat /\ RetryFirst >= 1 /\ RetryFirst <= RetryMax
  BY CredsAssumption, RetryAssumption DEF NetInit, Stored
<1> DEFINE up == stored # NoCreds
<1>2. /\ want = [sta |-> up, join |-> up, ap |-> FALSE] /\ mode = Wanted(want)
      /\ events = IF want.sta THEN <<"START">> ELSE <<>>
      /\ link = "idle" /\ connected = FALSE /\ cfg = stored /\ server = Unoccupied
  BY DEF NetInit
<1>3. up \in BOOLEAN /\ (up <=> stored # NoCreds)
  OBVIOUS
<1> HIDE DEF up
<1>4. want \in Wants /\ want.sta = up /\ want.join = up
  BY <1>2, <1>3 DEF Wants
<1>5. events \in Seq(Happenings) /\ \A k \in 1..Len(events) : events[k] = "START"
  <2>1. /\ <<"START">> \in Seq(Happenings) /\ Len(<<"START">>) = 1
        /\ <<"START">>[1] = "START"
    BY DEF Happenings
  <2>2. <<>> \in Seq(Happenings) /\ Len(<<>>) = 0
    OBVIOUS
  <2>3. CASE events = <<"START">>
    BY <2>1, <2>3
  <2>4. CASE events = <<>>
    BY <2>2, <2>4
  <2> QED
    BY <1>2, <2>3, <2>4
<1>6. NetRetryInit \in Retry
  BY <1>1 DEF NetRetryInit, Retry
<1>7. server \in Serving /\ server.at = "idle"
  BY <1>1, <1>2 DEF Unoccupied, Serving, Stages
<1>8. mode \subseteq {"STA", "AP"}
  BY <1>2, <1>4, WantedFacts
<1>9. NetTypeOK
  BY <1>1, <1>2, <1>4, <1>5, <1>6, <1>7, <1>8 DEF NetInit, NetTypeOK, Happenings
<1>10. RequestOwes
  BY <1>3, <1>4, <1>7 DEF RequestOwes, Settled, Testing
<1>11. Settles(connected, events, link)
  BY <1>2, <1>5 DEF Settles
<1> QED
  BY <1>2, <1>9, <1>10, <1>11 DEF NetInv, RadioFollows

\* Through every interleaving of the three tasks with the radio's events, the radio
\* runs what is wanted, the server's task remembers what it owes, and the flag will be
\* right: NetInv is inductive.
THEOREM NetSafe == NetSpec => []NetInv
<1>1. NetInit => NetInv
  BY NetInvInit
<1>2. ASSUME NetInv, [NetNext]_netVars PROVE NetInv'
  <2>1. CASE Joins \/ Loses
    BY <1>2, <2>1, LinkStep
  <2>2. CASE EventTask
    BY <1>2, <2>2, EventStep
  <2>3. CASE MainLoop \/ RetryElapses
    BY <1>2, <2>3, NetLoopStep
  <2>4. CASE Portals
    BY <1>2, <2>4, PortalStep DEF Portals, NetLinkApUp, NetLinkApDown
  <2>5. CASE ServerTask
    BY <1>2, <2>5, ScanStep, TestCallStep, WantsBackStep, StaStartStep, SaveStep
       DEF ServerTask, Test
  <2>6. ASSUME NEW creds \in Creds, TryCredentials(creds) PROVE NetInv'
    BY <1>2, <2>6, TryStep
  <2>7. CASE UNCHANGED netVars
    BY <1>2, <2>7 DEF netVars, driver, NetInv, NetTypeOK, RadioFollows, RequestOwes
  <2> QED
    BY <1>2, <2>1, <2>2, <2>3, <2>4, <2>5, <2>6, <2>7 DEF NetNext
<1> QED
  BY <1>1, <1>2, PTL DEF NetSpec

\* The variables of net_link and of the driver keep their types: the backoff stays
\* between its first delay and its ceiling.
THEOREM NetTypesHold == NetSpec => []NetTypeOK
<1>1. NetInv => NetTypeOK
  BY DEF NetInv
<1> QED
  BY <1>1, NetSafe, PTL

\* Between two requests the radio is what the stored credentials ask for, and once its
\* events are handled the flag is what the link is.
THEOREM RadioStaysInStep == NetSpec => []RadioInStep
<1>1. ASSUME NetInv PROVE RadioAsWanted
  <2>1. want \in Wants /\ RequestOwes /\ RadioFollows
    BY <1>1, NetTypes DEF NetInv
  <2> QED
    BY <2>1 DEF RadioAsWanted, RequestOwes, RadioFollows, Settled
<1>2. ASSUME NetInv PROVE FlagIsTrue
  <2> SUFFICES ASSUME events = <<>> PROVE connected <=> link = "joined"
    BY DEF FlagIsTrue
  <2>1. connected \in BOOLEAN /\ Settles(connected, events, link) /\ Len(events) = 0
    BY <1>2, NetTypes DEF NetInv
  <2> QED
    BY <2>1 DEF Settles
<1>3. NetInv => RadioInStep
  BY <1>1, <1>2 DEF RadioInStep
<1> QED
  BY <1>3, NetSafe, PTL
=============================================================================
