---------------------------- MODULE Provisioning ----------------------------
(***************************************************************************)
(* components/wifi_prov: the session rules of prov_logic, as two tasks     *)
(* drive them without a lock.  The main loop polls the button and the      *)
(* clock in wifi_prov_tick, and starts and stops the portal; the one task  *)
(* of the HTTP server runs the handlers, one request at a time.  Stopping  *)
(* the server waits for the handler in progress, so the main loop may wait *)
(* for it ("stopping"); starting it is a step of its own because a server  *)
(* left running serves requests while prov_button is still at work         *)
(* ("opening").                                                            *)
(*                                                                         *)
(* One unit of time is longer than an iteration of the main loop, and the  *)
(* clock is a 32-bit reading that wraps.  `hist` is history, read by no    *)
(* action.                                                                 *)
(***************************************************************************)
EXTENDS Millis, FiniteSets

CONSTANTS
  Clients,           \* browsers that reach the portal
  NoClient,
  HoldMs,            \* PROV_HOLD_MS
  SessionMs,         \* PROV_SESSION_MS
  VerifyMs,          \* PROV_VERIFY_MS
  MaxLoginFailures   \* PROV_MAX_LOGIN_FAILURES

ASSUME ProvAssumption ==
  /\ {HoldMs, SessionMs, VerifyMs, MaxLoginFailures} \subseteq Nat \ {0}
  /\ HoldMs < Wrap /\ SessionMs < Wrap
  /\ NoClient \notin Clients

VARIABLES
  prov,     \* s_ctx
  ap,       \* s_running of prov_ap: radio, DNS and server are up
  finish,   \* s_finish_requested
  sid,      \* s_sid: the client whose cookie is valid
  dev,      \* the code table holds a transient code
  loop,     \* where the main loop is
  http,     \* the handler in progress
  now,      \* the millisecond reading
  ticked,   \* wifi_prov_tick has run in this unit of time
  hist

vars == <<prov, ap, finish, sid, dev, loop, http, now, ticked, hist>>

ProvInit ==
  [state |-> "CLOSED", button_down |-> FALSE, button_consumed |-> FALSE,
   button_down_ms |-> 0, opened_ms |-> 0, authenticated |-> FALSE,
   login_failures |-> 0]

Ctx ==
  [state : {"CLOSED", "OPEN"}, button_down : BOOLEAN, button_consumed : BOOLEAN,
   button_down_ms : Reading, opened_ms : Reading, authenticated : BOOLEAN,
   login_failures : 0..MaxLoginFailures]

Idle == [at |-> "idle", client |-> NoClient, ok |-> FALSE, left |-> 0]

Handler ==
  [at : {"idle", "login", "reply", "finish", "verify"},
   client : Clients \union {NoClient}, ok : BOOLEAN, left : 0..VerifyMs]

\* age: time since the session opened; proved: who logged in since then;
\* asked: an admin of this session asked to finish it; held: how long the
\* button has been seen down; spent: this press has opened a session.
NoHistory == [age |-> 0, proved |-> {}, asked |-> FALSE, held |-> 0,
              spent |-> FALSE]

History == [age : 0..SessionMs, proved : SUBSET Clients, asked : BOOLEAN,
            held : 0..HoldMs, spent : BOOLEAN]

TypeOK ==
  /\ prov \in Ctx
  /\ ap \in BOOLEAN /\ finish \in BOOLEAN /\ dev \in BOOLEAN
  /\ sid \in Clients \union {NoClient}
  /\ loop \in {"run", "opening", "stopping"}
  /\ http \in Handler
  /\ now \in Reading
  /\ ticked \in BOOLEAN
  /\ hist \in History

Init ==
  /\ prov = ProvInit
  /\ ap = FALSE /\ finish = FALSE /\ dev = FALSE /\ ticked = FALSE
  /\ sid = NoClient
  /\ loop = "run"
  /\ http = Idle
  /\ now \in Reading
  /\ hist = NoHistory

Open == prov.state = "OPEN"

-----------------------------------------------------------------------------
(* prov_logic *)

CloseSession(p) ==
  IF p.state = "OPEN"
  THEN [p EXCEPT !.state = "CLOSED", !.authenticated = FALSE,
                 !.login_failures = 0, !.opened_ms = 0]
  ELSE p

\* Mutant of HoldCompletes: a press opens a session whenever it is long enough.
HoldCompletesAgain(p, down) ==
  down /\ p.button_down /\ p.state # "OPEN" /\ Elapsed(now, p.button_down_ms, HoldMs)

\* The scan that completes the hold of a press that has opened no session.
HoldCompletes(p, down) ==
  /\ down /\ p.button_down
  /\ ~p.button_consumed
  /\ p.state # "OPEN"
  /\ Elapsed(now, p.button_down_ms, HoldMs)

\* prov_button, but for what a completed hold does to the session.
ProvButton(p, down) ==
  CASE ~down -> [p EXCEPT !.button_down = FALSE, !.button_consumed = FALSE]
    [] down /\ ~p.button_down ->
         [p EXCEPT !.button_down = TRUE, !.button_down_ms = now]
    [] HoldCompletes(p, down) ->
         [p EXCEPT !.button_consumed = TRUE, !.state = "OPEN", !.opened_ms = now]
    [] OTHER -> p

SessionExpired(p) == p.state = "OPEN" /\ Elapsed(now, p.opened_ms, SessionMs)

-----------------------------------------------------------------------------
(* The main loop *)

\* What the history learns from one scan of the button.
Scanned(down) ==
  [hist EXCEPT !.held = IF down /\ prov.button_down THEN @ ELSE 0,
               !.spent = down /\ @]

\* prov_ap_stop() waits until the handler in progress has returned.
StartStopping == loop' = "stopping" /\ UNCHANGED <<ap, sid, dev, http>>

\* wifi_prov_tick, and the finish request is for an open session.
TickFinishes ==
  /\ finish /\ Open
  /\ finish' = FALSE
  /\ prov' = CloseSession(prov)
  /\ StartStopping /\ UNCHANGED hist

\* Mutant of FinishServed: a request is kept until it closes a session.
FinishServedLater == ~(finish /\ Open) /\ finish' = finish

\* Otherwise the request is dropped, before the button is read.
FinishServed == ~(finish /\ Open) /\ finish' = FALSE

\* The hold completes: prov_button is at work on the session.
TickOpens(down) ==
  /\ FinishServed
  /\ HoldCompletes(prov, down)
  /\ prov' = ProvButton(prov, down)
  /\ loop' = "opening"
  /\ hist' = [Scanned(down) EXCEPT !.age = 0, !.proved = {}, !.asked = FALSE,
                                   !.spent = TRUE]
  /\ UNCHANGED <<ap, sid, dev, http>>

\* The session times out.
TickCloses(down) ==
  /\ FinishServed
  /\ ~HoldCompletes(prov, down)
  /\ SessionExpired(prov)
  /\ prov' = CloseSession(ProvButton(prov, down))
  /\ hist' = Scanned(down)
  /\ StartStopping

TickIdles(down) ==
  /\ FinishServed
  /\ ~HoldCompletes(prov, down)
  /\ ~SessionExpired(prov)
  /\ prov' = ProvButton(prov, down)
  /\ hist' = Scanned(down)
  /\ UNCHANGED <<ap, sid, dev, loop, http>>

Tick ==
  /\ loop = "run"
  /\ ticked' = TRUE
  /\ \/ TickFinishes
     \/ \E down \in BOOLEAN : TickOpens(down) \/ TickCloses(down) \/ TickIdles(down)
  /\ UNCHANGED now

\* prov_button returns OPEN_AP and prov_ap_start runs.  A portal that is still
\* up is used as it is; otherwise it starts with no cookie, or fails, and
\* the session is closed again.
OpenPortal ==
  /\ loop = "opening"
  /\ loop' = "run"
  /\ LET fresh == [prov EXCEPT !.authenticated = FALSE, !.login_failures = 0]
     IN  \/ ap /\ prov' = fresh /\ UNCHANGED <<ap, sid>>
         \/ ~ap /\ prov' = fresh /\ ap' = TRUE /\ sid' = NoClient
         \/ ~ap /\ prov' = CloseSession(fresh) /\ UNCHANGED <<ap, sid>>
  /\ UNCHANGED <<finish, dev, http, now, ticked, hist>>

\* No handler is in progress: the portal goes down, and app_main revokes the
\* dev codes on WIFI_PROV_EVT_CLOSED.
PortalStopped ==
  /\ loop = "stopping"
  /\ http = Idle
  /\ loop' = "run"
  /\ ap' = FALSE
  /\ sid' = NoClient
  /\ dev' = FALSE
  /\ UNCHANGED <<prov, finish, http, now, ticked, hist>>

-----------------------------------------------------------------------------
(* The HTTP server's task *)

\* A request reaches a handler.  (httpd_stop ends the accepting of requests
\* before it waits.)
Request == ap /\ loop # "stopping" /\ http = Idle

Authenticated(c) == Open /\ prov.authenticated /\ sid = c

\* login_post reads the form; prov_login sees the session open.
LoginPost(c, ok) ==
  /\ Request
  /\ Open
  /\ http' = [Idle EXCEPT !.at = "login", !.client = c, !.ok = ok]
  /\ UNCHANGED <<prov, ap, finish, sid, dev, loop, now, ticked, hist>>

\* Mutant of LoginSucceeds: activity extends the session.
LoginSucceedsExtends ==
  /\ http.at = "login" /\ http.ok
  /\ prov' = [prov EXCEPT !.authenticated = TRUE, !.login_failures = 0,
                          !.opened_ms = now]
  /\ http' = [http EXCEPT !.at = "reply"]
  /\ hist' = [hist EXCEPT !.proved = @ \union {http.client}]
  /\ UNCHANGED <<ap, finish, sid, dev, loop, now, ticked>>

\* The rest of prov_login, whatever the main loop did to the session since.
LoginSucceeds ==
  /\ http.at = "login" /\ http.ok
  /\ prov' = [prov EXCEPT !.authenticated = TRUE, !.login_failures = 0]
  /\ http' = [http EXCEPT !.at = "reply"]
  /\ hist' = [hist EXCEPT !.proved = @ \union {http.client}]
  /\ UNCHANGED <<ap, finish, sid, dev, loop, now, ticked>>

\* Mutant of LoginFails: no number of failures ends the session.
LoginFailsForever ==
  /\ http.at = "login" /\ ~http.ok
  /\ prov' = [prov EXCEPT !.login_failures = @ + 1]
  /\ http' = Idle
  /\ UNCHANGED <<ap, finish, sid, dev, loop, now, ticked, hist>>

LoginFails ==
  /\ http.at = "login" /\ ~http.ok
  /\ LET n == [prov EXCEPT !.login_failures = @ + 1]
     IN  prov' = IF n.login_failures >= MaxLoginFailures THEN CloseSession(n) ELSE n
  /\ http' = Idle
  /\ UNCHANGED <<ap, finish, sid, dev, loop, now, ticked, hist>>

\* Mutant of LoginReply: a cookie that exists is sent again.
LoginReplyOldSid ==
  /\ http.at = "reply"
  /\ sid' = IF sid = NoClient THEN http.client ELSE sid
  /\ http' = Idle
  /\ UNCHANGED <<prov, ap, finish, dev, loop, now, ticked, hist>>

\* new_sid: a fresh cookie, known to this client only.
LoginReply ==
  /\ http.at = "reply"
  /\ sid' = http.client
  /\ http' = Idle
  /\ UNCHANGED <<prov, ap, finish, dev, loop, now, ticked, hist>>

\* logout_get, which anybody may call.
LogoutGet ==
  /\ Request
  /\ prov' = [prov EXCEPT !.authenticated = @ /\ ~Open]
  /\ sid' = NoClient
  /\ UNCHANGED <<ap, finish, dev, loop, http, now, ticked, hist>>

\* finish_get checks the client, answers, ...
FinishGet(c) ==
  /\ Request
  /\ Authenticated(c)
  /\ http' = [Idle EXCEPT !.at = "finish", !.client = c]
  /\ hist' = [hist EXCEPT !.asked = TRUE]
  /\ UNCHANGED <<prov, ap, finish, sid, dev, loop, now, ticked>>

\* Mutant of FinishRequested: the handler tears the portal down, and waits
\* for itself.
FinishRequestedHere ==
  /\ http.at = "finish"
  /\ prov' = CloseSession(prov)
  /\ UNCHANGED <<ap, finish, http, sid, dev, loop, now, ticked, hist>>

\* ... and only then raises the flag.
FinishRequested ==
  /\ http.at = "finish"
  /\ finish' = TRUE
  /\ http' = Idle
  /\ UNCHANGED <<prov, ap, sid, dev, loop, now, ticked, hist>>

\* wifi_post verifies the credentials it was sent, for up to VerifyMs.
WifiPost(c) ==
  /\ Request
  /\ Authenticated(c)
  /\ http' = [Idle EXCEPT !.at = "verify", !.client = c, !.left = VerifyMs]
  /\ UNCHANGED <<prov, ap, finish, sid, dev, loop, now, ticked, hist>>

WifiPostDone ==
  /\ http.at = "verify"
  /\ http' = Idle
  /\ UNCHANGED <<prov, ap, finish, sid, dev, loop, now, ticked, hist>>

-----------------------------------------------------------------------------
\* The dev console's `code add`, under the mutex the main loop holds
\* while it is not between two iterations.
DevCodeAdded ==
  /\ loop = "run"
  /\ dev' = TRUE
  /\ UNCHANGED <<prov, ap, finish, sid, loop, http, now, ticked, hist>>

\* Time passes: while the loop comes round, or waits for the server.
Elapse ==
  /\ (loop = "run" /\ ticked) \/ loop = "stopping"
  /\ http.at = "verify" => http.left > 0
  /\ now' = (now + 1) % Wrap
  /\ ticked' = FALSE
  /\ http' = [http EXCEPT !.left = IF @ > 0 THEN @ - 1 ELSE 0]
  /\ hist' = [hist EXCEPT !.age = IF Open /\ @ < SessionMs THEN @ + 1 ELSE @,
                          !.held = IF prov.button_down /\ @ < HoldMs THEN @ + 1 ELSE @]
  /\ UNCHANGED <<prov, ap, finish, sid, dev, loop>>

HandlerStep ==
  LoginSucceeds \/ LoginFails \/ LoginReply \/ FinishRequested \/ WifiPostDone

LoopStep == Tick \/ OpenPortal \/ PortalStopped

Next ==
  \/ LoopStep
  \/ HandlerStep
  \/ \E c \in Clients, ok \in BOOLEAN : LoginPost(c, ok)
  \/ \E c \in Clients : FinishGet(c) \/ WifiPost(c)
  \/ LogoutGet
  \/ DevCodeAdded
  \/ Elapse

Spec == Init /\ [][Next]_vars

\* The two tasks run and time passes; requests and presses need not come.
FairSpec ==
  Spec /\ WF_vars(LoopStep) /\ WF_vars(HandlerStep) /\ WF_vars(Elapse)

-----------------------------------------------------------------------------
\* Five minutes after the hold the session is over, whatever the clients did
\* meanwhile and wherever the clock wraps (prov_tick; ADR 0006: activity does
\* not extend a session).
SessionCapped == Open /\ ticked /\ loop = "run" => hist.age < SessionMs

\* A request is served as authenticated only to a client that has logged in
\* since this session opened: no login, cookie or race with a session that
\* ends carries over, even when the server of the last session is still up.
ServedOnlyAfterLogin ==
  \A c \in Clients : http = Idle /\ Authenticated(c) => c \in hist.proved

\* A session opens only by a press held for HoldMs, and no press opens two.
OneSessionPerPress ==
  ~Open /\ prov'.state = "OPEN" => hist.held >= HoldMs /\ ~hist.spent

\* A session that has not timed out ends only by its own admin's request, by
\* its own failed logins or because the radio did not start: a request to
\* finish an earlier session, raised late, never ends this one.
EndsForItsOwnReasons ==
  Open /\ prov'.state = "CLOSED" =>
    \/ hist.age >= SessionMs
    \/ hist.asked
    \/ http.at = "login" /\ ~http.ok /\ prov.login_failures + 1 >= MaxLoginFailures
    \/ loop = "opening"

\* Sessions begin and end for their own reasons only (prov_button, prov_tick,
\* prov_login, prov_session_finish), whatever the two tasks do in between.
SessionsAreOwned == [][OneSessionPerPress /\ EndsForItsOwnReasons]_vars

\* The main loop always comes back from stopping the server: no handler waits
\* for the loop that waits for it (wifi_prov.c on prov_session_finish).
LoopComesBack == loop = "stopping" ~> loop = "run"

\* prov_logic.h on prov_login: "Too many failures close the session, which the
\* caller sees on the next prov_tick", where CLOSE_AP means to stop the AP and
\* to revoke every dev code.
ClosedSessionIsSeen ==
  [][ ap /\ ~Open /\ loop = "run" /\ ~ticked /\ ticked'
      => loop' # "run" \/ ~ap' ]_vars
=============================================================================
