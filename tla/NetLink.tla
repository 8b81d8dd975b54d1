------------------------------ MODULE NetLink ------------------------------
(****************************************************************************)
(* net_link: one radio for the house network (the station) and the          *)
(* provisioning portal's access point, and the three tasks that reach it    *)
(* without a lock between them:                                             *)
(*                                                                          *)
(*  - the main loop raises and drops the access point and calls             *)
(*    net_link_tick, which retries the house network with a backoff;        *)
(*  - the web server's task scans, tests credentials against the real       *)
(*    network before it saves them, and joins for good once they are saved; *)
(*  - the event task runs on_wifi and on_ip for the events the driver       *)
(*    queues, in their order, and stays in on_ip while it waits for SNTP.   *)
(*                                                                          *)
(* A handler of the event task is one step: that task outranks the other    *)
(* two.  Every call those make to the driver is a step of its own.  The     *)
(* driver is external: it refuses a configuration while an attempt is in    *)
(* flight, does nothing for a connect while it is busy or joined, and       *)
(* reports every attempt that ends and every link that goes.  Errors of     *)
(* esp_wifi_init, set_mode and start are not modelled.                      *)
(****************************************************************************)
EXTENDS Integers, Sequences

CONSTANTS
  Creds,       \* the credentials an admin may type
  Works,       \* those the router takes, when it answers at all
  NoCreds,     \* nothing provisioned, or nothing configured
  RetryFirst,  \* NET_RETRY_FIRST_MS: 1 s
  RetryMax,    \* NET_RETRY_MAX_MS: 60 s
  MaxEvents    \* bound: events the driver may have queued

ASSUME CredsAssumption ==
  Works \subseteq Creds /\ NoCreds \notin Creds

ASSUME RetryAssumption ==
  {RetryFirst, RetryMax} \subseteq Nat \ {0} /\ RetryFirst <= RetryMax

ASSUME EventsAssumption == MaxEvents \in Nat \ {0}

VARIABLES
  want,       \* s_want_sta, s_want_join, s_want_ap
  connected,  \* s_sta_connected
  synced,     \* s_time_synced
  bits,       \* BIT_GOT_IP, BIT_STA_FAIL
  retry,      \* net_retry_t; due_in is next_try_ms less the clock, 0 once past
  tick,       \* whether net_link_tick is about to call esp_wifi_connect
  server,     \* what the server's task is doing, and its handler's locals
  stored,     \* the credentials in NVS
  mode,       \* driver: the interfaces it runs; {} is stopped
  cfg,        \* driver: the station's configuration
  link,       \* driver: the station's association
  events,     \* driver: the events not handled yet
  in_sntp     \* whether the event task is waiting for SNTP, in on_ip

driver == <<mode, cfg, link, events>>
netVars == <<want, connected, synced, bits, retry, tick, server, stored, driver,
             in_sntp>>

Stored == Creds \union {NoCreds}
Wants == [sta : BOOLEAN, join : BOOLEAN, ap : BOOLEAN]
Retry == [connected : BOOLEAN, delay : RetryFirst..RetryMax, due_in : 0..RetryMax]

Stages == {"idle", "scanning", "leave", "clear", "configure", "connect", "wait",
           "leave again", "put back", "want back", "rejoin", "save", "start",
           "reconfigure", "join", "page"}

\* had and previous: the locals of net_link_try_credentials; tried: its argument.
Serving == [at : Stages, tried : Stored, had : BOOLEAN, previous : Stored,
            added : BOOLEAN, ok : BOOLEAN]

Unoccupied ==
  [at |-> "idle", tried |-> NoCreds, had |-> FALSE, previous |-> NoCreds,
   added |-> FALSE, ok |-> FALSE]

NetTypeOK ==
  /\ want \in Wants
  /\ {connected, synced, tick, in_sntp} \subseteq BOOLEAN
  /\ bits \subseteq {"GOT_IP", "STA_FAIL"}
  /\ retry \in Retry
  /\ server \in Serving
  /\ {stored, cfg} \subseteq Stored
  /\ mode \subseteq {"STA", "AP"}
  /\ link \in {"idle", "connecting", "joined"}
  /\ events \in Seq({"START", "LOST", "IP"})

-----------------------------------------------------------------------------
(* net_retry *)

NetRetryInit == [connected |-> FALSE, delay |-> RetryFirst, due_in |-> 0]

NetRetryDue == ~retry.connected /\ retry.due_in = 0

\* Mutant of NetRetryFailed: the delay doubles without its ceiling.
NetRetryFailedForever(r) ==
  [connected |-> FALSE, due_in |-> r.delay, delay |-> 2 * r.delay]

NetRetryFailed(r) ==
  [connected |-> FALSE, due_in |-> r.delay,
   delay |-> IF 2 * r.delay > RetryMax THEN RetryMax ELSE 2 * r.delay]

NetRetryConnected(r) == [r EXCEPT !.connected = TRUE, !.delay = RetryFirst]

\* Mutant of NetRetryDisconnected: the next try is set, the flag is not.
NetRetryDisconnectedHalf(r) == [r EXCEPT !.delay = RetryFirst, !.due_in = 0]

NetRetryDisconnected(r) == NetRetryInit

-----------------------------------------------------------------------------
(* The driver's calls.  Room keeps the queue within its bound: the driver   *)
(* waits for the event task before it does what it would have to report.    *)

Room == Len(events) < MaxEvents

\* The interfaces apply_mode asks for.
Wanted(w) == (IF w.sta THEN {"STA"} ELSE {}) \union (IF w.ap THEN {"AP"} ELSE {})

\* apply_mode, and ensure_started where it follows: the station's interface may
\* come up, which is an event, or go, and its association with it.
ApplyMode(w) ==
  /\ Room
  /\ want' = w
  /\ mode' = Wanted(w)
  /\ IF "STA" \in mode' \ mode
     THEN events' = Append(events, "START") /\ UNCHANGED link
     ELSE IF "STA" \in mode \ mode' /\ link # "idle"
     THEN events' = Append(events, "LOST") /\ link' = "idle"
     ELSE UNCHANGED <<events, link>>

\* esp_wifi_connect.
Connect == link' = IF "STA" \in mode /\ link = "idle" THEN "connecting" ELSE link

\* esp_wifi_disconnect: the event comes later.
Disconnect ==
  /\ Room
  /\ link' = "idle"
  /\ events' = IF link = "idle" THEN events ELSE Append(events, "LOST")

\* sta_configure: refused while an attempt is in flight.
Configurable == link # "connecting"

Joins ==
  /\ link = "connecting" /\ cfg \in Works
  /\ Room
  /\ link' = "joined"
  /\ events' = Append(events, "IP")
  /\ UNCHANGED <<want, connected, synced, bits, retry, tick, server, stored, mode,
                 cfg, in_sntp>>

\* An attempt fails, or the router goes away.
Loses ==
  /\ link # "idle"
  /\ Room
  /\ link' = "idle"
  /\ events' = Append(events, "LOST")
  /\ UNCHANGED <<want, connected, synced, bits, retry, tick, server, stored, mode,
                 cfg, in_sntp>>

-----------------------------------------------------------------------------
(* The event task *)

Handles(event) ==
  /\ ~in_sntp
  /\ events # <<>> /\ Head(events) = event
  /\ events' = Tail(events)
  /\ UNCHANGED <<want, tick, server, stored, mode, cfg>>

OnStart ==
  /\ Handles("START")
  /\ IF want.join THEN Connect ELSE UNCHANGED link
  /\ UNCHANGED <<connected, synced, bits, retry, in_sntp>>

\* Mutant of LinkLost: an event we asked for is not looked at.
LinkLostUnlessAsked ==
  /\ bits' = bits \union {"STA_FAIL"}
  /\ IF want.join
     THEN /\ connected' = FALSE
          /\ retry' = IF connected THEN NetRetryDisconnected(retry)
                      ELSE NetRetryFailed(retry)
     ELSE UNCHANGED <<connected, retry>>

\* A link that was up is tried again at once; an attempt that failed backs off.
LinkLost ==
  /\ bits' = bits \union {"STA_FAIL"}
  /\ connected' = FALSE
  /\ retry' = IF ~want.join THEN retry
              ELSE IF connected THEN NetRetryDisconnected(retry)
              ELSE NetRetryFailed(retry)

OnLost == Handles("LOST") /\ LinkLost /\ UNCHANGED <<synced, in_sntp, link>>

\* on_ip, up to start_sntp, which is for once a boot.
OnIp ==
  /\ Handles("IP")
  /\ connected' = TRUE
  /\ retry' = NetRetryConnected(retry)
  /\ bits' = bits \union {"GOT_IP"}
  /\ in_sntp' = ~synced
  /\ UNCHANGED <<synced, link>>

\* An answer, or none within ten seconds.
SntpEnds ==
  /\ in_sntp
  /\ in_sntp' = FALSE
  /\ synced' \in BOOLEAN
  /\ UNCHANGED <<want, connected, bits, retry, tick, server, stored, driver>>

-----------------------------------------------------------------------------
(* The main loop *)

NetLinkTick ==
  /\ ~tick
  /\ want.join /\ ~connected
  /\ NetRetryDue
  /\ retry' = NetRetryFailed(retry)
  /\ tick' = TRUE
  /\ UNCHANGED <<want, connected, synced, bits, server, stored, driver, in_sntp>>

TickConnects ==
  /\ tick
  /\ tick' = FALSE
  /\ Connect
  /\ UNCHANGED <<want, connected, synced, bits, retry, server, stored, mode, cfg,
                 events, in_sntp>>

\* prov_ap_start raises the interface before the server runs, prov_ap_stop drops
\* it when httpd_stop has waited for the handler.
Portal(up) ==
  /\ ~tick
  /\ server = Unoccupied
  /\ want.ap = ~up
  /\ ApplyMode([want EXCEPT !.ap = up])
  /\ UNCHANGED <<connected, synced, bits, retry, tick, server, stored, cfg, in_sntp>>

NetLinkApUp == Portal(TRUE)
NetLinkApDown == Portal(FALSE)

\* The clock moves on by one.
RetryElapses ==
  /\ retry.due_in > 0
  /\ retry' = [retry EXCEPT !.due_in = @ - 1]
  /\ UNCHANGED <<want, connected, synced, bits, tick, server, stored, driver, in_sntp>>

-----------------------------------------------------------------------------
(* The server's task.  It leaves bits alone, but for the test's.            *)

Goes(from, to) == server.at = from /\ server' = [server EXCEPT !.at = to]

OthersKept == UNCHANGED <<connected, synced, retry, tick, in_sntp>>

\* wifi_get, and the page that ends wifi_post: a scan needs the interface.
ScanStarts ==
  /\ want.ap
  /\ server.at \in {"idle", "page"}
  /\ server' = [Unoccupied EXCEPT !.at = "scanning", !.added = ~want.sta]
  /\ ApplyMode([want EXCEPT !.sta = TRUE])
  /\ OthersKept /\ UNCHANGED <<bits, stored, cfg>>

ScanEnds ==
  /\ server.at = "scanning"
  /\ server' = Unoccupied
  /\ ApplyMode([want EXCEPT !.sta = @ /\ ~server.added])
  /\ OthersKept /\ UNCHANGED <<bits, stored, cfg>>

\* wifi_post reaches net_link_try_credentials.
TryCredentials(creds) ==
  /\ want.ap
  /\ server.at = "idle"
  /\ server' = [Unoccupied EXCEPT !.at = "leave", !.tried = creds,
                                !.had = want.join, !.previous = stored]
  /\ ApplyMode([want EXCEPT !.sta = TRUE, !.join = TRUE])
  /\ OthersKept /\ UNCHANGED <<bits, stored, cfg>>

TryLeaves ==
  /\ Goes("leave", "clear")
  /\ Disconnect
  /\ OthersKept /\ UNCHANGED <<want, bits, stored, mode, cfg>>

TryClears ==
  /\ Goes("clear", "configure")
  /\ bits' = {}
  /\ OthersKept /\ UNCHANGED <<want, stored, driver>>

TryConfigures ==
  /\ IF Configurable
     THEN Goes("configure", "connect") /\ cfg' = server.tried
     ELSE Goes("configure", "leave again") /\ UNCHANGED cfg
  /\ OthersKept /\ UNCHANGED <<want, bits, stored, mode, link, events>>

\* Refused where the driver is at it already.
TryConnects ==
  /\ \/ Goes("connect", "wait") /\ Connect
     \/ Goes("connect", "leave again") /\ link # "idle" /\ UNCHANGED link
  /\ OthersKept /\ UNCHANGED <<want, bits, stored, mode, cfg, events>>

\* The wait ends with the first bit, which it clears, or with the timeout.
TryAnswered ==
  /\ server.at = "wait" /\ bits # {}
  /\ server' = [server EXCEPT !.at = "leave again", !.ok = "GOT_IP" \in bits]
  /\ bits' = {}
  /\ OthersKept /\ UNCHANGED <<want, stored, driver>>

TryTimesOut ==
  /\ Goes("wait", "leave again")
  /\ bits = {}
  /\ OthersKept /\ UNCHANGED <<want, bits, stored, driver>>

TryLeavesAgain ==
  /\ Goes("leave again", "put back")
  /\ Disconnect
  /\ OthersKept /\ UNCHANGED <<want, bits, stored, mode, cfg>>

\* The result of this configuration is not looked at.
TryPutsBack ==
  /\ Goes("put back", "want back")
  /\ cfg' = IF server.previous # NoCreds /\ Configurable THEN server.previous ELSE cfg
  /\ OthersKept /\ UNCHANGED <<want, bits, stored, mode, link, events>>

\* Mutant of Before: the wish to join survives the test.
BeforeButJoin(w, had) == [w EXCEPT !.sta = had]

\* had_sta and had_join: the two differ during a scan only, which is this task's.
Before(w, had) == [w EXCEPT !.sta = had, !.join = had]

TryWantsBack ==
  /\ Goes("want back", "rejoin")
  /\ ApplyMode(Before(want, server.had))
  /\ OthersKept /\ UNCHANGED <<bits, stored, cfg>>

TryRejoins ==
  /\ Goes("rejoin", IF server.ok THEN "save" ELSE "page")
  /\ IF server.had THEN Connect ELSE UNCHANGED link
  /\ OthersKept /\ UNCHANGED <<want, bits, stored, mode, cfg, events>>

ProvNvsSave ==
  /\ \/ Goes("save", "start") /\ stored' = server.tried
     \/ Goes("save", "page") /\ UNCHANGED stored
  /\ OthersKept /\ UNCHANGED <<want, bits, driver>>

\* net_link_sta_start: the portal is up, so the driver runs already.
StaStart ==
  /\ Goes("start", "reconfigure")
  /\ ApplyMode([want EXCEPT !.sta = TRUE, !.join = TRUE])
  /\ OthersKept /\ UNCHANGED <<bits, stored, cfg>>

StaConfigures ==
  /\ IF Configurable
     THEN Goes("reconfigure", "join") /\ cfg' = stored
     ELSE Goes("reconfigure", "page") /\ UNCHANGED cfg
  /\ OthersKept /\ UNCHANGED <<want, bits, stored, mode, link, events>>

StaJoins ==
  /\ Goes("join", "page")
  /\ Connect
  /\ OthersKept /\ UNCHANGED <<want, bits, stored, mode, cfg, events>>

-----------------------------------------------------------------------------

\* net_link_init and the boot's net_link_sta_start: without credentials the radio
\* stays off; with them esp_wifi_start is done and its event on the way.
NetInit ==
  /\ stored \in Works \union {NoCreds}
  /\ cfg = stored
  /\ want = [sta |-> stored # NoCreds, join |-> stored # NoCreds, ap |-> FALSE]
  /\ mode = Wanted(want)
  /\ events = IF want.sta THEN <<"START">> ELSE <<>>
  /\ link = "idle"
  /\ connected = FALSE
  /\ synced = FALSE
  /\ bits = {}
  /\ retry = NetRetryInit
  /\ tick = FALSE
  /\ server = Unoccupied
  /\ in_sntp = FALSE

EventTask == OnStart \/ OnLost \/ OnIp \/ SntpEnds

MainLoop == NetLinkTick \/ TickConnects

Portals == NetLinkApUp \/ NetLinkApDown

Test ==
  \/ TryLeaves \/ TryClears \/ TryConfigures \/ TryConnects
  \/ TryAnswered \/ TryTimesOut \/ TryLeavesAgain \/ TryPutsBack
  \/ TryWantsBack \/ TryRejoins

ServerTask ==
  \/ ScanStarts \/ ScanEnds
  \/ Test
  \/ ProvNvsSave \/ StaStart \/ StaConfigures \/ StaJoins

NetNext ==
  \/ Joins \/ Loses
  \/ EventTask
  \/ MainLoop
  \/ Portals
  \/ ServerTask
  \/ \E creds \in Creds : TryCredentials(creds)
  \/ RetryElapses

NetSpec == NetInit /\ [][NetNext]_netVars

\* Every task gets to run and time passes; a wait ends, by its timeout at the
\* latest.  The router may refuse and drop the link as often as it likes, but not
\* every attempt from some point on.  Nobody has to press or post anything.
NetFairness ==
  /\ WF_netVars(EventTask)
  /\ WF_netVars(MainLoop)
  /\ WF_netVars(ServerTask /\ server # Unoccupied)
  /\ WF_netVars(RetryElapses)
  /\ SF_netVars(Joins)

NetFairSpec == NetSpec /\ NetFairness

-----------------------------------------------------------------------------
(* Safety *)

\* Between two requests the radio does what is wanted and no more: it wants the
\* house network exactly when credentials are stored, runs the interfaces wanted,
\* and joins nothing without them - an unprovisioned gate nobody pressed the button
\* on transmits nothing.  net_link_try_credentials and net_link_scan change what is
\* wanted and have to put it back while the retry and the events go on around them.
RadioAsWanted ==
  server.at = "idle" =>
    /\ mode = Wanted(want)
    /\ want.sta = want.join
    /\ want.join <=> stored # NoCreds
    /\ ~want.join => link = "idle"

\* Once its events are handled, the flag the pollers ask (net_link_sta_connected)
\* says what the link is, also after a test that asked for the loss it sees: on_wifi
\* drops the flag before it looks at whether the loss was wanted.
FlagIsTrue ==
  (events = <<>> /\ ~in_sntp) => (connected <=> link = "joined")

\* What is wanted, what the driver does and what the flag says agree.
RadioInStep == RadioAsWanted /\ FlagIsTrue

(* Liveness *)

\* The gate's place is on the house network, and nobody is using the portal.
ShouldBeOnline == want.join /\ cfg \in Works /\ server = Unoccupied

\* net_retry never gives up: however often the router refuses or drops the link, the
\* gate is online again and again - no drop, no event that comes late, no test of
\* other credentials leaves it waiting for a retry that is never due.  That the
\* station still holds credentials that work is assumed: TryPutsBack may fail.
ComesBack == <>[]ShouldBeOnline => []<>connected

============================================================================
