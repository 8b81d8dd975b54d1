# Formal models of the gate controller

TLA+ models of the ESP32-S3 gate controller in `firmware/`: what was modelled,
what TLC checks on small instances, what TLAPS proves for every value of the
constants, and what is left.

## 1. The system

The controller opens a gate for a nine-character code typed on a keypad. It
validates codes offline against a table of five slots, keeps a counter of wrong
codes that survives power cuts, learns codes from a backend by polling (and,
faster, from a Telegram bot), and is configured through a Wi-Fi portal that a
button opens. It is one C program of several FreeRTOS tasks:

| task | runs | shares |
|---|---|---|
| main loop (`app_main`) | every 20 ms, with `s_mutex` for the whole iteration: keys, tick, lock, portal, LED | everything below |
| keypad task | scans the matrix, posts events to a queue of 8 | the queue |
| sync task | polls the backend over HTTPS | table and `s_sync`, under the mutex, in short sections |
| Telegram task | long-polls the bot | table, under the mutex |
| console task | commands of a developer on USB | table and trust flag, under the mutex; `do_sync`'s buffer without it |
| HTTP server's task | the portal's pages | the portal's session, **without** a lock |
| event task | Wi-Fi, IP and SNTP events | `net_link`'s flags, system clock, RTC, without a lock |

The main loop feeds the task watchdog; ten seconds without it reset the chip
(`sdkconfig.defaults:8-10`).

### Components

| component | state | operations | what makes it correct | module |
|---|---|---|---|---|
| `access_core` | slots, trust flag, attempts, lockout deadline | evaluate, tick, upsert, revoke, restore | attempts bounded, lockout and counter agree, last match decides | AccessCore (operators), AttemptLimit |
| `persist_store`, ring | 64 EEPROM pages, cursor | init, load, save | an acknowledged record survives any cut | PersistRing, AttemptStore |
| `persist_store`, codes | two buffers of two pages per code slot | load, save | an acknowledged code survives any cut, an erased one is gone | CodeStore, AttemptStore |
| `gate_ctrl` | nine typed characters | key, long press, tick | only what one guest typed in one entry is hashed; wiped after | GateCtrl |
| `ui` | screen, entry length, two deadlines, trust flag | key, long press, result, tick, render | in step with gate_ctrl, goes dark | Ui, GateCtrl |
| `lock_driver` | pulse state, pin | open, tick | pulse bounded, pulses spaced, ready again | LockDriver |
| `wifi_prov` | session, button, AP, cookie, finish flag | tick; login, logout, finish, wifi post | five minutes, one session per press, served only after login, no self-join | Provisioning; its radio in NetLink |
| `code_sync` | generation, due time, body buffer, NVS | poll (task and console) | dropped codes go, older sets refused, converges | CodeSync, GuestTable |
| `tg_client` | offset, counter, backoff | poll, verify, apply, acknowledge | no replay, nothing acknowledged unhandled, never stuck | TgClient; its effect on the table in CodeSync |
| `net_link` | what is wanted of the radio, flags, backoff | events, tick, AP up/down, scan, try credentials | does what is wanted and no more, comes back online | NetLink; the connected flag in CodeSync, TgClient |
| `keypad` | debounce and long-press state, queue | scan | one event per press, none invented, none lost to a loop that is merely late | Keypad |
| `rtc_ds3231` | chip registers | get, set | a stopped oscillator is not trusted | its outcome at boot (AttemptLimit, GateCtrl) |
| `dev_console` | - | time, code, dev, sync, ... | what it reports of the EEPROM is true | CodeStore, and as steps of the modules it disturbs |
| `status_led`, `display_ssd1306`, `cred_check`, `gate_guard` | output, or a check at boot | - | - | not modelled |

Interactions: a key goes keypad -> queue -> `gate_on_key` -> `ui_on_key` ->
`ac_evaluate` -> `ui_on_result` -> `handle` -> `lock_driver_open` and
`persist_save`, all inside one iteration of the loop and with one reading of
both clocks. Codes come in through `sync_apply`, `tg_client`'s `apply`, the
console and, at boot, the EEPROM. Dev codes leave when the portal's session
ends (`WIFI_PROV_EVT_CLOSED` -> `ac_revoke_transient`).

### What is hard here

Power cuts between a change in RAM and its write; writes that fail or are torn
and are not retried; boots that cannot read the EEPROM; a wall clock that jumps
under absolute deadlines; a 32-bit millisecond counter that wraps under relative
ones, compared in three different ways; a main loop that may be late by
anything up to the watchdog; two tasks on one session without a lock; a mutex
held around the table but not around the poll that replaces it; answers and
pushes lost, late or out of order; a chat anybody can post to; one radio that
three tasks reconfigure while its events are still on their way; a code record
of two pages. `PROJECT.json` lists each hazard at its line.

## 2. The modules

Functions over a struct are operators over a record that return the record
left behind (`AccessCore`, `Ui`, the `Logic...` operators of `LockDriver`,
`prov_logic` in `Provisioning`, `sync_logic` in `CodeSync`); the tasks that call
them are the actions. Names are the C names where TLA+ allows it.

**AccessCore** - `access_core.c` without its state: evaluation, tick, failure
registration, and the slot operations. Hashes and ids are opaque; `-1` is 0.

**AttemptLimit** - the counter and lockout across power cuts. `Submit` and
`GateTick` are `submit` and `gate_tick` as far as they concern the attempts;
`HandleWrite` is `handle()` reaching `persist_attempts()`; between them `pending`
holds and only the clock, a failing write and the supply can act (the main loop has
the mutex). `Boot` is `boot_clock` and `boot_persist`. The chip is two records:
what a boot would restore now, and the last acknowledged.

**AttemptStore** - the abstract specification of a thing kept on the EEPROM: an
acknowledged write lasts; one that failed or was cut off leaves the old, the new
or the last acknowledged record, nothing else. `AttemptLimit` is shown to assume
no more than this (`TrustsStoreOnly`); **PersistRing**, the ring with its cursor,
sequence numbers, torn pages and blind boots, is shown to keep it
(`KeepsAttempts`), and so is every code slot of **CodeStore** (`KeepsCodes`). All
three are `INSTANCE AttemptStore WITH` a refinement mapping.

**CodeStore** - `persist_codes.c`, `persist_codes_load` and `persist_codes_save`,
and the console commands that save (`code persist`, `code del`, `code erase`),
with the sync, the bot and the end of a portal session changing the table in
between. A save is two steps, one per page; after the first the buffer is of two
records, which its CRC tells. `job` is where the console is in its command:
`unlocked` is the gap of `code persist` between `ac_upsert` and the save; `todo` says
how often each slot is still to be saved (twice for `code erase`); `code` is what the
answer will name, and the history `overtaken` whether another task has changed the
slot in the gap.

**Millis** - the three comparisons of wrapping millisecond readings.

**LockDriver** - `lock_logic` and the pin `lock_driver` writes. `t` is the
true time, the code sees `t % Wrap`. The loop may stay away for up to
`Watchdog`.

**Ui**, **GateCtrl** - one iteration of the loop is `Wake` (mutex, one
reading of both clocks), any number of `GateOnKey` and `GateOnLongPress`, then
`GateTick`. Between iterations time passes, the console trusts the clock, other
tasks change the table; a restart may come anywhere. `pressed` and `lastEvent`
record what was really pressed and when, for the properties only.

**Provisioning** - the portal's session, driven by two tasks without a lock.
`Tick` is `wifi_prov_tick`; a session start is two steps because a server that
was left up serves requests in between, a stop is two steps because
`httpd_stop` waits for the handler in progress. Handlers are split where
another task's step matters (`LoginPost`, then `LoginSucceeds` or `LoginFails`,
then `LoginReply`; `FinishGet`, then `FinishRequested`).

**CodeSync** - `do_sync` as fetch, parse, apply, save, with the mutex held for
apply only, run by the sync task and by the console's `sync now`; the bot's
pushes as a queue that may lose messages; the console's `code` commands, which write
to the EEPROM as well; the end of the dev codes; and a power cut, after which the generation
is the one in NVS and the table is what `persist_codes_load` restores: the codes of
the EEPROM that can be read, among them perhaps one that a newer set has dropped.
`chip` is the EEPROM as such a boot would read it; a save to it is one step here,
as CodeStore has the pages. What is external is the backend: it publishes a
generation with its set in one transaction and then tells the bot (ADR 0007 and
its amendment). The text format and the MAC are abstracted to "legible or not":
`sync_parse` already refuses what `sync_apply` would call a bad entry, so a
legible body never is one.

**GuestTable** - the table as the backend's writers see it: guest codes and dev
codes, and the replacement of the first by a whole set. CodeSync, CodeStore and
TgClient share it.

**TgClient** - `tg_task` with `tg_poll` and `tg_proto`. A request is a step that
begins and one that ends (`Answered`, `AnsweredTooLong`, `NotAnswered`,
`TokenRefused`); each update of the batch is a step, and an accepted one two,
because a power cut may come between the table and the counter. Telegram is
external: it returns the oldest updates it holds, drops what an offset
acknowledges, whether or not its answer arrives, and keeps an update for a day.
Anybody may post: junk of any size, or a copy of a line of the backend. An answer has to
fit the buffer as a whole (`Fits`), so that posts which each would do are refused
together. The signature is abstracted to who wrote the line.

**NetLink** - the three tasks on the radio. The handlers of the event task are
one step each (it outranks the others); every call that the main loop or the
server's task makes to the driver is a step of its own, so that events and ticks
fall between any two of them. The driver is external: it refuses a configuration
while an attempt is in flight, ignores a connect while busy, and queues an event
for every attempt that ends. `server.at` is the place in `net_link_scan`,
`net_link_try_credentials`, `prov_nvs_save` or `net_link_sta_start`; `net_retry`'s
deadline is kept as the time left.

**Keypad** - `kp_logic_update` on readings of the matrix that may be anything
(bounces, ghosts, late scans), the task that posts to the queue, and the main
loop that empties it. Events carry no content in the queue; times are ages.

**MCAttemptLimit, MCGateCtrl, MCCodeSync, MCTgClient** give values to the constants that
are functions or sets of records.

**OperatorProofs** is the library of lemmas about the operators the components
share: arithmetic modulo `Wrap` and what it says of the comparisons of `Millis`, and
what `Upsert`, `Revoke`, `WithoutGuests` and `Install` do to the table. **AttemptLimitProofs,
GateCtrlProofs, CodeSyncProofs, TgClientProofs** each extend the module
they are about; **PersistProofs** is about the two halves of `persist_store`, PersistRing and
CodeStore, **DriverProofs** about the two drivers the loop polls, LockDriver and Keypad, and
**PortalProofs** about the two sides of the portal, Provisioning and NetLink.
(The second component of such a pair has a prefix on the names both would have: `CodesInit`,
`KeypadSpec`, `NetNext`.) Section 5 goes through them.

## 3. What TLC checks

Times, tables and policies are scaled down; what counts is that every case
happens: a wrap of the counter, a lockout that arms and lifts, a ring that goes
round, a session that times out during a request.

| run | what it shows |
|---|---|
| `AttemptLimit` | Between two grants the wrong codes are at most `MaxFailedAttempts` per lockout, plus one per lost write and one round per boot without EEPROM, and lockouts are a lockout's length apart (`WrongCodesBound`); counter and deadline agree in RAM and on the chip; a lockout in force and on the chip is ended by the clock only; the model uses the EEPROM only as AttemptStore allows; every lockout lifts. |
| `LockDriver` | The coil is on for less than the pulse plus the loop's absence and the lock refuses no longer than pulse, cooldown and absence (`LockBounded`), and pulses start a pulse and a cooldown apart between resets, across two wraps of the counter. |
| `GateCtrl` | The buffer holds exactly the keys of the running entry and is wiped outside one, and no entry is evaluated that the lockout or the clock had already decided (`EntryInStep`); the panel goes dark; the lock is told to open only for a code of the table, in its window, typed as the last keys. |
| `PersistRing` | The cursor is the newest record and no two slots carry the same number (`RingOrdered`), and the ring implements AttemptStore. |
| `Provisioning` | Five minutes whatever the clients do, served only to who logged in since the session opened, one session per press and sessions that end for their own reasons (`SessionsAreOwned`), the loop always comes back from stopping the server. |
| `CodeSync` | Once a set is installed no code it dropped stays, not even one that the EEPROM brought back, that `code persist` wrote or that a push left (`GuestsAreAccountedFor`); the generation never goes back while the gate is up nor gets ahead of the table (`NeverOlder`). |
| `CodeSyncLive` | When the task polls (never closer than a period but after an old answer; within a period of being online but after 24.8 days overdue), and that it comes to hold the backend's set, also after a boot; a set is installed whole and leaves dev codes alone. |
| `CodeStore` | Every code slot implements AttemptStore; the id and hash that `code persist` reports as written are what a boot would restore in that slot, unless another task changed the slot in the gap; the slot of which `code del` reports it is empty there; after `code erase` no buffer holds an erased code (`AnswersHoldUnlessOvertaken`). |
| `TgClient` | No copy posted later, lost receipt, refused NVS write or power cut brings back a code whose revocation reached the flash; Telegram drops on our word only what was handled; with the link up the channel catches up with all that is posted, again and again, unless the answer is too large for the buffer for as long as Telegram keeps it. |
| `NetLink` | Between two requests the radio runs what is wanted and joins only with stored credentials, and the connected flag is true once the events are handled (`RadioInStep`); the gate comes back online however often the router refuses or drops it (`ComesBack`). |
| `Keypad` | A press follows a debounce of that key alone, a second one a release; a long press is of the key pressed last and comes once (`KeysAreReal`); the queue drops a key only when the loop was away for as many debounces as it holds intervals. |

`ProvisioningTick` ends in a counterexample: it states what a comment says, and
the code does otherwise (section 6).

### Bounds

- `AttemptLimit`: two failures arm a lockout of 2 s, 6 s of clock, one clock step, one
  lapse (a write lost or cut) and one boot without EEPROM; a one-slot table, full
  or empty. Enough for a lockout to arm twice, with a cut in each phase. The proofs
  (section 5) are for every value.
- `LockDriver`: pulse 2, cooldown 4, absence 3 on a counter of 32, run for 80
  ticks. `ConfigPulse = 0` takes the default.
- `GateCtrl`: codes of three keys on a pad of two, a counter of 10 run for 12
  ticks, a stall of 2; timeouts of 1 and 2.
- `PersistRing`: three slots and eight sequence numbers: the ring goes round
  more than twice. Three values tell the old record from the new and from blank.
- `Provisioning`: two clients, hold 2, session 3, verification 2, two failures,
  a counter of 5, so that the session's span crosses the wrap from every start.
  Nothing else bounds it: the state space is finite.
- `CodeSync`: generations 0 and 1, two slots, two callers, one reboot, every
  `code` command, and an EEPROM that holds a code of the backend and one of `code
  persist`. The second set replaces the first's code, the one on the EEPROM: enough for a
  dropped code to come back at a boot, to be pushed late, or to be written in the gap.
  There `Wrap = 1`: every reading is equal, so a poll is always due, which
  allows every order of polls. `CodeSyncLive` has generations 0 to 2 and a counter of 5,
  one caller, no pushes, one reboot and `code add`; a set of two may not fit beside a dev
  code, the middle one is not legible, the last has an empty window, and a boot may
  restore a code that it drops.
- `CodeStore`: two slots, one hash, an id each for the backend, `code persist` and
  the dev codes, generations modulo 4, so that they wrap; nothing else is bounded.
- `TgClient`: a script of three lines (a code, its revocation, a line whose id is
  not the backend's), three posts of any kind in any legal order, batches of two,
  one power cut, a counter of 6 and a backoff of 1 to 2. Three posts are enough for
  a code, its revocation and a copy of the code. The buffer has room for three lines
  and junk is of two or four: too large alone, or only two together.
- `NetLink`: one network that works and one set of credentials that does not, a
  backoff of 1, 2, 3 (doubled, then clamped), three queued events: with fewer a
  test could not run ahead of the events of the old link.
- `Keypad`: two keys, a debounce of 3 scans, a long press of 6, a queue of 3, scans
  up to 4 periods late. Two keys are enough for ghosts and for a change of key.

### Fairness

- `AttemptLimit`: weak fairness of the loop's tick, of the write in progress
  and of time: a loop that stops is restarted by the watchdog.
- `Provisioning`: weak fairness of the loop's step, of a handler that has
  begun, and of time. Requests, presses and logins are not fair. The
  verification handler ends because `net_link_try_credentials` has a deadline.
- `CodeSyncLive`: weak fairness of the task's steps and of time, and strong
  fairness of receiving the backend's current set: of infinitely many polls, one
  succeeds. Without it, a network that always fails would be a
  counterexample that says nothing of the code. `Converges` needs the link to
  stay up for good. There the console types `code add` only: a guest's code that
  somebody deletes by hand is gone until the next generation, and nothing converges.
- `TgClient`: weak fairness of the task's steps and of time, and strong fairness
  of `Answered`: of infinitely many requests whose answer fits the buffer, one is
  answered. Telegram may fail as often as it likes, but not always. Nothing makes it drop
  an update after a day, so an answer that does not fit may be asked for forever: that
  is the exception of `ChannelAdvances` (`<>[]Overflows`), and the only one.
- `NetLink`: weak fairness of the event task, the main loop, a handler that has
  begun and time; strong fairness of `Joins`: the router may refuse or drop the gate
  any number of times, but not every attempt from some point on. `ComesBack` is
  conditional on credentials that work being configured and nobody using the portal.
- The other runs check safety only; their specifications state no fairness.

## 4. How the properties relate

`WrongCodesBound` is the point of the attempt counter: five tries per lockout,
whatever the supply does. It is exact about what a lost write costs (one try) and
about what a missing EEPROM costs (one round), the price `boot_persist` accepts
in its comment. It rests on `AttemptStore`, which `PersistRing` keeps, so the chain
from "a page write was torn" to "how many codes can be tried" is closed, except
for CRC collisions, which `PersistRing` assumes away.

`BufferIsEntry` (in `EntryInStep`) is the point of `gate_ctrl`: three components each keep a piece of one
entry. It says that the pieces agree after any sequence of late iterations,
expiries, lockouts, clock losses and restarts; `OpensOnlyForTypedCode` is its
consequence at the lock.

`ServedOnlyAfterLogin` and `EndsForItsOwnReasons` (in `SessionsAreOwned`) are about a session that ends
while a handler is in progress. Both hold although nothing locks the session,
and for reasons that are easy to break: `prov_button` clears
`authenticated` after it opens, a cookie is replaced on login only, and the
finish flag is consumed on every tick, served or not.

`GuestsAreAccountedFor` and `InstallsWholeSet` make "replace, not merge" exact in the
presence of pushes, dev codes, overflow and an EEPROM that remembers. The first is exact about
when: until the first set after a boot the table is what the EEPROM brought back and what
came since (`hist.extra`), so that a dropped code may open the gate again until then;
`Converges` says that this set comes.

`RevokedStaysRevoked` depends on an order that is easy to break: `handle_body`
acknowledges, applies, and only then moves the counter, and `tg_client_init` reads
both numbers back. `ReportedIsStored` (in `AnswersHoldUnlessOvertaken`) says two things of
`code persist`, which releases the mutex before it saves. What it saves is what the slot
holds by then, so that RAM and chip agree in any case; that this is the code which the answer names
holds only if no other task took the slot in the gap, and the property says so (6.14).
`FlagIsTrue` (in `RadioInStep`) rests on `on_wifi` clearing the flag before it asks
whether the loss was wanted; a test of credentials that did not drop the flag
would leave the gate believing it is online, and `net_link_tick` would never retry.
`LosesOnlyWhenAway` turns the queue's depth into a time: eight events cannot come
in less than seven debounces, 105 ms, which is what the loop may be late by.

## 5. What is proved

Every theorem below is about the specification a run checks, for every value of the
constants that the named assumptions (`PolicyAssumption`, `TableAssumption`,
`WrapAssumption`, `UiAssumption`, and one per component) admit; TLC evaluates these
on every run. They ask for no more than the code's own numbers give: limits and
spans that are not zero, and spans that are short against the counter's 2^32. In each proofs module `IndInv` is
the inductive invariant, `InitInv` and `NextInv` prove it action by action, and
`Invariance` is `Spec => []IndInv`. `IndInv` was checked with TLC before its proof. For CodeStore,
Keypad and NetLink these are `CodesInv` with `CodesSafe`, `KeypadInv` with `KeypadSafe`, and
`NetInv` with `NetSafe`.

| module | theorem | property |
|---|---|---|
| AttemptLimitProofs | `TypeCorrect` | `TypeOK` |
| | `CounterAndLockoutAlwaysAgree` | `CounterAndLockoutAgree` |
| | `WrongCodesAlwaysBounded` | `WrongCodesBound` |
| | `LockoutAlwaysHolds` | `LockoutHolds` |
| | `OnlyTheStoreIsTrusted` | `TrustsStoreOnly` (refinement) |
| DriverProofs | `TypeCorrect` | `TypeOK` (LockDriver) |
| | `CoilAndRefusalBounded` | `LockBounded` |
| | `PulsesStartSpaced` | `StartsSpaced` |
| | `KeypadTypesHold` | `KeypadTypeOK` |
| | `KeyEventsAreReal` | `KeysAreReal` |
| | `KeysAreLostWhenAway` | `LosesOnlyWhenAway` |
| GateCtrlProofs | `TypeCorrect` | `TypeOK` |
| | `EntryStaysInStep` | `EntryInStep` |
| | `OnlyTypedCodesOpen` | `OpensOnlyForTypedCode` |
| | `PanelDarkens` | `PanelGoesDark` |
| PersistProofs | `TypeCorrect` | `TypeOK` (PersistRing) |
| | `RingStaysOrdered` | `RingOrdered` |
| | `RingKeepsAttempts` | `KeepsAttempts` (refinement) |
| | `CodesTypesHold` | `CodesTypeOK` |
| | `CodesAreKept` | `KeepsCodes` (refinement) |
| | `CodesAnswersFit` | `AnswersHoldUnlessOvertaken` |
| PortalProofs | `TypeCorrect` | `TypeOK` (Provisioning) |
| | `SessionsEndInTime` | `SessionCapped` |
| | `OnlyOwnLoginsServe` | `ServedOnlyAfterLogin` |
| | `SessionsHaveOwners` | `SessionsAreOwned` |
| | `NetTypesHold` | `NetTypeOK` |
| | `RadioStaysInStep` | `RadioInStep` |
| CodeSyncProofs | `TypeCorrect` | `TypeOK` |
| | `NoDroppedCodeStays` | `GuestsAreAccountedFor` |
| | `GenerationsOnlyGrow` | `NeverOlder` |
| | `SetsAreInstalledWhole` | `InstallsWholeSet` |
| | `PollsAreOnTime` | `PollsOnTime` |
| TgClientProofs | `TypeCorrect` | `TypeOK` |
| | `RevocationIsFinal` | `RevokedStaysRevoked` |
| | `ReceiptsAreHonest` | `AcknowledgedWasHandled` |
| OperatorProofs | `ElapsedIsTrue`, `ReachedIsTrue` | what the readings say of true time |

### The invariants, and why they are needed

**AttemptLimit.** `WrongCodesBound` counts events and looks at no component's state,
so it is not inductive. `Ledger` relates it to the state: a pair of counter and
deadline *accounts* for the history when the failures it charges and the seconds it
still has to run cover the wrong codes and the lockouts so far. The pair in RAM
always does; the two records on the chip do, up to the one change that is waiting to
be written. A power cut replaces the first pair by one of the others, which is
exactly what a lapse pays for. `WrongCodesBound` follows because a pair charges at most
`MaxFailedAttempts - 1` failures. `OnlyTheStoreIsTrusted` takes every action to a step of
`AttemptStore` or a stutter, as `RingKeepsAttempts` does for the ring: what is proved of the
counter assumes of the EEPROM no more than what is proved of the ring.

**Millis.** `ElapsedIsTrue`: `now - since` is the true span as long as that is
below a full turn. `ReachedIsTrue`: the signed comparison tells the truth about a
deadline less than half a turn ahead or at most half a turn past. The components'
proofs have to show that they never ask outside those ranges.

**LockDriver.** `lock_logic` keeps two readings and the properties are about true
time, for any number of wraps. `PulsingKnows` and `CoolingKnows` say which true instants the
readings stand for and how long ago the last tick was; `RestingKnows`, that a lock idle again
has rested.

**GateCtrl.** `EntryInStep` alone is not inductive: nothing in it says why a lockout
cannot come up under an entry that has begun. `EntryIsOpen` does: while the screen is `ENTRY` the clock
is trusted and no lockout is in force, between two iterations none is even armed, and a
wrong code ends the entry in the step that arms one. `OnlyTypedCodesOpen` then needs that the
nine keys hashed are the last nine pressed, which is `BufferIsEntry`. `PanelDarkens` needs `Dark`, a
second invariant on top of the first: the deadline of what is up was set by the wake of the
last key event, at most a stall before that event, and after an iteration what is up was looked at and
was not over, unless a lockout hid it.

**PersistRing.** `NumbersFollowSlots`: a number on slot `i` is `RingSlots * k + i + 1` for some
`k`. A boot that could not read the ring starts at slot 0 with number 1, which is one of that
slot's turns again, so that a blind boot leaves no two slots with one number, however
many rounds came before. `RingKeepsAttempts` maps the record a boot would restore and the
last acknowledged one to `AttemptStore` and takes every action to a step of it or a stutter.

**CodeStore.** `CodesAreKept` needs less of the chip than one would think: nothing about the
generations a slot holds. Whatever they are, the write goes to the buffer a boot would *not*
read, so that a torn page there changes nothing, and after the write that buffer is the newer one,
because its generation is the other's plus one and the comparison is by signed distance. That holds for
any width of at least four. What has to be carried along is that no dev code is on the chip
(`NoDevCodes`), which makes clearing `transient` at boot harmless. `AnswersHoldUnlessOvertaken` needs what the
console is in the middle of: that the slot it has still to save holds the code that the answer will name,
as long as nobody has overtaken it (`JobNames`), that it has a slot left to save, none of them with a dev code (`SavesLeft`), that `code erase`
goes through the slots in order, each twice (`ErasesInOrder`), and that the slots it has passed, and the
buffer it has already written of the one it is at, hold nothing (`ErasedSoFar`).

**Provisioning.** Two tasks share the session without a lock, so the invariant
says what each may find of the other's wherever that one is. `HandlersAreAwaited`: a request in
progress belongs to a session that is open, or to one whose stop waits for it.
`CookieIsEarned`: a cookie that would be served is of somebody who logged in to *this* session;
between the two writes of a login it need not be. `FailuresCount`: the count never
passes the limit unseen. `FinishIsAsked`: the flag is never of an earlier session.
`AgeIsElapsed` and `PressIsElapsed` tie the readings to true spans; the second only until the hold is reached,
because a button may be held for longer than a turn of the counter.

**CodeSync.** `InHand` is what a poll knows across the unlock: that the set
it is about to apply was validated, and that the generation it is about to save is
not ahead of the one held, though the other caller may have installed a newer
one since. Of the EEPROM it asks nothing but the type: whatever a boot restores, it
accounts for (`HistoryAtBoot`), and the next set drops all of it. `DevIds`: no dev code has an id of the backend, so that replacing guests
touches none. `SetsAreInstalledWhole` has one hypothesis, `SetsNameAnIdOnce`: `sync_apply` does not
check for an id that occurs twice in a set, where the later entry would win; the
backend's table is keyed by the id. What `Install` computes for a set of any length
is proved too (`InstallUnfolds`, `InstallIsWhole` in OperatorProofs): the recursive
function is shown to exist by the least length for which it would not, and then
unfolded entry by entry. `PollsAreOnTime` has an invariant of its own, `OnTime`: the deadline is a period after
the poll that set it, as far back as the history counts, an idle task waits for the deadline of
its last poll unless that brought an old answer, and a wait that began in time ends in time.
Its hypotheses are those of the run `CodeSyncLive`: the task is the only caller, because the
history counts the time since the task's own polls, and the history keeps times; and twice the period is at most
a turn of the counter (15 minutes against 49.7 days).

**TgClient.** `Believed` says of every code in the table that it was believed after every revocation of it
whose counter reached the flash; it needs that an id has one slot (`OneSlotPerId`) and
that while a revocation's counter waits to be saved its code is gone (`RevokedFirst`).
`BoundaryHolds` orders the three boundaries: counters kept, in flash, in RAM. `Receipt` says
how far the acknowledgement may be ahead of the handling: by the update in hand, and by
nothing once the batch is done.

**Keypad.** `Agree` relates what `kp_logic` keeps to the readings themselves: the stable
key is the key of the last PRESS, a candidate is what the contacts have shown for at least its age
(`CandidateShown`), and a key that is up again was let go, or will be by the end of a ghost reading (`LetGo`):
while `ghost_blocked` the logic sees no key although one may well be held, so that
a release is certain only once nothing is read at all. `Credit` ties the length of the queue to the time the loop has
been away: every event in it took a debounce, but for a LONG_PRESS, which may come right before a
PRESS; it is paid for by the long press that had to last, so that a key that is down and not
yet reported long has credit for one event more. Both are stated of the state *after* the last scan's events are counted.

**NetLink.** `RadioInStep` speaks of the moments between two requests and of an empty queue; what
happens in between decides it. `RequestOwes` says for each place of the server's task what it
has changed of what is wanted and what it remembers of it: a scan has added the station exactly when
nobody wanted to join, and a test remembers in `had` that the gate had credentials, until `TryWantsBack`
puts that back. Ticks, events and the portal leave that alone: they read what is wanted, and the
portal changes only whether an access point is. `RadioFollows` makes the driver run
what is wanted at *every* step, and a link need a station, so that a gate without credentials has
none once the test is over. `Settles` is what the flag will say when the queue is handled: the last
loss or address in the queue, or the flag itself if there is neither, is what the link is. The radio
queues an event whenever the link is made or lost, and `on_wifi` and `on_ip` set the flag to what the
event they handle says, so it holds for a queue of any length.

**Operators.** The rest are lemmas on what each operator of `AccessCore`, `Ui`,
`prov_logic`, `lock_logic` and `GuestTable` returns, preserves or bounds, cited by name
from the steps.

### What the proofs changed in the models

- `LockAssumption` asked for less room than `lock_logic` needs: a deadline may be
  looked at twice the loop's absence late, so the sum is
  `2 * (MaxPulse + Cooldown + 2 * Watchdog) < Wrap`. For the code's numbers it holds by a
  factor of thousands.
- `RevokedStaysRevoked` was stated with the greatest counter saved. A line that is not
  believed, and so dropped, may be a revocation too, with a smaller counter; the history now keeps the set
  of the counters that were handled and saved, and the property speaks of these.
- `OpensOnlyForTypedCode` is now a predicate of one step (`OpensForTypedCode`), as
  the action property needs.
- In `CodeSync` the backend sends the revocations of a generation in any order, then the additions in
  any order; the model had fixed one.
- `KeypadAssumption` asked for a long press longer than a debounce. That is not enough for
  `LosesOnlyWhenAway`: with a debounce of 5, a long press of 6 and a queue of 6, TLC finds a queue
  that LONG_PRESS and PRESS fill in turn, faster than a debounce per event. The proof asks for
  `LongPress >= 2 * Debounce`; the code has 1.5 s against 15 ms.
- `job.todo` of CodeStore was the sequence of saves to come; it is now how often each slot is still
  to be saved, which is all that the code's loop over the slots knows, and which can be reasoned about.
- The arms of a CASE that overlap are tried in order by TLC, but the language leaves the choice among them
  open, so a proof could not count on the order. `Verdict`, `UiOnResult`, `LinkLost`, `TgParse`, `Debounced` and
  `Remember` are now chains of IF, which say what the code's early returns do.
- `PanelGoesDark` excepted half a turn counted from the last key event. A notice set
  by a late iteration may be older than that event by a stall, so the exception now
  counts the stall.

### What stays with TLC

- Liveness under fairness: `LockoutLifts`, `LoopComesBack`, `Converges`,
  `ChannelAdvances`, `ComesBack`. They need fairness, and with it ENABLED, which the
  prover cannot reason about. Every invariant and every action property of the passing
  runs has a theorem.

## 6. Where the code and its documentation differ

The first has a run that ends in a counterexample. The others came out of the
models: the passing properties state what the code does, with the case as an
exception where they need one.

1. `ProvisioningTick`: too many failed logins close the session but not the portal: AP
   and server stay up and the dev codes stay valid until a later session ends.
   (`prov_logic.h:127-128`: "Too many failures close the session, which the caller
   sees on the next prov_tick".)
2. `lock_logic.c:76-79` says that the coil is protected when nothing drives the
   state machine. The pin is written by the main loop only (`lock_driver.c:72`); a
   stalled loop leaves it energised until the watchdog. `LockBounded` therefore
   counts the loop's absence in.
3. A button released and pressed again *during* a session, and still held when it
   ends, opens the next one at once (`prov_logic.c:164`); ADR 0006 says "does not
   reopen: the button must be released first" (lines 30-31). `SessionsAreOwned` asks
   for one session per press only.
4. The sync task and `sync now` write the generation to NVS after the mutex is
   released (`sync_client.c:290`), so the older one may be written last, and a reboot
   may accept a set older than one already held (`sync_client.c:154-155`).
   `NeverOlder` is about the time between two boots.
5. A code whose push arrives after the poll that dropped it, and whose revocation
   is lost, survives every `unchanged` poll until the next generation
   (`sync_logic.c:77`); ADR 0007 says that the next poll repairs it (lines 61-62).
   `GuestsAreAccountedFor` allows for what came beside a set since it (`hist.extra`).
6. ADR 0005 has guest codes on the EEPROM (lines 25 and 33-35). `sync_apply` and the
   bot's `apply` change the RAM only; CodeStore and CodeSync model it so. The chip may keep a
   persisted code that a sync has removed from the table or a push revoked, and a boot
   (`app_main.c:221`, `persist_store.c:123-149`) restores it: it opens the gate until the
   first set after the boot. With `code persist` the chip may get a code of the backend, too:
   the one that took the slot in the gap of item 14. `GuestsAreAccountedFor` counts what a
   boot restores as `hist.extra`.
7. An answer that does not fit `BODY_MAX`, one long update or several that each would fit
   (`BATCH_LIMIT` is 5), fails the whole batch (`tg_client.c:158`, `:210`) and is asked for
   again until Telegram drops its first after a day; `tg_poll.h:12-14` says "The one thing
   that must not happen is getting stuck". `ChannelAdvances` names the exception (`Overflows`).
8. `net_link_try_credentials` puts the station back "whatever happened"
   (`net_link.c:470-471`), but it ignores the result of `sta_configure`, which the
   driver refuses while an attempt is in flight, for example one that `net_link_tick`
   began between the disconnect and the configuration. A failed test may then leave the
   tested credentials in place. `ComesBack` assumes that the configured ones work.
9. On a gate that was provisioned already, a successful test ends with a connect to
   the *old* network in flight, so that `net_link_sta_start` may be refused its
   configuration; the page says that the new network is in use now
   (`prov_http.c:355-362`), and the gate is on the old one until the link drops.
10. The events of the old link arrive after `xEventGroupClearBits`
    (`net_link.c:454-455`): a late DISCONNECTED may fail good credentials, a late GOT_IP
    may pass a typo, which is then saved. `ProvNvsSave` in the model may save either.
11. A failed attempt doubles the backoff twice, once in `net_link_tick` and once in
    `on_wifi`. Only the ceiling is reached sooner.
12. `PanelGoesDark` excepts a notice whose deadline wraps to the reading 0, the value
    `ui_tick` takes for "no notice": it stays lit until the next key.
13. `PollsOnTime` excepts a poll that was due for 2^31 ms, whose deadline reads as a
    future one, and an old answer, after which the task polls every second.
14. `code persist` answers "added <id>, ... written to EEPROM slot N" (`dev_console.c:160`)
    also when the sync or the bot took slot N in the gap between its two sections
    (`:142-150`): the code it names is then neither in the table nor on the chip.
    `AnswersHoldUnlessOvertaken` has the exception in its name.
15. ADR 0007 says that "the poll is the truth regardless" (lines 69-70). When `code del` removed a guest's code, or the dev
    codes left room for an entry that did not fit, no poll does before the next
    generation (`sync_logic.c:77`). `Converges` excepts what was removed from the table, and
    the room it left, since the last set (`hist.removed`).

`sync_client.c:48` also says that only the sync task touches the body buffer; the
console's `sync now` does too. `CodeSync` models the two users, and that what they mix
does not verify.

## 7. What is not modelled, and the plan

Not modelled: drawing and the OLED; the LED; parsing and formatting (forms,
JSON, the sync text, BCD, CRC, SHA and HMAC, which are opaque or
legible-or-not); the credential checks at boot; the DNS responder; logging.
The tests and tools were read for intent.

Simplifications inside what is modelled: `AttemptLimit` truncates nothing (the
deadline is a `uint32_t` on the chip, in range until 2106); a slot that
`sync_apply` clears keeps its old window, which nobody reads while it is not occupied;
`ac_purge_expired` and `wifi_prov_close` have no caller.

In `CodeStore` a gate trusts its clock throughout, as the console's commands ask,
and every code has one window. In `CodeSync` a save to the EEPROM is one step. In `TgClient`
the table is filled by this client only, and a boot restores nothing into it; CodeSync has the
other writers, the console and the EEPROM among them. That `net_link` erases an NVS partition it
cannot use (`net_link.c:206-208`), and with it generation, counter and offset, is in no module: a gate
without its counter believes old lines again. In `NetLink` the driver's init, mode and start
do not fail, the AP has no configuration of its own, and `net_link_sta_stop`,
`prov_nvs_clear` and `keypad_stop` have no caller.

Three hazards have no property. A reset in the cooldown forgets it, and `StartsSpaced`
is stated between two resets: the driver keeps nothing by design. `wifi_post` may hold the HTTP server for as long as
the verification takes while the main loop waits for it in `httpd_stop`: whether that
exceeds the watchdog is arithmetic on two constants (20 s against 10 s), and
Provisioning has no watchdog. `sync_is_stale` feeds the LED only.

Not composed: GateCtrl, LockDriver and the attempt store in one loop. A grant that
is shown while the lock refuses is bounded by `LockBounded` alone; a composition
would say no more about the code than that.

## 8. Running

    tlc -config AttemptLimit.cfg MCAttemptLimit
    tlc -config NetLink.cfg NetLink
    tlapm AttemptLimitProofs.tla
    tlapm OperatorProofs.tla

and so on for the other `*Proofs` modules; each is checked on its own.

`PROJECT.json` gives the module of every run, the source lines of every
definition, the hazards, and for every checked property a mutation of the model
(an operator defined just before the one it replaces, commented as a mutant) that violates it.
