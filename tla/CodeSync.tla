------------------------------ MODULE CodeSync ------------------------------
(***************************************************************************)
(* components/code_sync with all that writes the guests' codes: the poll   *)
(* that replaces them with the whole set of a generation (do_sync, run by  *)
(* the sync task and by the console's `sync now`), the pushes of the bot,  *)
(* one code at a time (tg_client's apply), the console's `code` commands,  *)
(* which write to the EEPROM too, and the boot, which restores what they   *)
(* wrote.  The mutex is held around the table only: a poll is four steps,  *)
(* and everything may happen between the answer, the install and the write *)
(* of the generation to NVS, and between the two sections of `code         *)
(* persist`.  A save to the EEPROM is one step here (CodeStore has its     *)
(* pages): the slot reads as before or as saved, whatever failed.          *)
(*                                                                         *)
(* The backend publishes generations in order, each with its set (SetOf),  *)
(* and tells the bot the difference after it.  What a poll receives is     *)
(* some body the backend has signed, perhaps an old one, or nothing; the   *)
(* bodies are opaque, and one that two callers write at once does not      *)
(* verify.  last_ok_ms, which only the status LED reads, is left out.      *)
(***************************************************************************)
EXTENDS GuestTable, Millis, SequencesExt

CONSTANTS
  Callers,      \* tasks that run do_sync: Task and perhaps Console
  MaxGeneration,
  SetOf,        \* the entries the backend signs for each generation
  MaxEntries,   \* SYNC_MAX_ENTRIES
  BackendIds,   \* ids of 8 lowercase hex digits
  StoredIds,    \* ids of `code persist`
  Commands,     \* the `code` commands that are typed
  Images,       \* what the EEPROM may hold at first
  Period,       \* SYNC_PERIOD_MS
  BotPushes,    \* whether the backend uses the bot
  MaxBoots,     \* bound on reboots
  Timed         \* whether the history keeps times

Task == "sync"
Console == "console"

Generations == 0..MaxGeneration

EntriesOf(g) == {SetOf[g][i] : i \in DOMAIN SetOf[g]}

Entry == [id : Ids, hash : Hashes, valid_from : Int, valid_until : Int]

\* What a code slot of the EEPROM reads as.
StoredCode == {slot \in Slot : ~slot.transient}

ASSUME SyncAssumption ==
  /\ Task \in Callers /\ Callers \subseteq {Task, Console}
  /\ MaxGeneration \in Nat
  /\ DOMAIN SetOf = Generations
  /\ \A g \in Generations : SetOf[g] \in Seq(Entry)
  /\ BackendIds \subseteq Ids /\ StoredIds \subseteq Ids \ BackendIds
  /\ Commands \subseteq {"add", "persist", "del", "erase"}
  /\ Images \subseteq [SlotIndex -> StoredCode]
  /\ Period \in Nat \ {0}
  /\ MaxEntries \in Nat /\ MaxBoots \in Nat
  /\ Timed \in BOOLEAN

VARIABLES
  access,  \* s_access
  chip,    \* the code slots of the EEPROM, as a boot would read them
  unsaved, \* the slot `code persist` has still to save, or 0
  sync,    \* s_sync
  stored,  \* the generation in NVS
  body,    \* s_body: the generation whose body it holds, or NoBody
  call,    \* the do_sync each caller is in
  now,     \* the millisecond reading
  online,  \* net_link_sta_connected()
  latest,  \* the generation the backend is at
  chat,    \* pushes the bot holds for this gate
  boots,
  hist     \* history: read by no action

eeprom == <<chip, unsaved>>

vars == <<access, chip, unsaved, sync, stored, body, call, now, online, latest, chat,
          boots, hist>>

NoBody == -1

Ctx == [generation : Generations, ever_synced : BOOLEAN, next_due_ms : Reading]

SyncInit(stored_generation, now_ms) ==
  [generation |-> stored_generation, ever_synced |-> FALSE, next_due_ms |-> now_ms]

Idle == [at |-> "idle", at_ms |-> 0, gen |-> 0]

Call == [at : {"idle", "fetch", "parse", "apply", "save"}, at_ms : Reading,
         gen : Generations]

\* What Guests may list.
Listed == [id : Ids \union {NoId}, hash : Hashes \union {NoHash},
           valid_from : Int, valid_until : Int]

\* extra: the guest codes that came beside a set since the last one was installed,
\* by a push, by `code persist` or, before the first set, by the boot; removed:
\* whether a code left the table since, other than by a set; gap: time
\* since the task's last poll began; since: time since the poll began that set
\* next_due_ms; quiet: how long the task has been online and idle; lost: when
\* that began, the poll had been due for half the counter or more; old: the
\* task's last poll brought an old answer.  (A boot is due at once, as if a
\* period had passed.)
HistoryAtBoot(ac) ==
  [extra |-> Guests(ac), removed |-> FALSE, gap |-> Period, since |-> Period, quiet |-> 0,
   lost |-> FALSE, old |-> FALSE]

Ticks == 0..(Wrap + Period)

History == [extra : SUBSET Listed, removed : BOOLEAN, gap : Ticks, since : Ticks,
            quiet : 0..(Period + 1), lost : BOOLEAN, old : BOOLEAN]

Pushes == [op : {"add", "revoke"}, entry : Entry]

TypeOK ==
  /\ access \in Context
  /\ chip \in [SlotIndex -> StoredCode]
  /\ unsaved \in SlotIndex \union {0}
  /\ sync \in Ctx
  /\ stored \in Generations
  /\ body \in Generations \union {NoBody}
  /\ call \in [Callers -> Call]
  /\ now \in Reading
  /\ online \in BOOLEAN
  /\ latest \in Generations
  /\ chat \in Seq(Pushes)
  /\ boots \in 0..MaxBoots
  /\ hist \in History

\* persist_codes_load, of the slots that can be read: none of them when
\* persist_init failed.
Restored(readable, image) ==
  [AcInit EXCEPT !.slots = [i \in SlotIndex |->
     IF i \in readable THEN image[i] ELSE EmptySlot]]

Init ==
  /\ chip \in Images
  /\ access = Restored(SlotIndex, chip)
  /\ unsaved = 0
  /\ stored = 0
  /\ sync = SyncInit(stored, 0)
  /\ body = NoBody
  /\ call = [c \in Callers |-> Idle]
  /\ now = 0
  /\ online = FALSE
  /\ latest = 0
  /\ chat = <<>>
  /\ boots = 0
  /\ hist = HistoryAtBoot(access)

-----------------------------------------------------------------------------
(* sync_logic *)

\* Mutant of ScheduleNext: the sum is wider than the counter.
ScheduleNextWide(s, now_ms) == [s EXCEPT !.next_due_ms = now_ms + Period]

ScheduleNext(s, now_ms) == [s EXCEPT !.next_due_ms = (now_ms + Period) % Wrap]

\* Mutant of SyncDue: the readings compared without the wrap.
SyncDueNoWrap(s, now_ms) == s.next_due_ms <= now_ms

SyncDue(s, now_ms) == NotBefore(now_ms, s.next_due_ms)

SyncUnchanged(s, now_ms) == ScheduleNext([s EXCEPT !.ever_synced = TRUE], now_ms)

Trustworthy(e) == e.id \in BackendIds /\ e.valid_from <= e.valid_until

\* Mutants of Answer: only a newer generation is news; the order is not
\* looked at.
AnswerStrict(s, gen) ==
  CASE gen = s.generation -> "UNCHANGED"
    [] gen < s.generation -> "STALE"
    [] OTHER              -> "APPLIED"

AnswerAny(s, gen) ==
  IF gen = s.generation /\ s.ever_synced THEN "UNCHANGED" ELSE "APPLIED"

\* What sync_apply makes of a set, by its generation.  (Equal is news once
\* after a boot.)
Answer(s, gen) ==
  CASE gen = s.generation /\ s.ever_synced -> "UNCHANGED"
    [] gen < s.generation                  -> "STALE"
    [] OTHER                               -> "APPLIED"

Acceptable(set) ==
  Len(set) <= MaxEntries /\ \A i \in DOMAIN set : Trustworthy(set[i])

-----------------------------------------------------------------------------
(* do_sync *)

Goes(c, where) == call' = [call EXCEPT ![c].at = where]

Ends(c) == call' = [call EXCEPT ![c] = Idle]

StartsFetch(c) ==
  /\ call[c].at = "idle"
  /\ call' = [call EXCEPT ![c] = [Idle EXCEPT !.at = "fetch", !.at_ms = now]]
  /\ body' = NoBody

\* sync_task, online and due.
TaskPolls ==
  /\ online
  /\ SyncDue(sync, now)
  /\ StartsFetch(Task)
  /\ hist' = IF ~Timed THEN hist ELSE
               [hist EXCEPT !.quiet = 0, !.gap = 0, !.old = FALSE]
  /\ UNCHANGED <<access, eeprom, sync, stored, now, online, latest, chat, boots>>

\* `sync now`, whenever somebody types it.
ConsolePolls ==
  /\ Console \in Callers
  /\ unsaved = 0
  /\ StartsFetch(Console)
  /\ UNCHANGED <<access, eeprom, sync, stored, now, online, latest, chat, boots,
                 hist>>

\* The answer is in the shared buffer.
Fetched(c, g) ==
  /\ call[c].at = "fetch"
  /\ g <= latest
  /\ body' = g
  /\ Goes(c, "parse")
  /\ UNCHANGED <<access, eeprom, sync, stored, now, online, latest, chat, boots,
                 hist>>

\* note_failure(): no answer, or none that verifies.
Fails(c) ==
  /\ sync' = ScheduleNext(sync, call[c].at_ms)
  /\ Ends(c)
  /\ hist' = [hist EXCEPT !.since = hist.gap]
  /\ UNCHANGED <<access, eeprom, stored, body, now, online, latest, chat, boots>>

FetchFails(c) == call[c].at = "fetch" /\ Fails(c)

Legible == body # NoBody /\ Acceptable(SetOf[body])

\* sync_parse reads whatever the buffer holds by now; while another caller is
\* fetching into it, the signature may not verify.
Parsed(c) ==
  /\ call[c].at = "parse"
  /\ Legible
  /\ call' = [call EXCEPT ![c].at = "apply", ![c].gen = body]
  /\ UNCHANGED <<access, eeprom, sync, stored, body, now, online, latest, chat,
                 boots, hist>>

ParseFails(c) ==
  /\ call[c].at = "parse"
  /\ \/ ~Legible
     \/ \E d \in Callers \ {c} : call[d].at = "fetch"
  /\ Fails(c)

\* The section under the mutex: sync_apply, and the generation it leaves.
Applied(c) ==
  LET g == call[c].gen
  IN  /\ call[c].at = "apply"
      /\ Answer(sync, g) = "APPLIED"
      /\ access' = Install(WithoutGuests(access), SetOf[g])
      /\ sync' = SyncUnchanged([sync EXCEPT !.generation = g], call[c].at_ms)
      /\ Goes(c, "save")
      /\ hist' = [hist EXCEPT !.extra = {}, !.removed = FALSE, !.since = hist.gap]
      /\ UNCHANGED <<eeprom, stored, body, now, online, latest, chat, boots>>

\* An answer with nothing new, or an old one, ends the poll; only the first
\* sets the time of the next.
NothingApplied(c) ==
  /\ call[c].at = "apply"
  /\ \/ Answer(sync, call[c].gen) = "UNCHANGED"
           /\ sync' = SyncUnchanged(sync, call[c].at_ms)
           /\ hist' = [hist EXCEPT !.since = hist.gap]
     \/ Answer(sync, call[c].gen) = "STALE"
           /\ hist' = [hist EXCEPT !.old = @ \/ (Timed /\ c = Task)]
           /\ UNCHANGED sync
  /\ Ends(c)
  /\ UNCHANGED <<access, eeprom, stored, body, now, online, latest, chat, boots>>

\* save_generation(), after the mutex is released.  NVS may refuse.
Saved(c) ==
  /\ call[c].at = "save"
  /\ stored' \in {stored, call[c].gen}
  /\ Ends(c)
  /\ UNCHANGED <<access, eeprom, sync, body, now, online, latest, chat, boots, hist>>

-----------------------------------------------------------------------------
(* The other writers of the table *)

\* The history notes that a code left.
NotesRemoval ==
  hist' = [hist EXCEPT !.removed = @ \/ (Timed /\ access' # access)]

\* tg_client's apply(): the pushes arrive in order.
PushArrives ==
  /\ chat # <<>>
  /\ LET m == Head(chat)
         e == m.entry
     IN  \/ /\ m.op = "add"
            /\ access' = AcUpsert(access, e.id, e.hash, e.valid_from, e.valid_until).ac
            /\ hist' = [hist EXCEPT !.extra = @ \union {e}]
         \/ /\ m.op = "revoke"
            /\ access' = AcRevoke(access, e.id)
            /\ NotesRemoval
  /\ chat' = Tail(chat)
  /\ UNCHANGED <<eeprom, sync, stored, body, call, now, online, latest, boots>>

\* The gate was away too long, or the message was dropped.
PushLost ==
  /\ chat # <<>>
  /\ chat' = Tail(chat)
  /\ UNCHANGED <<access, eeprom, sync, stored, body, call, now, online, latest,
                 boots, hist>>

\* The end of a portal session, `code clear` or `dev off`.
DevCodesLeave ==
  /\ access' = AcRevokeTransient(access)
  /\ NotesRemoval
  /\ UNCHANGED <<eeprom, sync, stored, body, call, now, online, latest, chat, boots>>

-----------------------------------------------------------------------------
(* The console: one task, which types one command after the other *)

ConsoleIdle == unsaved = 0 /\ (Console \in Callers => call[Console].at = "idle")

Typed(command) ==
  /\ command \in Commands
  /\ ConsoleIdle
  /\ UNCHANGED <<sync, stored, body, call, now, online, latest, chat, boots>>

\* `code add`: a dev code of its own id.
DevCodeAdded(id) ==
  /\ Typed("add")
  /\ id \in Ids \ (BackendIds \union StoredIds)
  /\ \E h \in Hashes : access' = AcUpsertTransient(access, id, h, 0, 1).ac
  /\ UNCHANGED <<eeprom, hist>>

\* `code persist`, its first section: the code is in RAM.
CodePersist(id, h) ==
  LET u == AcUpsert(access, id, h, 0, 1)
      e == [id |-> id, hash |-> h, valid_from |-> 0, valid_until |-> 1]
  IN  /\ Typed("persist")
      /\ id \in StoredIds
      /\ u.slot # 0
      /\ access' = u.ac
      /\ unsaved' = u.slot
      /\ hist' = [hist EXCEPT !.extra = @ \union {e}]
      /\ UNCHANGED chip

\* Its second section saves what the slot holds by then, which may be a code
\* of the network.  (A dev code is not written.)
CodePersistSaves ==
  /\ unsaved # 0
  /\ \/ UNCHANGED chip
     \/ /\ ~access.slots[unsaved].transient
        /\ chip' = [chip EXCEPT ![unsaved] = access.slots[unsaved]]
  /\ unsaved' = 0
  /\ UNCHANGED <<access, sync, stored, body, call, now, online, latest, chat,
                 boots, hist>>

\* `code del`: a guest's code too, if the user says yes.
CodeDel(id) ==
  LET i == FirstOf(ById(access, id))
  IN  /\ Typed("del")
      /\ ById(access, id) # {}
      /\ access' = AcRevoke(access, id)
      /\ chip' \in IF access.slots[i].transient THEN {chip}
                   ELSE {chip, [chip EXCEPT ![i] = EmptySlot]}
      /\ NotesRemoval
      /\ UNCHANGED unsaved

\* `code erase [all] yes`, whichever of its saves succeed.
CodeErase(all) ==
  LET codes  == {i \in SlotIndex : access.slots[i].occupied
                                     /\ ~access.slots[i].transient}
      spared == IF all THEN {} ELSE {i \in codes : access.slots[i].id \in BackendIds}
  IN  /\ Typed("erase")
      /\ codes # {}
      /\ access' = [access EXCEPT !.slots = [i \in SlotIndex |->
                      IF i \in spared THEN access.slots[i] ELSE EmptySlot]]
      /\ \E written \in SUBSET (SlotIndex \ spared) :
           chip' = [i \in SlotIndex |-> IF i \in written THEN EmptySlot ELSE chip[i]]
      /\ NotesRemoval
      /\ UNCHANGED unsaved

-----------------------------------------------------------------------------
(* The surroundings *)

Push(op, entries) == [op : {op}, entry : entries]

\* The pushes of a generation, in some order: the codes that are gone, then
\* those that are new or changed.
PushesFor(g) ==
  LET gone  == {e \in EntriesOf(g - 1) : \A n \in EntriesOf(g) : n.id # e.id}
      added == EntriesOf(g) \ EntriesOf(g - 1)
  IN  {r \o a : r \in SetToSeqs(Push("revoke", gone)),
                a \in SetToSeqs(Push("add", added))}

\* One transaction for the generation and its set, then the pushes.
Publish ==
  /\ latest + 1 \in Generations
  /\ latest' = latest + 1
  /\ \E pushes \in IF BotPushes THEN PushesFor(latest') ELSE {<<>>} :
       chat' = chat \o pushes
  /\ UNCHANGED <<access, eeprom, sync, stored, body, call, now, online, boots, hist>>

LinkChanges ==
  /\ online' = ~online
  /\ UNCHANGED <<access, eeprom, sync, stored, body, call, now, latest, chat,
                 boots, hist>>

\* A second or more passes; a task that is online and due does not sleep.
Elapse ==
  /\ ~(online /\ SyncDue(sync, now) /\ call[Task].at = "idle")
  /\ now' = (now + 1) % Wrap
  /\ LET waits == online /\ call[Task].at = "idle"
         more(n, cap) == IF n < cap THEN n + 1 ELSE n
     IN  hist' = IF ~Timed THEN hist ELSE [hist EXCEPT
           !.gap = more(@, Wrap + Period), !.since = more(@, Wrap + Period),
           !.quiet = IF waits THEN more(@, Period + 1) ELSE 0,
           !.lost = IF waits /\ hist.quiet > 0 THEN @
                    ELSE waits /\ 2 * (hist.since - Period) >= Wrap]
  /\ UNCHANGED <<access, eeprom, sync, stored, body, call, online, latest, chat,
                 boots>>

\* A power cut at any point.  What the EEPROM holds comes back, whatever sets and
\* revocations came since it was written; the network's own codes do not.
Boot ==
  /\ boots < MaxBoots
  /\ boots' = boots + 1
  /\ \E readable \in SUBSET SlotIndex : access' = Restored(readable, chip)
  /\ unsaved' = 0
  /\ sync' = SyncInit(stored, 0)
  /\ body' = NoBody
  /\ call' = [c \in Callers |-> Idle]
  /\ now' = 0
  /\ online' = FALSE
  /\ hist' = HistoryAtBoot(access')
  /\ UNCHANGED <<chip, stored, latest, chat>>

Step(c) ==
  \/ FetchFails(c) \/ Parsed(c) \/ ParseFails(c)
  \/ Applied(c) \/ NothingApplied(c) \/ Saved(c)

Next ==
  \/ TaskPolls \/ ConsolePolls
  \/ \E c \in Callers, g \in Generations : Fetched(c, g)
  \/ \E c \in Callers : Step(c)
  \/ PushArrives \/ PushLost \/ DevCodesLeave
  \/ \E id \in Ids : DevCodeAdded(id) \/ CodeDel(id)
  \/ \E id \in Ids, h \in Hashes : CodePersist(id, h)
  \/ CodePersistSaves
  \/ \E all \in BOOLEAN : CodeErase(all)
  \/ Publish \/ LinkChanges \/ Elapse
  \/ Boot

Spec == Init /\ [][Next]_vars

\* The sync task runs, time passes, and of infinitely many polls one brings
\* back the set the backend holds.
FairSpec ==
  /\ Spec
  /\ WF_vars(Elapse) /\ WF_vars(Step(Task)) /\ WF_vars(TaskPolls)
  /\ SF_vars(Fetched(Task, latest))

-----------------------------------------------------------------------------
\* The table holds every usable entry of generation g that fits.
HoldsWhatFits(ac, g) ==
  \A e \in EntriesOf(g) :
    e.valid_from < e.valid_until => e \in Guests(ac) \/ FreeSlots(ac) = {}

\* However polls, pushes and console commands interleave, a guest code in the table
\* is of the set of the generation held, or came beside it since: no code a newer
\* set dropped stays, be it of an older set, pushed, stored or restored
\* (sync_apply replaces, and validates before it touches).  Until the first set
\* after a boot the table is what the EEPROM brought back, dropped codes too.
GuestsAreAccountedFor ==
  Guests(access) \subseteq hist.extra \union
     (IF sync.ever_synced THEN EntriesOf(sync.generation) ELSE {})

\* What a reboot would hold is never ahead of what was installed.
StoredIsBehind == stored <= sync.generation

\* Between two boots the generation held never goes back, whichever of the
\* callers brings an old answer late; nor does what the next boot starts from get
\* ahead of it, so that no set that should be applied is refused as old.
NeverOlder ==
  [][ /\ boots' = boots => sync'.generation >= sync.generation
      /\ StoredIsBehind' ]_vars

\* Installing a set leaves the dev codes alone and leaves out only what does
\* not fit.
InstallsWholeSet ==
  [][ \A c \in Callers : call[c].at = "apply" /\ call'[c].at = "save"
        => /\ Transients(access') = Transients(access)
           /\ HoldsWhatFits(access', call[c].gen) ]_vars

\* Once the link stays up, and the backend stops at a set that verifies, the gate
\* comes to hold it, whatever answers were lost, late or old, and wherever the
\* millisecond counter stood when the link came back.  Nothing brings back what
\* is removed from the table after that, or makes use of the room: a poll that
\* finds the generation unchanged installs nothing.
Converges ==
  <>[]online
    => <>[](Acceptable(SetOf[latest])
              => /\ sync.generation = latest
                 /\ HoldsWhatFits(access, latest) \/ hist.removed)

\* ADR 0007: a poll "every 15 minutes while the station is connected".  An idle
\* task that is online polls within a period, unless the poll had been due for
\* half the counter when the wait began: then its deadline reads as a future
\* one (sync_due).
PollsInTime == hist.quiet > Period => hist.lost

\* Nor do the task's polls come closer than a period, wherever the counter
\* stands, except after an old answer, which sets no new deadline.
PollsSpaced ==
  call[Task].at = "idle" /\ call'[Task].at = "fetch"
    => hist.gap >= Period \/ hist.old

\* The task polls when it should, neither late nor early (sync_due, schedule_next).
PollsOnTime == [][PollsInTime' /\ PollsSpaced]_vars
=============================================================================
