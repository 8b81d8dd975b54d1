------------------------------ MODULE TgClient ------------------------------
(***************************************************************************)
(* components/tg_client: the courier that brings single codes through a    *)
(* Telegram chat (tg_client.c), when it asks and what it acknowledges      *)
(* (tg_poll.c), and which lines it believes (tg_proto.c).                  *)
(*                                                                         *)
(* The chat is open to anybody.  A post is a line of the backend, named by *)
(* its counter, perhaps posted again later by somebody who kept a copy; or *)
(* junk, which tg_parse refuses, -n for one as large as n of these lines.  *)
(* The update ids are 1, 2, ...: the posts' numbers.  Telegram returns the *)
(* oldest it holds and drops what an offset acknowledges, or what is old.  *)
(* Two numbers survive a reboot: the offset, a receipt, and the counter,   *)
(* the replay boundary; the codes do not.                                  *)
(***************************************************************************)
EXTENDS GuestTable, Millis

CONSTANTS
  Script,      \* the backend's messages, in the order of their counters
  BackendIds,  \* ids of 8 lowercase hex digits
  BatchLimit,  \* BATCH_LIMIT
  BodyMax,     \* BODY_MAX, in lines of the backend
  JunkSizes,   \* how large other posts are
  MinGap,      \* TG_MIN_GAP_MS
  BackoffMin, BackoffMax,  \* TG_BACKOFF_MIN_MS, TG_BACKOFF_MAX_MS
  MaxPosts, MaxBoots       \* bounds

Counters == 1..Len(Script)

Junk == {-n : n \in JunkSizes}

Message == [op : {"add", "rev"}, id : Ids, hash : Hashes,
            valid_from : Int, valid_until : Int]

ASSUME TgAssumption ==
  /\ Script \in Seq(Message)
  /\ BackendIds \subseteq Ids
  /\ {BatchLimit, BodyMax} \subseteq Nat \ {0} /\ BatchLimit <= BodyMax
  /\ JunkSizes \subseteq Nat \ {0}
  /\ {MinGap, BackoffMin, BackoffMax} \subseteq Nat \ {0}
  /\ 2 * MinGap < Wrap /\ 2 * BackoffMax < Wrap /\ BackoffMin <= BackoffMax
  /\ MaxPosts \in Nat /\ MaxBoots \in Nat

VARIABLES
  access,   \* the table, as far as this client fills it
  poll,     \* s_poll
  counter,  \* s_counter
  nvs,      \* the two numbers in flash
  task,     \* where tg_task is, what it asked for, and what is left to handle
  due_in,   \* s_poll.next_due_ms - now_ms(), modulo Wrap
  online,   \* net_link_sta_connected()
  posts,    \* the chat: every post so far
  dropped,  \* Telegram holds the posts after this one
  boots,
  hist      \* history: read by no action

vars == <<access, poll, counter, nvs, task, due_in, online, posts, dropped,
          boots, hist>>

Updates == 0..MaxPosts

PollContext == [offset : Updates, backoff_ms : 0..BackoffMax,
                offset_dirty : BOOLEAN, fatal : BOOLEAN]

\* Due at once.
TgPollInit(stored_offset) ==
  [offset |-> stored_offset, backoff_ms |-> 0, offset_dirty |-> FALSE,
   fatal |-> FALSE]

Resting == [at |-> "rest", ask |-> 0, batch |-> <<>>]

TypeOK ==
  /\ access \in Context
  /\ poll \in PollContext
  /\ counter \in 0..Len(Script)
  /\ nvs \in [offset : Updates, counter : 0..Len(Script)]
  /\ task \in [at : {"rest", "request", "batch", "counter"},
               ask : 0..(MaxPosts + 1), batch : Seq(Updates \ {0})]
  /\ due_in \in Reading
  /\ online \in BOOLEAN
  /\ posts \in Seq(Counters \union Junk) /\ Len(posts) \in Updates
  /\ dropped \in Updates
  /\ boots \in 0..MaxBoots
  /\ hist \in [handled : Updates, kept : SUBSET Counters]

Init ==
  /\ access = AcInit
  /\ nvs = [offset |-> 0, counter |-> 0]
  /\ counter = 0
  /\ poll = TgPollInit(0)
  /\ task = Resting
  /\ due_in = 0
  /\ online = FALSE
  /\ posts = <<>>
  /\ dropped = 0
  /\ boots = 0
  /\ hist = [handled |-> 0, kept |-> {}]

-----------------------------------------------------------------------------
(* tg_poll *)

TgPollDue == ~poll.fatal /\ online /\ NotBefore(0, due_in)

\* Mutant of NextOffset: one too many is acknowledged.
NextOffsetSkips(p) == IF p.offset = 0 THEN 0 ELSE p.offset + 2

\* 0 asks for whatever is held.
NextOffset(p) == IF p.offset = 0 THEN 0 ELSE p.offset + 1

\* tg_poll_ok, and the tg_poll_persisted that follows it.
TgPollOk ==
  /\ due_in' = MinGap
  /\ poll' = [poll EXCEPT !.backoff_ms = 0, !.offset_dirty = FALSE]

\* Mutant of NextBackoff: doubled first, clamped never.
NextBackoffUnclamped(backoff_ms) ==
  IF backoff_ms = 0 THEN BackoffMin ELSE 2 * backoff_ms

\* Clamped before it is doubled.
NextBackoff(backoff_ms) ==
  CASE backoff_ms = 0                  -> BackoffMin
    [] backoff_ms > BackoffMax \div 2  -> BackoffMax
    [] OTHER                           -> 2 * backoff_ms

TgPollFailed ==
  LET next == NextBackoff(poll.backoff_ms)
  IN  due_in' = next % Wrap /\ poll' = [poll EXCEPT !.backoff_ms = next]

TgPollConsume(p, update_id) ==
  IF update_id <= p.offset THEN p
  ELSE [p EXCEPT !.offset = update_id, !.offset_dirty = TRUE]

-----------------------------------------------------------------------------
(* tg_proto *)

\* Only the backend's lines verify; a copy verifies too, so the counter must be
\* beyond the last one accepted.
TgParse(line, last_counter) ==
  IF line \notin Counters THEN "MAC"
  ELSE IF line <= last_counter THEN "REPLAY"
  ELSE IF Script[line].id \notin BackendIds THEN "ID"
  ELSE IF Script[line].op = "add"
            /\ Script[line].valid_until < Script[line].valid_from THEN "WINDOW"
  ELSE "OK"

-----------------------------------------------------------------------------
(* tg_client: tg_task and poll_once *)

PollBegins ==
  /\ task.at = "rest"
  /\ TgPollDue
  /\ task' = [task EXCEPT !.at = "request", !.ask = NextOffset(poll)]
  /\ UNCHANGED <<access, poll, counter, nvs, due_in, online, posts, dropped, boots,
                 hist>>

Smaller(a, b) == IF a < b THEN a ELSE b

\* What Telegram has dropped once it has seen the offset.
Dropping ==
  IF task.ask > dropped + 1 THEN Smaller(task.ask - 1, Len(posts)) ELSE dropped

Answer(first) ==
  [n \in 1..Smaller(BatchLimit, Len(posts) - first + 1) |-> first + n - 1]

Size(line) == IF line > 0 THEN 1 ELSE -line

\* on_http_event: the updates of an answer have to fit the buffer together.
Fits(batch) ==
  LET sum[n \in 0..Len(batch)] ==
        IF n = 0 THEN 0 ELSE sum[n - 1] + Size(posts[batch[n]])
  IN  sum[Len(batch)] <= BodyMax

\* The oldest updates, or none at the end of the long poll: a body that fits.
Answered ==
  /\ task.at = "request"
  /\ dropped' = Dropping
  /\ Fits(Answer(dropped' + 1))
  /\ task' = [task EXCEPT !.at = "batch", !.batch = Answer(dropped' + 1)]
  /\ UNCHANGED <<access, poll, counter, nvs, due_in, online, posts, boots, hist>>

RequestFails ==
  /\ task.at = "request"
  /\ TgPollFailed
  /\ task' = Resting
  /\ UNCHANGED <<access, counter, nvs, online, posts, boots, hist>>

\* The body is larger than BODY_MAX: the answer is refused whole, and asked for
\* again.
AnsweredTooLong ==
  /\ RequestFails
  /\ dropped' = Dropping
  /\ ~Fits(Answer(dropped' + 1))

\* No connection, a timeout, a status that is not 200, a body that is no JSON or
\* says it is not ok.  Telegram may have seen the offset.
NotAnswered == RequestFails /\ dropped' \in {dropped, Dropping}

\* 401 or 404: the bot's token is refused.
TokenRefused ==
  /\ task.at = "request"
  /\ poll' = [poll EXCEPT !.fatal = TRUE]
  /\ task' = Resting
  /\ UNCHANGED <<access, counter, nvs, due_in, online, posts, dropped, boots, hist>>

-----------------------------------------------------------------------------
(* tg_client: handle_body, one update after the other *)

Update == Head(task.batch)

Larger(a, b) == IF a < b THEN b ELSE a

\* Mutant of Consumed: a refused line is not acknowledged.
ConsumedIfBelieved(p) ==
  IF TgParse(posts[Update], counter) # "OK" THEN p ELSE TgPollConsume(p, Update)

\* Whatever the update holds, it is acknowledged first.
Consumed(p) == TgPollConsume(p, Update)

UpdateRefused ==
  /\ task.at = "batch" /\ task.batch # <<>>
  /\ TgParse(posts[Update], counter) # "OK"
  /\ poll' = Consumed(poll)
  /\ task' = [task EXCEPT !.batch = Tail(@)]
  /\ hist' = [hist EXCEPT !.handled = Larger(@, Update)]
  /\ UNCHANGED <<access, counter, nvs, due_in, online, posts, dropped, boots>>

\* apply(), under the mutex; an add may find the table full.
UpdateApplied ==
  LET m == Script[posts[Update]]
  IN  /\ task.at = "batch" /\ task.batch # <<>>
      /\ TgParse(posts[Update], counter) = "OK"
      /\ poll' = Consumed(poll)
      /\ access' = IF m.op = "add"
                   THEN AcUpsert(access, m.id, m.hash, m.valid_from, m.valid_until).ac
                   ELSE AcRevoke(access, m.id)
      /\ task' = [task EXCEPT !.at = "counter"]
      /\ UNCHANGED <<counter, nvs, due_in, online, posts, dropped, boots, hist>>

\* Only then the replay boundary moves, in RAM and in flash; save_u64 does not
\* say whether it could write.
CounterSaved(ok) ==
  /\ task.at = "counter"
  /\ counter' = posts[Update]
  /\ nvs' = [nvs EXCEPT !.counter = IF ok THEN counter' ELSE @]
  /\ task' = [task EXCEPT !.at = "batch", !.batch = Tail(@)]
  /\ hist' = [hist EXCEPT !.handled = Larger(@, Update),
                          !.kept = IF ok THEN @ \union {counter'} ELSE @]
  /\ UNCHANGED <<access, poll, due_in, online, posts, dropped, boots>>

\* The end of the batch: the offset is written once, and taken for written.
BatchEnds(ok) ==
  /\ task.at = "batch" /\ task.batch = <<>>
  /\ nvs' = [nvs EXCEPT !.offset = IF poll.offset_dirty /\ ok THEN poll.offset ELSE @]
  /\ TgPollOk
  /\ task' = Resting
  /\ UNCHANGED <<access, counter, online, posts, dropped, boots, hist>>

-----------------------------------------------------------------------------
(* The chat, Telegram, the link, time and the supply *)

\* The backend's next message; or junk of any size, or a copy of an old line.
Posted(line) ==
  /\ Len(posts) < MaxPosts
  /\ line > 1 => \E u \in DOMAIN posts : posts[u] >= line - 1
  /\ posts' = Append(posts, line)
  /\ UNCHANGED <<access, poll, counter, nvs, task, due_in, online, dropped, boots, hist>>

\* Telegram keeps an update for a day.
Expires ==
  /\ task.at # "request"
  /\ dropped < Len(posts)
  /\ dropped' = dropped + 1
  /\ UNCHANGED <<access, poll, counter, nvs, task, due_in, online, posts, boots, hist>>

\* Looked at by a task that rests only; so is the time.
LinkChanges ==
  /\ task.at = "rest"
  /\ online' = ~online
  /\ UNCHANGED <<access, poll, counter, nvs, task, due_in, posts, dropped, boots, hist>>

\* A task that rests looks four times a second: it does not miss that a request
\* is due.
Elapse ==
  /\ task.at = "rest" /\ ~poll.fatal
  /\ ~TgPollDue
  /\ due_in' = (due_in - 1) % Wrap
  /\ UNCHANGED <<access, poll, counter, nvs, task, online, posts, dropped, boots, hist>>

\* Mutant of Restored: the counter is not read back.
RestoredOffsetOnly == [nvs EXCEPT !.counter = 0]

Restored == nvs

\* A power cut at any point; tg_client_init reads both numbers back.
Boot ==
  /\ boots < MaxBoots
  /\ boots' = boots + 1
  /\ access' = AcInit
  /\ counter' = Restored.counter
  /\ poll' = TgPollInit(Restored.offset)
  /\ task' = Resting
  /\ due_in' = 0
  /\ online' = FALSE
  /\ UNCHANGED <<nvs, posts, dropped, hist>>

RequestEnds == Answered \/ AnsweredTooLong \/ NotAnswered \/ TokenRefused

HandleBody ==
  \/ UpdateRefused \/ UpdateApplied
  \/ \E ok \in BOOLEAN : CounterSaved(ok) \/ BatchEnds(ok)

Next ==
  \/ PollBegins \/ RequestEnds \/ HandleBody
  \/ \E line \in Counters \union Junk : Posted(line)
  \/ Expires \/ LinkChanges \/ Elapse \/ Boot

Spec == Init /\ [][Next]_vars

\* The task runs, time passes, and of infinitely many requests whose answer
\* would fit one is answered.
FairSpec ==
  /\ Spec
  /\ WF_vars(PollBegins) /\ WF_vars(RequestEnds) /\ WF_vars(HandleBody)
  /\ WF_vars(Elapse)
  /\ SF_vars(Answered)

-----------------------------------------------------------------------------
AddsOf(slot) ==
  {n \in Counters : Script[n].op = "add" /\ Script[n].id = slot.id
                      /\ Script[n].hash = slot.hash}

\* A code whose revocation was accepted, and whose counter reached the flash,
\* never comes back, whatever copies are posted and wherever the supply fails
\* (tg_proto.h: "revocation would be reversible by anyone who kept a copy").
RevokedStaysRevoked ==
  \A i \in SlotIndex : access.slots[i].occupied =>
    \E n \in AddsOf(access.slots[i]) :
      \A r \in hist.kept : r > n =>
        ~(Script[r].op = "rev" /\ Script[r].id = access.slots[i].id)

\* Telegram drops an update on our word only when it was handled to the end, so
\* no crash between the batch and its receipt loses a code that was still held.
AcknowledgedWasHandled ==
  [][ dropped' > hist.handled /\ dropped' # dropped => Expires ]_vars

\* Telegram has dropped it, or will with the next request.
Left(u) == u <= dropped \/ u <= poll.offset

\* The next answer, of the posts that are neither dropped nor acknowledged, is too
\* large.
Overflows == ~Fits(Answer(Larger(dropped, poll.offset) + 1))

\* With the link up, and a token that is not refused, no post keeps the channel
\* from the next one: again and again all that was posted is acknowledged or dropped,
\* across any wrap of the counter.  (tg_poll.h: "The one thing that must not happen
\* is getting stuck".)  The exception is an answer too large for the buffer, because
\* of one update or of all together, for as long as it is: AnsweredTooLong asks for
\* it again and again, until Telegram drops its first.
ChannelAdvances ==
  <>[]online =>
    \/ []<>(poll.fatal \/ \A u \in DOMAIN posts : Left(u))
    \/ <>[]Overflows
=============================================================================
