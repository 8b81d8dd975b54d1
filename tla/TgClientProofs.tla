--------------------------- MODULE TgClientProofs ---------------------------
(***************************************************************************)
(* Proofs about TgClient, for every script of the backend, every size of   *)
(* the table and of the batch, and every bound.  The argument: IndInv is   *)
(* an inductive invariant.  Its core is Believed, which says of every code *)
(* in the table that it was believed after every revocation whose counter  *)
(* reached the flash, and Receipt, which says how far the acknowledgement  *)
(* may be ahead of the handling.                                           *)
(***************************************************************************)
EXTENDS TgClient, OperatorProofs

Handling == task.at \in {"batch", "counter"}

\* The updates of a batch are posts of the chat; a line whose counter is about
\* to be saved was believed.
BatchIsPosted ==
  /\ Handling => \A n \in DOMAIN task.batch : task.batch[n] \in DOMAIN posts
  /\ task.at = "counter" =>
       task.batch # <<>> /\ TgParse(posts[Update], counter) = "OK"

\* The boundary in RAM is never behind the one in flash, and that one is never
\* behind a counter that reached it.
BoundaryHolds ==
  /\ nvs.counter <= counter
  /\ \A r \in hist.kept : r <= nvs.counter

OneSlotPerId ==
  \A i, j \in SlotIndex :
    access.slots[i].occupied /\ access.slots[j].occupied
      /\ access.slots[i].id = access.slots[j].id => i = j

\* While the counter of a revocation waits to be saved, its code is gone.
RevokedFirst ==
  task.at = "counter" /\ Script[posts[Update]].op = "rev" =>
    \A i \in SlotIndex : access.slots[i].occupied =>
      access.slots[i].id # Script[posts[Update]].id

Believed == OneSlotPerId /\ RevokedFirst /\ RevokedStaysRevoked

\* What was acknowledged, or is asked for, was handled to the end; the update
\* in hand is the only one that may be acknowledged before.
Receipt ==
  /\ nvs.offset <= hist.handled
  /\ poll.offset <= IF task.at = "counter" THEN Larger(hist.handled, Update)
                                           ELSE hist.handled
  /\ task.at = "request" => task.ask <= hist.handled + 1

IndInv == TypeOK /\ BatchIsPosted /\ BoundaryHolds /\ Believed /\ Receipt

-----------------------------------------------------------------------------
(* The chat and the script *)

\* Numbers the bounds and the timings are.
LEMMA Numbers ==
  /\ MaxPosts \in Nat /\ MaxBoots \in Nat /\ Len(Script) \in Nat
  /\ BackoffMin \in Nat /\ BackoffMax \in Nat /\ BackoffMin <= BackoffMax
  /\ BatchLimit \in Nat \ {0}
  /\ 0 \in Reading /\ MinGap \in Reading
  /\ Updates \subseteq Nat /\ 0 \in Updates
  /\ 0 \in 0..Len(Script) /\ 0 \in 0..BackoffMax /\ 0 \in 0..MaxBoots
BY TgAssumption, WrapAssumption, LenProperties DEF Reading, Updates

\* A line of the script is a message of the backend.
LEMMA ScriptFacts ==
  ASSUME NEW n \in Counters
  PROVE  /\ n \in Nat /\ n > 0
         /\ Script[n] \in Message
         /\ Script[n].op \in {"add", "rev"}
         /\ Script[n].id \in Ids /\ Script[n].hash \in Hashes
         /\ Script[n].valid_from \in Int /\ Script[n].valid_until \in Int
<1>1. n \in Nat /\ n > 0
  BY Numbers DEF Counters
<1>2. Script[n] \in Message
  BY TgAssumption, ElementOfSeq DEF Counters
<1> QED
  BY <1>1, <1>2 DEF Message

\* The update in hand is a post of the chat, and so are those left.
LEMMA HeadFacts ==
  ASSUME TypeOK, BatchIsPosted, Handling, task.batch # <<>>
  PROVE  /\ Update \in Updates \ {0} /\ Update \in DOMAIN posts
         /\ posts[Update] \in Counters \union Junk
         /\ Tail(task.batch) \in Seq(Updates \ {0})
         /\ \A n \in DOMAIN Tail(task.batch) : Tail(task.batch)[n] \in DOMAIN posts
<1>1. task.batch \in Seq(Updates \ {0}) /\ posts \in Seq(Counters \union Junk)
  BY DEF TypeOK
<1>2. /\ Update \in Updates \ {0} /\ Tail(task.batch) \in Seq(Updates \ {0})
      /\ Len(Tail(task.batch)) = Len(task.batch) - 1
      /\ \A n \in 1..Len(Tail(task.batch)) : Tail(task.batch)[n] = task.batch[n + 1]
  BY <1>1, HeadTailProperties DEF Update
<1>3. /\ DOMAIN task.batch = 1..Len(task.batch) /\ Len(task.batch) \in Nat \ {0}
      /\ DOMAIN Tail(task.batch) = 1..Len(Tail(task.batch))
      /\ DOMAIN posts = 1..Len(posts)
  BY <1>1, <1>2, LenProperties, EmptySeq
<1>4. Update = task.batch[1]
  BY DEF Update
<1>5. \A n \in DOMAIN task.batch : task.batch[n] \in DOMAIN posts
  BY DEF BatchIsPosted
<1>6. Update \in DOMAIN posts
  BY <1>3, <1>4, <1>5
<1>7. ASSUME NEW n \in DOMAIN Tail(task.batch)
      PROVE  Tail(task.batch)[n] \in DOMAIN posts
  <2>1. n \in 1..Len(Tail(task.batch)) /\ n + 1 \in DOMAIN task.batch
    BY <1>2, <1>3, <1>7
  <2> QED
    BY <1>2, <1>5, <2>1
<1>8. posts[Update] \in Counters \union Junk
  BY <1>1, <1>3, <1>6, ElementOfSeq
<1> QED
  BY <1>2, <1>6, <1>7, <1>8

\* What tg_parse accepts is a line of the backend beyond the boundary, for a
\* code of the backend's own range.
LEMMA ParseFacts ==
  ASSUME NEW line, NEW last, TgParse(line, last) = "OK"
  PROVE  line \in Counters /\ ~(line <= last) /\ Script[line].id \in BackendIds
BY DEF TgParse

\* tg_poll_failed's backoff stays between its bounds.
LEMMA BackoffType ==
  ASSUME NEW b \in 0..BackoffMax
  PROVE  NextBackoff(b) \in 0..BackoffMax
<1>1. CASE b = 0
  BY <1>1, Numbers DEF NextBackoff
<1>2. CASE b # 0 /\ b > BackoffMax \div 2
  BY <1>2, Numbers DEF NextBackoff
<1>3. CASE b # 0 /\ ~(b > BackoffMax \div 2)
  <2>1. NextBackoff(b) = 2 * b
    BY <1>3 DEF NextBackoff
  <2>2. 2 * b \in 0..BackoffMax
    BY <1>3, Numbers
  <2> QED
    BY <2>1, <2>2
<1> QED
  BY <1>1, <1>2, <1>3

\* An answer is a run of consecutive posts Telegram still holds.
LEMMA AnswerFacts ==
  ASSUME TypeOK, NEW first \in Nat \ {0}
  PROVE  /\ Answer(first) \in Seq(Updates \ {0})
         /\ \A n \in DOMAIN Answer(first) : Answer(first)[n] \in DOMAIN posts
<1> DEFINE k == Smaller(BatchLimit, Len(posts) - first + 1)
<1>1. posts \in Seq(Counters \union Junk) /\ Len(posts) \in Updates
  BY DEF TypeOK
<1>2. DOMAIN posts = 1..Len(posts) /\ Len(posts) \in Nat /\ Len(posts) <= MaxPosts
  BY <1>1, LenProperties, Numbers DEF Updates
<1>3. k \in Int /\ k <= Len(posts) - first + 1
  BY <1>2, Numbers DEF Smaller
<1>4. Answer(first) = [n \in 1..k |-> first + n - 1]
  BY DEF Answer
<1> HIDE DEF k
<1>5. \A n \in 1..k : first + n - 1 \in Updates \ {0} /\ first + n - 1 \in DOMAIN posts
  BY <1>2, <1>3, Numbers DEF Updates
<1>6. PICK m \in Nat : 1..k = 1..m
  <2>1. CASE k \in Nat
    BY <2>1
  <2>2. CASE k \notin Nat
    <3>1. 1..k = 1..0
      BY <1>3, <2>2
    <3> QED
      BY <3>1
  <2> QED
    BY <2>1, <2>2
<1>7. Answer(first) \in [1..m -> Updates \ {0}]
  BY <1>4, <1>5, <1>6
<1>8. Answer(first) \in Seq(Updates \ {0})
  BY <1>7, SeqDef
<1> QED
  BY <1>4, <1>5, <1>8

-----------------------------------------------------------------------------
(* The invariant, conjunct by conjunct *)

\* tg_client_init on an empty flash.
LEMMA InitInv == Init => IndInv
<1> SUFFICES ASSUME Init PROVE IndInv
  OBVIOUS
<1>1. access \in Context /\ \A i \in SlotIndex : ~access.slots[i].occupied
  <2>1. EmptySlot \in Slot /\ ~EmptySlot.occupied
    BY DEF EmptySlot, Slot
  <2>2. 0 \in 0..CounterMax
    BY PolicyAssumption
  <2> QED
    BY <2>1, <2>2 DEF Init, AcInit, Context
<1>2. poll = [offset |-> 0, backoff_ms |-> 0, offset_dirty |-> FALSE, fatal |-> FALSE]
  BY DEF Init, TgPollInit
<1>3. poll \in PollContext /\ nvs \in [offset : Updates, counter : 0..Len(Script)]
  <2>1. poll \in PollContext
    BY <1>2, Numbers DEF PollContext
  <2>2. nvs \in [offset : Updates, counter : 0..Len(Script)]
    BY Numbers DEF Init
  <2> QED
    BY <2>1, <2>2
<1>4. task = [at |-> "rest", ask |-> 0, batch |-> <<>>]
  BY DEF Init, Resting
<1>5. task \in [at : {"rest", "request", "batch", "counter"},
               ask : 0..(MaxPosts + 1), batch : Seq(Updates \ {0})]
  <2>1. 0 \in 0..(MaxPosts + 1) /\ <<>> \in Seq(Updates \ {0})
    BY Numbers, EmptySeq
  <2> QED
    BY <1>4, <2>1
<1>6. posts \in Seq(Counters \union Junk) /\ Len(posts) \in Updates
  BY Numbers, EmptySeq DEF Init
<1>7. TypeOK
  <2>1. hist \in [handled : Updates, kept : SUBSET Counters]
    BY Numbers DEF Init
  <2>2. due_in \in Reading /\ online \in BOOLEAN
    BY Numbers DEF Init
  <2>3. counter \in 0..Len(Script) /\ dropped \in Updates /\ boots \in 0..MaxBoots
    BY Numbers DEF Init
  <2> QED
    BY <1>1, <1>3, <1>5, <1>6, <2>1, <2>2, <2>3 DEF TypeOK
<1>8. BatchIsPosted /\ RevokedFirst
  BY <1>4 DEF BatchIsPosted, RevokedFirst, Handling
<1>9. BoundaryHolds
  BY DEF Init, BoundaryHolds
<1>10. OneSlotPerId /\ RevokedStaysRevoked
  BY <1>1 DEF OneSlotPerId, RevokedStaysRevoked
<1>11. Receipt
  BY <1>2, <1>4 DEF Init, Receipt
<1> QED
  BY <1>7, <1>8, <1>9, <1>10, <1>11 DEF IndInv, Believed

\* Before a request the task holds nothing of a batch.
LEMMA RequestFailsFacts ==
  ASSUME TypeOK, RequestFails
  PROVE  /\ poll' \in PollContext /\ poll'.offset = poll.offset
         /\ due_in' \in Reading
         /\ task' = Resting
         /\ UNCHANGED <<access, counter, nvs, online, posts, boots, hist>>
<1> DEFINE next == NextBackoff(poll.backoff_ms)
<1>1. poll \in PollContext /\ poll.backoff_ms \in 0..BackoffMax
  BY DEF TypeOK, PollContext
<1>2. next \in 0..BackoffMax
  BY <1>1, BackoffType
<1>3. due_in' = next % Wrap /\ poll' = [poll EXCEPT !.backoff_ms = next]
  BY DEF RequestFails, TgPollFailed
<1> HIDE DEF next
<1>4. due_in' \in Reading
  BY <1>2, <1>3, Numbers, WrapAssumption DEF Reading
<1>5. poll' \in PollContext /\ poll'.offset = poll.offset
  BY <1>1, <1>2, <1>3 DEF PollContext
<1> QED
  BY <1>4, <1>5 DEF RequestFails

\* What Telegram drops is named by an update.
LEMMA DroppingType == TypeOK => Dropping \in Updates
BY Numbers DEF TypeOK, Dropping, Smaller, Updates

\* tg_poll_consume only moves the offset forward.
LEMMA ConsumedFacts ==
  ASSUME TypeOK, Update \in Updates
  PROVE  /\ Consumed(poll) \in PollContext
         /\ Consumed(poll).offset = Larger(poll.offset, Update)
<1>1. poll \in PollContext /\ poll.offset \in Nat /\ Update \in Nat
  BY Numbers DEF TypeOK, PollContext
<1>2. CASE Update <= poll.offset
  <2>1. Consumed(poll) = poll
    BY <1>2 DEF Consumed, TgPollConsume
  <2> QED
    BY <1>1, <1>2, <2>1 DEF Larger
<1>3. CASE ~(Update <= poll.offset)
  <2>1. Consumed(poll) = [poll EXCEPT !.offset = Update, !.offset_dirty = TRUE]
    BY <1>3 DEF Consumed, TgPollConsume
  <2> QED
    <3>1. Consumed(poll) \in PollContext /\ Consumed(poll).offset = Update
      BY <1>1, <2>1 DEF PollContext
    <3> QED
      BY <1>1, <1>3, <3>1 DEF Larger
<1> QED
  BY <1>2, <1>3

\* Every step keeps the types, and the batch a list of posts.
LEMMA TypeInv == IndInv /\ [Next]_vars => TypeOK' /\ BatchIsPosted'
<1> SUFFICES ASSUME IndInv, [Next]_vars PROVE TypeOK' /\ BatchIsPosted'
  OBVIOUS
<1> DEFINE TaskType == [at : {"rest", "request", "batch", "counter"},
                        ask : 0..(MaxPosts + 1), batch : Seq(Updates \ {0})]
<1>1. TypeOK /\ BatchIsPosted /\ task \in TaskType /\ poll \in PollContext
  BY DEF IndInv, TypeOK
<1>2. Resting \in TaskType /\ Resting.at = "rest" /\ Resting.batch = <<>>
  <2>1. 0 \in 0..(MaxPosts + 1) /\ <<>> \in Seq(Updates \ {0})
    BY Numbers, EmptySeq
  <2> QED
    BY <2>1 DEF Resting
<1>3. CASE PollBegins
  <2>1. NextOffset(poll) \in 0..(MaxPosts + 1)
    BY <1>1, Numbers DEF NextOffset, PollContext, Updates
  <2>2. task' = [task EXCEPT !.at = "request", !.ask = NextOffset(poll)]
    BY <1>3 DEF PollBegins
  <2>3. task' \in TaskType /\ task'.at = "request"
    BY <1>1, <2>1, <2>2
  <2> QED
    BY <1>1, <1>3, <2>3 DEF PollBegins, TypeOK, BatchIsPosted, Handling
<1>4. CASE Answered
  <2>1. dropped' \in Updates /\ dropped' + 1 \in Nat \ {0}
    BY <1>1, <1>4, DroppingType, Numbers DEF Answered
  <2> DEFINE batch == Answer(dropped' + 1)
  <2>2. batch \in Seq(Updates \ {0}) /\ \A n \in DOMAIN batch : batch[n] \in DOMAIN posts
    BY <1>1, <2>1, AnswerFacts
  <2>3. task' = [task EXCEPT !.at = "batch", !.batch = batch]
    BY <1>4 DEF Answered
  <2> HIDE DEF batch
  <2>4. task' \in TaskType /\ task'.at = "batch" /\ task'.batch = batch
    BY <1>1, <2>2, <2>3
  <2> QED
    BY <1>1, <1>4, <2>1, <2>2, <2>4 DEF Answered, TypeOK, BatchIsPosted, Handling
<1>5. CASE RequestFails /\ dropped' \in {dropped, Dropping}
  <2>1. dropped' \in Updates
    BY <1>1, <1>5, DroppingType DEF TypeOK
  <2> QED
    BY <1>1, <1>2, <1>5, <2>1, RequestFailsFacts DEF TypeOK, BatchIsPosted, Handling
<1>6. CASE TokenRefused
  <2>1. poll' \in PollContext
    BY <1>1, <1>6 DEF TokenRefused, PollContext
  <2> QED
    BY <1>1, <1>2, <1>6, <2>1 DEF TokenRefused, TypeOK, BatchIsPosted, Handling
<1>7. ASSUME Handling, task.batch # <<>>
      PROVE  /\ Update \in Updates \ {0} /\ posts[Update] \in Counters \union Junk
             /\ Tail(task.batch) \in Seq(Updates \ {0})
             /\ \A n \in DOMAIN Tail(task.batch) : Tail(task.batch)[n] \in DOMAIN posts
             /\ Larger(hist.handled, Update) \in Updates
  <2>1. Update \in Updates /\ hist.handled \in Updates
    BY <1>1, <1>7, HeadFacts DEF TypeOK
  <2>2. Larger(hist.handled, Update) \in Updates
    BY <2>1 DEF Larger
  <2> QED
    BY <1>1, <1>7, <2>2, HeadFacts
<1>8. CASE UpdateRefused
  <2>1. Handling /\ task.batch # <<>>
    BY <1>8 DEF UpdateRefused, Handling
  <2>2. poll' \in PollContext
    BY <1>1, <1>7, <1>8, <2>1, ConsumedFacts DEF UpdateRefused
  <2>3. task' = [task EXCEPT !.batch = Tail(task.batch)] /\ task.at = "batch"
    BY <1>8 DEF UpdateRefused
  <2>4. /\ task' \in TaskType /\ task'.at = "batch" /\ task'.batch = Tail(task.batch)
    BY <1>1, <1>7, <2>1, <2>3
  <2>5. hist' = [hist EXCEPT !.handled = Larger(hist.handled, Update)]
    BY <1>8 DEF UpdateRefused
  <2>6. hist' \in [handled : Updates, kept : SUBSET Counters]
    BY <1>1, <1>7, <2>1, <2>5 DEF TypeOK
  <2>7. \A n \in DOMAIN task'.batch : task'.batch[n] \in DOMAIN posts'
    BY <1>7, <1>8, <2>1, <2>4 DEF UpdateRefused
  <2>8. TypeOK'
    BY <1>1, <1>8, <2>2, <2>4, <2>6 DEF UpdateRefused, TypeOK
  <2> QED
    BY <2>4, <2>7, <2>8 DEF BatchIsPosted
<1>9. CASE UpdateApplied
  <2> DEFINE m == Script[posts[Update]]
  <2>1. Handling /\ task.batch # <<>> /\ TgParse(posts[Update], counter) = "OK"
    BY <1>9 DEF UpdateApplied, Handling
  <2>2. posts[Update] \in Counters
    BY <2>1, ParseFacts
  <2>3. poll' \in PollContext
    BY <1>1, <1>7, <1>9, <2>1, ConsumedFacts DEF UpdateApplied
  <2>4. task' = [task EXCEPT !.at = "counter"]
    BY <1>9 DEF UpdateApplied
  <2>5. task' \in TaskType /\ task'.at = "counter" /\ task'.batch = task.batch
    BY <1>1, <2>4
  <2>6. access' \in Context
    <3>1. /\ m.id \in Ids /\ m.hash \in Hashes
          /\ m.valid_from \in Int /\ m.valid_until \in Int
      BY <2>2, ScriptFacts
    <3>2. /\ access \in Context
          /\ \A i, j \in SlotIndex :
               access.slots[i].occupied /\ access.slots[j].occupied
                 /\ access.slots[i].id = access.slots[j].id => i = j
      BY <1>1 DEF IndInv, Believed, OneSlotPerId, TypeOK
    <3>3. access' \in {AcRevoke(access, m.id),
                      AcUpsert(access, m.id, m.hash, m.valid_from, m.valid_until).ac}
      BY <1>9 DEF UpdateApplied
    <3> HIDE DEF m
    <3>4. AcRevoke(access, m.id) \in Context
      BY <3>2, RevokeFacts
    <3>5. AcUpsert(access, m.id, m.hash, m.valid_from, m.valid_until).ac \in Context
      BY <3>1, <3>2, UpsertFacts
    <3> QED
      BY <3>3, <3>4, <3>5
  <2>7. TypeOK'
    BY <1>1, <1>9, <2>3, <2>5, <2>6 DEF UpdateApplied, TypeOK
  <2>8. posts' = posts /\ counter' = counter /\ Update' = Update
    BY <1>9, <2>5 DEF UpdateApplied, Update
  <2> QED
    BY <1>1, <2>1, <2>5, <2>7, <2>8 DEF BatchIsPosted, Handling
<1>10. ASSUME NEW ok \in BOOLEAN, CounterSaved(ok) PROVE TypeOK' /\ BatchIsPosted'
  <2>1. Handling /\ task.at = "counter"
    BY <1>10 DEF CounterSaved, Handling
  <2>2. task.batch # <<>> /\ posts[Update] \in Counters
    BY <1>1, <2>1, ParseFacts DEF BatchIsPosted
  <2>3. counter' \in Counters /\ counter' \in 0..Len(Script)
    BY <1>10, <2>2, ScriptFacts DEF CounterSaved, Counters
  <2>4. task' = [task EXCEPT !.at = "batch", !.batch = Tail(task.batch)]
    BY <1>10 DEF CounterSaved
  <2>5. task' \in TaskType /\ task'.at = "batch" /\ task'.batch = Tail(task.batch)
    BY <1>1, <1>7, <2>1, <2>2, <2>4
  <2>6. nvs' = [nvs EXCEPT !.counter = IF ok THEN counter' ELSE nvs.counter]
    BY <1>10 DEF CounterSaved
  <2>7. nvs' \in [offset : Updates, counter : 0..Len(Script)]
    BY <1>1, <2>3, <2>6 DEF TypeOK
  <2>8. hist' = [hist EXCEPT !.handled = Larger(hist.handled, Update),
                             !.kept = IF ok THEN hist.kept \union {counter'} ELSE hist.kept]
    BY <1>10 DEF CounterSaved
  <2>9. hist' \in [handled : Updates, kept : SUBSET Counters]
    BY <1>1, <1>7, <2>1, <2>2, <2>3, <2>8 DEF TypeOK
  <2>10. TypeOK'
    BY <1>1, <1>10, <2>3, <2>5, <2>7, <2>9 DEF CounterSaved, TypeOK
  <2>11. \A n \in DOMAIN task'.batch : task'.batch[n] \in DOMAIN posts'
    BY <1>7, <1>10, <2>1, <2>2, <2>5 DEF CounterSaved
  <2> QED
    BY <2>5, <2>10, <2>11 DEF BatchIsPosted
<1>11. ASSUME NEW ok \in BOOLEAN, BatchEnds(ok) PROVE TypeOK' /\ BatchIsPosted'
  <2>1. nvs' = [nvs EXCEPT !.offset = IF poll.offset_dirty /\ ok THEN poll.offset
                                                               ELSE nvs.offset]
    BY <1>11 DEF BatchEnds
  <2>2. nvs' \in [offset : Updates, counter : 0..Len(Script)]
    BY <1>1, <2>1 DEF TypeOK, PollContext
  <2>3. due_in' \in Reading
    BY <1>11, Numbers DEF BatchEnds, TgPollOk
  <2>4. poll' \in PollContext
    <3>1. poll' = [poll EXCEPT !.backoff_ms = 0, !.offset_dirty = FALSE]
      BY <1>11 DEF BatchEnds, TgPollOk
    <3> QED
      BY <1>1, <3>1, Numbers DEF PollContext
  <2> QED
    BY <1>1, <1>2, <1>11, <2>2, <2>3, <2>4 DEF BatchEnds, TypeOK, BatchIsPosted, Handling
<1>12. ASSUME NEW line \in Counters \union Junk, Posted(line)
       PROVE  TypeOK' /\ BatchIsPosted'
  <2>1. posts \in Seq(Counters \union Junk)
    BY <1>1 DEF TypeOK
  <2>2. /\ posts' \in Seq(Counters \union Junk)
        /\ Len(posts') = Len(posts) + 1
        /\ \A i \in 1..Len(posts) : posts'[i] = posts[i]
    BY <1>12, <2>1, AppendProperties DEF Posted
  <2>3. Len(posts) \in Nat /\ DOMAIN posts = 1..Len(posts) /\ DOMAIN posts' = 1..Len(posts')
    BY <2>1, <2>2, LenProperties
  <2>4. Len(posts') \in Updates
    BY <1>12, <2>2, <2>3, Numbers DEF Posted, Updates
  <2>5. TypeOK'
    BY <1>1, <1>12, <2>2, <2>4 DEF Posted, TypeOK
  <2>6. DOMAIN posts \subseteq DOMAIN posts' /\ task' = task /\ counter' = counter
    BY <1>12, <2>2, <2>3 DEF Posted
  <2>7. task.at = "counter" => posts'[Update] = posts[Update]
    BY <1>1, <2>2, <2>3, HeadFacts DEF BatchIsPosted, Handling
  <2>8. Update' = Update
    BY <2>6 DEF Update
  <2> QED
    BY <1>1, <2>5, <2>6, <2>7, <2>8 DEF BatchIsPosted, Handling
<1>13. CASE Expires
  <2>1. dropped' \in Updates
    BY <1>1, <1>13, Numbers DEF Expires, TypeOK, Updates
  <2> QED
    BY <1>1, <1>13, <2>1 DEF Expires, TypeOK, BatchIsPosted, Handling, Update
<1>14. CASE LinkChanges
  BY <1>1, <1>14 DEF LinkChanges, TypeOK, BatchIsPosted, Handling, Update
<1>15. CASE Elapse
  <2>1. due_in' \in Reading
    BY <1>1, <1>15, WrapAssumption DEF Elapse, TypeOK, Reading
  <2> QED
    BY <1>1, <1>15, <2>1 DEF Elapse, TypeOK, BatchIsPosted, Handling, Update
<1>16. CASE Boot
  <2>1. access' \in Context
    <3>1. EmptySlot \in Slot
      BY DEF EmptySlot, Slot
    <3>2. 0 \in 0..CounterMax
      BY PolicyAssumption
    <3> QED
      BY <1>16, <3>1, <3>2 DEF Boot, AcInit, Context
  <2>2. boots' \in 0..MaxBoots
    BY <1>1, <1>16, Numbers DEF Boot, TypeOK
  <2>3. poll' \in PollContext
    BY <1>1, <1>16, Numbers DEF Boot, TgPollInit, Restored, TypeOK, PollContext
  <2>4. counter' \in 0..Len(Script) /\ due_in' \in Reading
    BY <1>1, <1>16, Numbers DEF Boot, Restored, TypeOK
  <2>5. online' \in BOOLEAN
    BY <1>16 DEF Boot
  <2> QED
    BY <1>1, <1>2, <1>16, <2>1, <2>2, <2>3, <2>4, <2>5
       DEF Boot, TypeOK, BatchIsPosted, Handling
<1>17. CASE UNCHANGED vars
  BY <1>1, <1>17 DEF vars, TypeOK, BatchIsPosted, Handling, Update
<1> HIDE DEF TaskType
<1> QED
  BY <1>3, <1>4, <1>5, <1>6, <1>8, <1>9, <1>10, <1>11, <1>12, <1>13, <1>14, <1>15,
     <1>16, <1>17
     DEF Next, RequestEnds, AnsweredTooLong, NotAnswered, HandleBody

\* The boundary only moves forward, and the one in flash behind the one in RAM;
\* a reboot starts from the one in flash.
LEMMA BoundaryInv == IndInv /\ [Next]_vars => BoundaryHolds'
<1> SUFFICES ASSUME IndInv, [Next]_vars PROVE BoundaryHolds'
  OBVIOUS
<1>1. /\ TypeOK /\ BatchIsPosted /\ BoundaryHolds
      /\ counter \in Nat /\ nvs \in [offset : Updates, counter : 0..Len(Script)]
      /\ hist \in [handled : Updates, kept : SUBSET Counters]
      /\ \A r \in hist.kept : r \in Nat
  BY Numbers DEF IndInv, TypeOK, Counters
<1>2. ASSUME NEW ok \in BOOLEAN, CounterSaved(ok) PROVE BoundaryHolds'
  <2>1. /\ posts[Update] \in Nat /\ ~(posts[Update] <= counter)
    BY <1>1, <1>2, ParseFacts, ScriptFacts DEF CounterSaved, BatchIsPosted
  <2>2. counter' = posts[Update] /\ counter' \in Nat /\ counter < counter'
    BY <1>1, <1>2, <2>1 DEF CounterSaved
  <2>3. nvs'.counter = IF ok THEN counter' ELSE nvs.counter
    BY <1>1, <1>2 DEF CounterSaved
  <2>4. hist'.kept = IF ok THEN hist.kept \union {counter'} ELSE hist.kept
    BY <1>1, <1>2 DEF CounterSaved
  <2>5. CASE ok
    <3>1. \A r \in hist.kept : r <= counter'
      BY <1>1, <2>2 DEF BoundaryHolds
    <3> QED
      BY <2>2, <2>3, <2>4, <2>5, <3>1 DEF BoundaryHolds
  <2>6. CASE ~ok
    BY <1>1, <2>2, <2>3, <2>4, <2>6 DEF BoundaryHolds
  <2> QED
    BY <2>5, <2>6
<1>3. ASSUME NEW ok \in BOOLEAN, BatchEnds(ok) PROVE BoundaryHolds'
  <2>1. nvs'.counter = nvs.counter
    BY <1>1, <1>3 DEF BatchEnds
  <2> QED
    BY <1>1, <1>3, <2>1 DEF BatchEnds, BoundaryHolds
<1>4. CASE UpdateRefused
  <2>1. hist'.kept = hist.kept
    BY <1>1, <1>4 DEF UpdateRefused
  <2> QED
    BY <1>1, <1>4, <2>1 DEF UpdateRefused, BoundaryHolds
<1>5. CASE UpdateApplied
  BY <1>1, <1>5 DEF UpdateApplied, BoundaryHolds
<1>6. CASE Boot
  BY <1>1, <1>6 DEF Boot, Restored, BoundaryHolds
<1>7. CASE PollBegins \/ Expires \/ LinkChanges \/ Elapse
  BY <1>1, <1>7 DEF PollBegins, Expires, LinkChanges, Elapse, BoundaryHolds
<1>8. CASE RequestEnds
  BY <1>1, <1>8
     DEF RequestEnds, Answered, AnsweredTooLong, NotAnswered, RequestFails,
         TokenRefused, BoundaryHolds
<1>9. ASSUME NEW line \in Counters \union Junk, Posted(line) PROVE BoundaryHolds'
  BY <1>1, <1>9 DEF Posted, BoundaryHolds
<1>10. CASE UNCHANGED vars
  BY <1>1, <1>10 DEF vars, BoundaryHolds
<1> QED
  BY <1>2, <1>3, <1>4, <1>5, <1>6, <1>7, <1>8, <1>9, <1>10 DEF Next, HandleBody

\* An accepted line changes the table, and its counter is saved afterwards:
\* both steps keep every code behind the revocations that reached the flash.
LEMMA BelievedInv == IndInv /\ [Next]_vars => Believed'
<1> SUFFICES ASSUME IndInv, [Next]_vars PROVE Believed'
  OBVIOUS
<1>1. /\ TypeOK /\ BatchIsPosted /\ BoundaryHolds
      /\ OneSlotPerId /\ RevokedFirst /\ RevokedStaysRevoked
      /\ counter \in Nat /\ access \in Context
      /\ nvs.counter \in Nat /\ \A r \in hist.kept : r \in Nat
  BY Numbers DEF IndInv, Believed, TypeOK, Counters
<1>2. CASE UpdateApplied
  <2> DEFINE line == posts[Update]
             m == Script[line]
  <2>1. /\ line \in Counters /\ ~(line <= counter) /\ m.id \in Ids /\ m.hash \in Hashes
        /\ line \in Nat /\ m.op \in {"add", "rev"}
        /\ m.valid_from \in Int /\ m.valid_until \in Int
    BY <1>2, ParseFacts, ScriptFacts DEF UpdateApplied
  <2>2. \A r \in hist.kept : ~(r > line)
    BY <1>1, <2>1 DEF BoundaryHolds
  <2>3. task'.at = "counter" /\ Update' = Update /\ posts' = posts /\ hist' = hist
    BY <1>1, <1>2 DEF UpdateApplied, TypeOK, Update
  <2>4. CASE m.op = "add"
    <3> DEFINE up == AcUpsert(access, m.id, m.hash, m.valid_from, m.valid_until).ac
    <3>1. /\ access' = up
          /\ \A i \in SlotIndex :
               \/ up.slots[i] = access.slots[i]
               \/ /\ up.slots[i].occupied
                  /\ up.slots[i].id = m.id /\ up.slots[i].hash = m.hash
          /\ \A i, j \in SlotIndex :
               up.slots[i].occupied /\ up.slots[j].occupied
                 /\ up.slots[i].id = up.slots[j].id => i = j
      <4>1. access' = up
        BY <1>2, <2>4 DEF UpdateApplied
      <4> HIDE DEF m
      <4> QED
        BY <1>1, <2>1, <4>1, UpsertFacts DEF OneSlotPerId
    <3> HIDE DEF up, m, line
    <3>2. OneSlotPerId'
      BY <3>1 DEF OneSlotPerId
    <3>3. RevokedFirst'
      BY <2>3, <2>4 DEF RevokedFirst, m, line
    <3>4. ASSUME NEW i \in SlotIndex, access'.slots[i].occupied
          PROVE  \E n \in AddsOf(access'.slots[i]) : \A r \in hist.kept : r > n =>
                   ~(Script[r].op = "rev" /\ Script[r].id = access'.slots[i].id)
      <4>1. CASE up.slots[i] = access.slots[i]
        BY <1>1, <3>1, <3>4, <4>1 DEF RevokedStaysRevoked
      <4>2. CASE up.slots[i].id = m.id /\ up.slots[i].hash = m.hash
        <5>1. line \in AddsOf(access'.slots[i])
          BY <2>1, <2>4, <3>1, <4>2 DEF AddsOf, m
        <5> QED
          BY <2>2, <5>1
      <4> QED
        BY <3>1, <4>1, <4>2
    <3>5. RevokedStaysRevoked'
      BY <2>3, <3>4 DEF RevokedStaysRevoked, AddsOf
    <3> QED
      BY <3>2, <3>3, <3>5 DEF Believed
  <2>5. CASE m.op = "rev"
    <3> DEFINE re == AcRevoke(access, m.id)
    <3>1. /\ access' = re
          /\ \A i \in SlotIndex : re.slots[i].occupied =>
               re.slots[i] = access.slots[i] /\ re.slots[i].id # m.id
      BY <1>1, <1>2, <2>1, <2>5, RevokeFacts DEF OneSlotPerId, UpdateApplied
    <3> HIDE DEF re
    <3>2. OneSlotPerId'
      BY <1>1, <3>1 DEF OneSlotPerId
    <3>3. RevokedFirst'
      BY <2>3, <3>1 DEF RevokedFirst
    <3>4. RevokedStaysRevoked'
      BY <1>1, <2>3, <3>1 DEF RevokedStaysRevoked, AddsOf
    <3> QED
      BY <3>2, <3>3, <3>4 DEF Believed
  <2> QED
    BY <2>1, <2>4, <2>5
<1>3. ASSUME NEW ok \in BOOLEAN, CounterSaved(ok) PROVE Believed'
  <2>1. /\ task.at = "counter" /\ access' = access /\ task'.at = "batch"
        /\ counter' = posts[Update] /\ hist'.kept \subseteq hist.kept \union {counter'}
    BY <1>1, <1>3 DEF CounterSaved, TypeOK
  <2>2. ASSUME NEW i \in SlotIndex, access.slots[i].occupied
        PROVE  ~(Script[counter'].op = "rev" /\ Script[counter'].id = access.slots[i].id)
    BY <1>1, <2>1, <2>2 DEF RevokedFirst
  <2>3. RevokedStaysRevoked'
    BY <1>1, <2>1, <2>2 DEF RevokedStaysRevoked, AddsOf
  <2>4. OneSlotPerId' /\ RevokedFirst'
    BY <1>1, <2>1 DEF OneSlotPerId, RevokedFirst
  <2> QED
    BY <2>3, <2>4 DEF Believed
<1>4. CASE Boot
  <2>1. \A i \in SlotIndex : ~access'.slots[i].occupied
    BY <1>4 DEF Boot, AcInit, EmptySlot
  <2>2. task'.at = "rest"
    BY <1>4 DEF Boot, Resting
  <2> QED
    BY <2>1, <2>2 DEF Believed, OneSlotPerId, RevokedFirst, RevokedStaysRevoked
<1>5. ASSUME access' = access, hist'.kept = hist.kept, task'.at # "counter"
      PROVE  Believed'
  BY <1>1, <1>5 DEF Believed, OneSlotPerId, RevokedFirst, RevokedStaysRevoked, AddsOf
<1>6. CASE PollBegins \/ RequestEnds
  <2>1. task'.at # "counter"
    <3>1. CASE PollBegins \/ Answered
      BY <1>1, <3>1 DEF PollBegins, Answered, TypeOK
    <3>2. CASE AnsweredTooLong \/ NotAnswered \/ TokenRefused
      <4>1. task' = Resting
        BY <3>2 DEF AnsweredTooLong, NotAnswered, RequestFails, TokenRefused
      <4> QED
        BY <4>1 DEF Resting
    <3> QED
      BY <1>6, <3>1, <3>2 DEF RequestEnds
  <2>2. access' = access /\ hist' = hist
    BY <1>6 DEF PollBegins, RequestEnds, Answered, AnsweredTooLong, NotAnswered,
                RequestFails, TokenRefused
  <2> QED
    BY <1>5, <2>1, <2>2
<1>7. CASE UpdateRefused
  <2>1. hist'.kept = hist.kept /\ task'.at = "batch" /\ access' = access
    BY <1>1, <1>7 DEF UpdateRefused, TypeOK
  <2> QED
    BY <1>5, <2>1
<1>8. ASSUME NEW ok \in BOOLEAN, BatchEnds(ok) PROVE Believed'
  BY <1>5, <1>8 DEF BatchEnds, Resting
<1>9. ASSUME NEW line \in Counters \union Junk, Posted(line) PROVE Believed'
  <2>1. UNCHANGED <<access, hist, task>>
    BY <1>9 DEF Posted
  <2>2. CASE task.at = "counter"
    <3>1. /\ posts \in Seq(Counters \union Junk) /\ Update \in DOMAIN posts
      BY <1>1, <2>2, HeadFacts DEF TypeOK, BatchIsPosted, Handling
    <3>2. posts'[Update] = posts[Update] /\ Update' = Update
      BY <1>9, <2>1, <3>1, AppendProperties, LenProperties DEF Posted, Update
    <3> QED
      BY <1>1, <2>1, <3>2
         DEF Believed, OneSlotPerId, RevokedFirst, RevokedStaysRevoked, AddsOf
  <2> QED
    BY <1>5, <2>1, <2>2
<1>10. CASE Expires
  BY <1>1, <1>10 DEF Expires, Update, Believed, OneSlotPerId, RevokedFirst,
                     RevokedStaysRevoked, AddsOf
<1>11. CASE LinkChanges \/ Elapse
  BY <1>5, <1>11 DEF LinkChanges, Elapse
<1>12. CASE UNCHANGED vars
  BY <1>1, <1>12 DEF vars, Update, Believed, OneSlotPerId, RevokedFirst,
                     RevokedStaysRevoked, AddsOf
<1> QED
  BY <1>2, <1>3, <1>4, <1>6, <1>7, <1>8, <1>9, <1>10, <1>11, <1>12 DEF Next, HandleBody

\* The numbers of the receipt are natural numbers.
LEMMA ReceiptNumbers ==
  ASSUME TypeOK
  PROVE  /\ nvs.offset \in Nat /\ poll.offset \in Nat /\ hist.handled \in Nat
         /\ dropped \in Nat /\ task.ask \in Nat
<1>1. nvs.offset \in Updates /\ hist.handled \in Updates /\ dropped \in Updates
  BY DEF TypeOK
<1>2. poll.offset \in Updates
  BY DEF TypeOK, PollContext
<1>3. task.ask \in 0..(MaxPosts + 1)
  BY DEF TypeOK
<1>4. task.ask \in Nat
  BY <1>3, Numbers
<1> QED
  BY <1>1, <1>2, <1>4, Numbers

\* The offset is advanced for an update before that update is handled, but it
\* is asked with, and written, only between two batches.
LEMMA ReceiptInv == IndInv /\ [Next]_vars => Receipt'
<1> SUFFICES ASSUME IndInv, [Next]_vars PROVE Receipt'
  OBVIOUS
<1>1. /\ TypeOK /\ BatchIsPosted /\ Receipt
      /\ nvs \in [offset : Updates, counter : 0..Len(Script)]
      /\ poll \in PollContext /\ hist \in [handled : Updates, kept : SUBSET Counters]
      /\ task.at \in {"rest", "request", "batch", "counter"}
      /\ task \in [at : {"rest", "request", "batch", "counter"},
                   ask : 0..(MaxPosts + 1), batch : Seq(Updates \ {0})]
      /\ nvs.offset \in Nat /\ poll.offset \in Nat /\ hist.handled \in Nat
      /\ dropped \in Nat /\ task.ask \in Nat
  <2>1. TypeOK /\ BatchIsPosted /\ Receipt
    BY DEF IndInv
  <2> QED
    BY <2>1, ReceiptNumbers DEF TypeOK
<1>2. ASSUME Handling, task.batch # <<>>
      PROVE  Update \in Nat /\ Update \in Updates
  BY <1>1, <1>2, HeadFacts, Numbers
<1>3. CASE PollBegins
  <2>1. task'.at = "request" /\ task'.ask = NextOffset(poll)
    BY <1>1, <1>3 DEF PollBegins
  <2>2. poll.offset <= hist.handled
    BY <1>1, <1>3 DEF PollBegins, Receipt
  <2>3. task'.ask <= hist.handled + 1
    BY <1>1, <2>1, <2>2 DEF NextOffset
  <2> QED
    BY <1>1, <1>3, <2>1, <2>2, <2>3 DEF PollBegins, Receipt
<1>4. CASE Answered
  <2>1. task'.at = "batch" /\ poll.offset <= hist.handled
    BY <1>1, <1>4 DEF Answered, Receipt
  <2> QED
    BY <1>1, <1>4, <2>1 DEF Answered, Receipt
<1>5. CASE RequestFails
  <2>1. poll'.offset = poll.offset /\ task' = Resting /\ UNCHANGED <<nvs, hist>>
    BY <1>1, <1>5, RequestFailsFacts
  <2>2. task'.at = "rest" /\ poll.offset <= hist.handled
    BY <1>1, <1>5, <2>1 DEF RequestFails, Receipt, Resting
  <2> QED
    BY <1>1, <2>1, <2>2 DEF Receipt
<1>6. CASE TokenRefused
  <2>1. poll'.offset = poll.offset /\ task'.at = "rest" /\ poll.offset <= hist.handled
    BY <1>1, <1>6 DEF TokenRefused, PollContext, Resting, Receipt
  <2> QED
    BY <1>1, <1>6, <2>1 DEF TokenRefused, Receipt
<1>7. CASE UpdateRefused
  <2>1. Update \in Nat /\ Update \in Updates
    BY <1>2, <1>7 DEF UpdateRefused, Handling
  <2>2. poll'.offset = Larger(poll.offset, Update) /\ nvs' = nvs
    BY <1>1, <1>7, <2>1, ConsumedFacts DEF UpdateRefused
  <2>3. hist'.handled = Larger(hist.handled, Update) /\ task'.at = "batch"
    BY <1>1, <1>7 DEF UpdateRefused
  <2>4. poll.offset <= hist.handled
    BY <1>1, <1>7 DEF UpdateRefused, Receipt
  <2>5. poll'.offset <= hist'.handled /\ hist.handled <= hist'.handled /\ hist'.handled \in Nat
    BY <1>1, <2>1, <2>2, <2>3, <2>4 DEF Larger
  <2> QED
    BY <1>1, <2>2, <2>3, <2>5 DEF Receipt
<1>8. CASE UpdateApplied
  <2>1. Update \in Nat /\ Update \in Updates
    BY <1>2, <1>8 DEF UpdateApplied, Handling
  <2>2. poll'.offset = Larger(poll.offset, Update) /\ nvs' = nvs /\ hist' = hist
    BY <1>1, <1>8, <2>1, ConsumedFacts DEF UpdateApplied
  <2>3. task'.at = "counter" /\ Update' = Update
    BY <1>1, <1>8 DEF UpdateApplied, Update
  <2>4. poll.offset <= hist.handled
    BY <1>1, <1>8 DEF UpdateApplied, Receipt
  <2>5. poll'.offset <= Larger(hist.handled, Update)
    BY <1>1, <2>1, <2>2, <2>4 DEF Larger
  <2> QED
    BY <1>1, <2>2, <2>3, <2>5 DEF Receipt
<1>9. ASSUME NEW ok \in BOOLEAN, CounterSaved(ok) PROVE Receipt'
  <2>1. Update \in Nat /\ poll.offset <= Larger(hist.handled, Update)
    BY <1>1, <1>2, <1>9 DEF CounterSaved, BatchIsPosted, Handling, Receipt
  <2>2. /\ hist'.handled = Larger(hist.handled, Update) /\ task'.at = "batch"
        /\ nvs'.offset = nvs.offset /\ poll' = poll
    BY <1>1, <1>9 DEF CounterSaved
  <2>3. nvs'.offset <= hist'.handled
    BY <1>1, <2>1, <2>2 DEF Receipt, Larger
  <2> QED
    BY <2>1, <2>2, <2>3 DEF Receipt
<1>10. ASSUME NEW ok \in BOOLEAN, BatchEnds(ok) PROVE Receipt'
  <2>1. poll'.offset = poll.offset /\ poll.offset <= hist.handled /\ task'.at = "rest"
    BY <1>1, <1>10 DEF BatchEnds, TgPollOk, PollContext, Resting, Receipt
  <2>2. nvs'.offset \in {poll.offset, nvs.offset} /\ hist' = hist
    BY <1>1, <1>10 DEF BatchEnds
  <2> QED
    BY <1>1, <2>1, <2>2 DEF Receipt
<1>11. CASE Boot
  <2>1. poll'.offset = nvs.offset /\ nvs' = nvs /\ hist' = hist /\ task'.at = "rest"
    BY <1>11 DEF Boot, TgPollInit, Restored, Resting
  <2> QED
    BY <1>1, <2>1 DEF Receipt
<1>12. ASSUME NEW line \in Counters \union Junk, Posted(line) PROVE Receipt'
  BY <1>1, <1>12 DEF Posted, Receipt, Update
<1>13. CASE Expires \/ LinkChanges \/ Elapse \/ UNCHANGED vars
  BY <1>1, <1>13 DEF Expires, LinkChanges, Elapse, vars, Receipt, Update
<1> QED
  BY <1>3, <1>4, <1>5, <1>6, <1>7, <1>8, <1>9, <1>10, <1>11, <1>12, <1>13
     DEF Next, RequestEnds, AnsweredTooLong, NotAnswered, HandleBody

-----------------------------------------------------------------------------
\* The inductive invariant holds in every reachable state.
THEOREM Invariance == Spec => []IndInv
<1>1. Init => IndInv
  BY InitInv
<1>2. IndInv /\ [Next]_vars => IndInv'
  BY TypeInv, BoundaryInv, BelievedInv, ReceiptInv DEF IndInv
<1> QED
  BY <1>1, <1>2, PTL DEF Spec

\* tg_client's context, its two stored numbers and the chat stay well typed: no
\* line is read past the end of the chat, and no counter but the backend's is
\* ever saved.
THEOREM TypeCorrect == Spec => []TypeOK
<1>1. IndInv => TypeOK
  BY DEF IndInv
<1> QED
  BY <1>1, Invariance, PTL

\* A code whose revocation was accepted, and whose counter reached the flash, is
\* not in the table, for any script, any copies posted and any crash: the only
\* additions believed since then have higher counters.
THEOREM RevocationIsFinal == Spec => []RevokedStaysRevoked
<1>1. IndInv => RevokedStaysRevoked
  BY DEF IndInv, Believed
<1> QED
  BY <1>1, Invariance, PTL

\* Telegram drops on our word only what was handled to the end.
THEOREM ReceiptsAreHonest == Spec => AcknowledgedWasHandled
<1> DEFINE Honest == dropped' > hist.handled /\ dropped' # dropped => Expires
<1>1. ASSUME IndInv, [Next]_vars PROVE Honest
  <2>1. CASE Answered \/ AnsweredTooLong \/ NotAnswered
    <3>1. task.at = "request" /\ dropped' \in {dropped, Dropping}
      BY <2>1 DEF Answered, AnsweredTooLong, NotAnswered, RequestFails
    <3>2. /\ task.ask <= hist.handled + 1 /\ task.ask \in Nat
          /\ hist.handled \in Nat /\ dropped \in Nat
      BY <1>1, <3>1, ReceiptNumbers DEF IndInv, Receipt
    <3>3. Dropping # dropped => Dropping <= hist.handled
      BY <1>1, <3>2, Numbers DEF IndInv, TypeOK, Updates, Dropping, Smaller
    <3>4. Dropping \in Nat
      BY <1>1, DroppingType, Numbers DEF IndInv
    <3> QED
      BY <3>1, <3>2, <3>3, <3>4
  <2>2. CASE Expires
    BY <2>2
  <2>3. CASE PollBegins \/ TokenRefused \/ HandleBody \/ LinkChanges \/ Elapse \/ Boot
             \/ UNCHANGED vars
    BY <2>3 DEF PollBegins, TokenRefused, HandleBody, UpdateRefused, UpdateApplied,
                CounterSaved, BatchEnds, LinkChanges, Elapse, Boot, vars
  <2>4. ASSUME NEW line \in Counters \union Junk, Posted(line) PROVE Honest
    BY <2>4 DEF Posted
  <2> QED
    BY <1>1, <2>1, <2>2, <2>3, <2>4 DEF Next, RequestEnds
<1>2. IndInv /\ [Next]_vars => [Honest]_vars
  BY <1>1
<1> HIDE DEF Honest
<1>3. Spec => [][Honest]_vars
  BY <1>2, Invariance, PTL DEF Spec
<1> QED
  BY <1>3 DEF AcknowledgedWasHandled, Honest
=============================================================================
