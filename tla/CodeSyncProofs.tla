--------------------------- MODULE CodeSyncProofs ---------------------------
(***************************************************************************)
(* Proofs about CodeSync, for every sequence of sets the backend may sign, *)
(* every size of the table and every bound.  The argument: IndInv is an    *)
(* inductive invariant.  Beside the property it carries what a poll knows  *)
(* between its steps: that a set about to be applied was validated, and    *)
(* that a generation about to be saved is not ahead of the one held.  The  *)
(* EEPROM needs none beside its type: whatever it holds, a boot that       *)
(* restores it accounts for it (HistoryAtBoot).                            *)
(***************************************************************************)
EXTENDS CodeSync, OperatorProofs, FiniteSetTheorems

\* What a poll has in hand between its steps.
InHand ==
  \A c \in Callers :
    /\ call[c].at = "apply" => Acceptable(SetOf[call[c].gen])
    /\ call[c].at = "save" => call[c].gen <= sync.generation

\* The console's codes are not of the backend's range.
DevIds ==
  \A i \in SlotIndex :
    access.slots[i].occupied /\ access.slots[i].transient
      => access.slots[i].id \notin BackendIds

IndInv == TypeOK /\ StoredIsBehind /\ InHand /\ GuestsAreAccountedFor /\ DevIds

-----------------------------------------------------------------------------
(* The sets and the pushes *)

\* What the bounds and the timings are.
LEMMA Numbers ==
  /\ Wrap \in Nat \ {0} /\ Period \in Nat \ {0}
  /\ MaxGeneration \in Nat /\ MaxBoots \in Nat
  /\ 0 \in Generations /\ 0 \in Reading /\ 0 \in 0..MaxBoots
  /\ Generations \subseteq Nat
  /\ Task \in Callers
BY SyncAssumption, WrapAssumption DEF Generations, Reading

\* The set of a generation is a finite sequence of codes.
LEMMA SetFacts ==
  ASSUME NEW g \in Generations
  PROVE  /\ SetOf[g] \in Seq(Codes) /\ Len(SetOf[g]) \in Nat
         /\ DOMAIN SetOf[g] = 1..Len(SetOf[g])
         /\ EntriesOf(g) = {SetOf[g][k] : k \in 1..Len(SetOf[g])}
         /\ EntriesOf(g) \subseteq Entry /\ IsFiniteSet(EntriesOf(g))
<1>1. Entry = Codes
  BY DEF Entry, Codes
<1>2. SetOf[g] \in Seq(Codes)
  BY <1>1, SyncAssumption
<1>3. Len(SetOf[g]) \in Nat /\ DOMAIN SetOf[g] = 1..Len(SetOf[g])
  BY <1>2, LenProperties
<1>4. EntriesOf(g) = {SetOf[g][k] : k \in 1..Len(SetOf[g])}
  BY <1>3 DEF EntriesOf
<1>5. \A k \in 1..Len(SetOf[g]) : SetOf[g][k] \in Entry
  BY <1>1, <1>2, ElementOfSeq
<1>6. IsFiniteSet(EntriesOf(g))
  <2> DEFINE S == 1..Len(SetOf[g])
             f == [k \in S |-> SetOf[g][k]]
  <2>1. IsFiniteSet(S)
    <3>1. 1 \in Int /\ Len(SetOf[g]) \in Int
      BY <1>3
    <3> QED
      BY <3>1, FS_Interval
  <2>2. f \in Surjection(S, EntriesOf(g))
    BY <1>4 DEF Surjection
  <2> HIDE DEF S, f
  <2> QED
    BY <2>1, <2>2, FS_Surjection
<1> QED
  BY <1>2, <1>3, <1>4, <1>5, <1>6

\* The pushes of some codes, in any order, are a sequence of pushes.
LEMMA PushSequence ==
  ASSUME NEW entries \in SUBSET Entry, IsFiniteSet(entries),
         NEW op \in {"add", "revoke"}, NEW s \in SetToSeqs(Push(op, entries))
  PROVE  s \in Seq(Pushes)
<1> DEFINE P == Push(op, entries)
           f == [e \in entries |-> [op |-> op, entry |-> e]]
<1>1. P \subseteq Pushes
  BY DEF Push, Pushes
<1>2. f \in Surjection(entries, P)
  BY DEF Surjection, Push
<1>3. Cardinality(P) \in Nat
  <2> HIDE DEF f, P
  <2>1. IsFiniteSet(P)
    BY <1>2, FS_Surjection
  <2> QED
    BY <2>1, FS_CardinalityType
<1>4. s \in [1..Cardinality(P) -> P]
  BY DEF SetToSeqs
<1> HIDE DEF P
<1>5. s \in [1..Cardinality(P) -> Pushes]
  BY <1>1, <1>4
<1> QED
  BY <1>3, <1>5, SeqDef

\* The pushes of a generation are a sequence of pushes.
LEMMA PushesType ==
  ASSUME NEW g \in Generations, g - 1 \in Generations, NEW s \in PushesFor(g)
  PROVE  s \in Seq(Pushes)
<1> DEFINE gone  == {e \in EntriesOf(g - 1) : \A n \in EntriesOf(g) : n.id # e.id}
           added == EntriesOf(g) \ EntriesOf(g - 1)
           R == SetToSeqs(Push("revoke", gone))
           A == SetToSeqs(Push("add", added))
<1>1. gone \in SUBSET EntriesOf(g - 1) /\ added \in SUBSET EntriesOf(g)
  OBVIOUS
<1>2. PICK r \in R, a \in A : s = r \o a
  <2>1. PushesFor(g) = {r \o a : r \in R, a \in A}
    BY DEF PushesFor
  <2> HIDE DEF R, A
  <2> QED
    BY <2>1
<1> HIDE DEF gone, added
<1>3. IsFiniteSet(gone) /\ gone \in SUBSET Entry
  BY <1>1, SetFacts, FS_Subset
<1>4. IsFiniteSet(added) /\ added \in SUBSET Entry
  BY <1>1, SetFacts, FS_Subset
<1>5. r \in Seq(Pushes)
  BY <1>2, <1>3, PushSequence
<1>6. a \in Seq(Pushes)
  BY <1>2, <1>4, PushSequence
<1> QED
  BY <1>2, <1>5, <1>6, ConcatProperties

\* schedule_next sets the deadline, and nothing else.
LEMMA ScheduleType ==
  ASSUME NEW s \in Ctx, NEW now_ms \in Reading
  PROVE  /\ ScheduleNext(s, now_ms) \in Ctx
         /\ ScheduleNext(s, now_ms).generation = s.generation
         /\ ScheduleNext(s, now_ms).ever_synced = s.ever_synced
<1>1. (now_ms + Period) % Wrap \in Reading
  BY Numbers DEF Reading
<1> QED
  BY <1>1 DEF ScheduleNext, Ctx

\* sync_unchanged notes the success, and sets the deadline.
LEMMA UnchangedType ==
  ASSUME NEW s \in Ctx, NEW now_ms \in Reading
  PROVE  /\ SyncUnchanged(s, now_ms) \in Ctx
         /\ SyncUnchanged(s, now_ms).generation = s.generation
         /\ SyncUnchanged(s, now_ms).ever_synced
<1> DEFINE t == [s EXCEPT !.ever_synced = TRUE]
<1>1. t \in Ctx /\ t.generation = s.generation /\ t.ever_synced
  BY DEF Ctx
<1> HIDE DEF t
<1>2. SyncUnchanged(s, now_ms) = ScheduleNext(t, now_ms)
  BY DEF SyncUnchanged, t
<1> QED
  BY <1>1, <1>2, ScheduleType

\* A set that is applied is not older than the one held.
LEMMA AnswerFacts ==
  ASSUME NEW s \in Ctx, NEW g \in Generations
  PROVE  /\ Answer(s, g) = "APPLIED" => s.generation <= g
         /\ Answer(s, g) = "UNCHANGED" => g = s.generation /\ s.ever_synced
BY Numbers DEF Answer, Ctx

-----------------------------------------------------------------------------
(* The type of the state *)

\* A caller's next step is one of the four.
LEMMA CallType ==
  ASSUME call \in [Callers -> Call], NEW c \in Callers, NEW k \in Call
  PROVE  [call EXCEPT ![c] = k] \in [Callers -> Call]
OBVIOUS

\* The history of the times is in its range; the counters stop at their caps.
LEMMA ElapseHistory ==
  ASSUME hist \in History, Elapse
  PROVE  hist' \in History
<1> DEFINE more(n, cap) == IF n < cap THEN n + 1 ELSE n
           waits == online /\ call[Task].at = "idle"
           lost == IF waits /\ hist.quiet > 0 THEN hist.lost
                   ELSE waits /\ 2 * (hist.since - Period) >= Wrap
           quiet == IF waits THEN more(hist.quiet, Period + 1) ELSE 0
<1>1. Wrap + Period \in Nat /\ Period + 1 \in Nat
  BY Numbers
<1>2. \A cap \in Nat : \A n \in 0..cap : more(n, cap) \in 0..cap
  OBVIOUS
<1>3. /\ more(hist.gap, Wrap + Period) \in Ticks
      /\ more(hist.since, Wrap + Period) \in Ticks
  <2>1. hist.gap \in 0..(Wrap + Period) /\ hist.since \in 0..(Wrap + Period)
    BY DEF History, Ticks
  <2> HIDE DEF more
  <2> QED
    BY <1>1, <1>2, <2>1 DEF Ticks
<1>4. quiet \in 0..(Period + 1)
  <2>1. hist.quiet \in 0..(Period + 1)
    BY DEF History
  <2>2. more(hist.quiet, Period + 1) \in 0..(Period + 1)
    <3> HIDE DEF more
    <3> QED
      BY <1>1, <1>2, <2>1
  <2>3. 0 \in 0..(Period + 1)
    BY <1>1
  <2> HIDE DEF more
  <2> QED
    BY <2>2, <2>3
<1>5. lost \in BOOLEAN
  BY DEF History
<1>6. hist' = IF ~Timed THEN hist ELSE
        [hist EXCEPT !.gap = more(hist.gap, Wrap + Period),
                     !.since = more(hist.since, Wrap + Period),
                     !.quiet = quiet, !.lost = lost]
  BY DEF Elapse
<1> HIDE DEF more, quiet, lost
<1> QED
  BY <1>3, <1>4, <1>5, <1>6 DEF History

\* The initial states, and those after a power cut, are of the type.
LEMMA StartType ==
  ASSUME NEW g \in Generations
  PROVE  /\ SyncInit(g, 0) \in Ctx /\ SyncInit(g, 0).generation = g
         /\ Idle \in Call /\ Idle.at = "idle"
<1>1. SyncInit(g, 0) \in Ctx /\ SyncInit(g, 0).generation = g
  BY Numbers DEF SyncInit, Ctx
<1>2. Idle \in Call /\ Idle.at = "idle"
  BY Numbers DEF Idle, Call
<1> QED
  BY <1>1, <1>2

\* So is the history, whatever table it begins with.
LEMMA HistoryType ==
  ASSUME NEW ac \in Context
  PROVE  /\ Guests(ac) \subseteq Listed
         /\ HistoryAtBoot(ac) \in History /\ HistoryAtBoot(ac).extra = Guests(ac)
<1>1. Guests(ac) \subseteq Listed
  <2> SUFFICES ASSUME NEW e \in Guests(ac) PROVE e \in Listed
    OBVIOUS
  <2>1. PICK i \in SlotIndex :
          e = [id |-> ac.slots[i].id, hash |-> ac.slots[i].hash,
               valid_from |-> ac.slots[i].valid_from,
               valid_until |-> ac.slots[i].valid_until]
    BY GuestsMember
  <2>2. ac.slots[i] \in Slot
    BY DEF Context
  <2> QED
    BY <2>1, <2>2 DEF Slot, Listed
<1>2. Period \in Ticks /\ 0 \in 0..(Period + 1)
  BY Numbers DEF Ticks
<1> QED
  BY <1>1, <1>2 DEF HistoryAtBoot, History

\* What a boot restores is a table with no dev code in it.
LEMMA RestoredType ==
  ASSUME NEW image \in [SlotIndex -> StoredCode], NEW readable \in SUBSET SlotIndex
  PROVE  /\ Restored(readable, image) \in Context
         /\ \A i \in SlotIndex : ~Restored(readable, image).slots[i].transient
<1> DEFINE slots == [i \in SlotIndex |-> IF i \in readable THEN image[i] ELSE EmptySlot]
<1>1. EmptySlot \in Slot /\ ~EmptySlot.transient
  BY DEF EmptySlot, Slot
<1>2. slots \in [SlotIndex -> Slot] /\ \A i \in SlotIndex : ~slots[i].transient
  BY <1>1 DEF StoredCode
<1>3. 0 \in 0..CounterMax /\ 0 \in Int
  BY PolicyAssumption
<1>4. Restored(readable, image) = [AcInit EXCEPT !.slots = slots]
  BY DEF Restored
<1> HIDE DEF slots
<1>5. /\ Restored(readable, image) \in Context
      /\ Restored(readable, image).slots = slots
  BY <1>2, <1>3, <1>4 DEF AcInit, Context
<1> QED
  BY <1>2, <1>5

\* The first boot and the later ones: the table is what the EEPROM brings back,
\* and the history begins with it.
LEMMA BootTable ==
  /\ Init => /\ chip \in [SlotIndex -> StoredCode]
             /\ access \in Context /\ hist = HistoryAtBoot(access)
             /\ \A i \in SlotIndex : ~access.slots[i].transient
  /\ TypeOK /\ Boot => /\ access' \in Context /\ hist' = HistoryAtBoot(access')
                       /\ \A i \in SlotIndex : ~access'.slots[i].transient
<1>1. ASSUME Init
      PROVE  /\ chip \in [SlotIndex -> StoredCode]
             /\ access \in Context /\ hist = HistoryAtBoot(access)
             /\ \A i \in SlotIndex : ~access.slots[i].transient
  <2>1. chip \in [SlotIndex -> StoredCode]
    BY <1>1, SyncAssumption DEF Init
  <2>2. access = Restored(SlotIndex, chip) /\ hist = HistoryAtBoot(access)
    BY <1>1 DEF Init
  <2> QED
    BY <2>1, <2>2, RestoredType
<1>2. ASSUME TypeOK, Boot
      PROVE  /\ access' \in Context /\ hist' = HistoryAtBoot(access')
             /\ \A i \in SlotIndex : ~access'.slots[i].transient
  <2>1. PICK readable \in SUBSET SlotIndex : access' = Restored(readable, chip)
    BY <1>2 DEF Boot
  <2>2. chip \in [SlotIndex -> StoredCode]
    BY <1>2 DEF TypeOK
  <2> QED
    BY <1>2, <2>1, <2>2, RestoredType DEF Boot
<1> QED
  BY <1>1, <1>2

\* A poll begins: the task's, or the console's.
LEMMA PollType ==
  ASSUME TypeOK, TaskPolls \/ ConsolePolls
  PROVE  TypeOK'
<1>1. ASSUME NEW c \in Callers, StartsFetch(c)
      PROVE  call' \in [Callers -> Call] /\ body' \in Generations \union {NoBody}
  <2>1. [Idle EXCEPT !.at = "fetch", !.at_ms = now] \in Call
    BY Numbers DEF Idle, Call, TypeOK
  <2> QED
    BY <1>1, <2>1 DEF StartsFetch, TypeOK
<1>2. hist' \in History
  <2>1. 0 \in Ticks /\ 0 \in 0..(Period + 1)
    BY Numbers DEF Ticks
  <2> QED
    BY <2>1 DEF TaskPolls, ConsolePolls, TypeOK, History
<1>3. call' \in [Callers -> Call] /\ body' \in Generations \union {NoBody}
  BY <1>1, Numbers DEF TaskPolls, ConsolePolls
<1> QED
  BY <1>2, <1>3 DEF TaskPolls, ConsolePolls, eeprom, TypeOK

\* The steps of a poll.
LEMMA StepType ==
  ASSUME TypeOK, NEW c \in Callers, NEW g \in Generations, Fetched(c, g) \/ Step(c)
  PROVE  TypeOK'
<1> DEFINE k == call[c]
<1>1. /\ k \in Call /\ k.at_ms \in Reading /\ k.gen \in Generations
      /\ sync \in Ctx /\ access \in Context /\ hist \in History
  BY DEF TypeOK, Call
<1>2. ASSUME NEW at \in {"parse", "apply", "save"}, Goes(c, at)
      PROVE  call' \in [Callers -> Call]
  BY <1>2 DEF Goes, TypeOK, Call
<1>3. ASSUME Ends(c) PROVE call' \in [Callers -> Call]
  BY <1>3, Numbers, StartType DEF Ends, TypeOK
<1>4. /\ \A b \in BOOLEAN : [hist EXCEPT !.old = b] \in History
      /\ [hist EXCEPT !.since = hist.gap] \in History
      /\ [hist EXCEPT !.extra = {}, !.removed = FALSE, !.since = hist.gap] \in History
  BY <1>1 DEF History
<1>5. CASE Fetched(c, g)
  BY <1>2, <1>5 DEF Fetched, eeprom, TypeOK
<1>6. ASSUME Fails(c) PROVE TypeOK'
  BY <1>1, <1>3, <1>4, <1>6, ScheduleType DEF Fails, eeprom, TypeOK
<1>7. CASE FetchFails(c) \/ ParseFails(c)
  BY <1>6, <1>7 DEF FetchFails, ParseFails
<1>8. CASE Parsed(c)
  <2>1. body \in Generations
    BY <1>8 DEF Parsed, Legible, TypeOK
  <2>2. call' \in [Callers -> Call]
    BY <1>8, <2>1 DEF Parsed, TypeOK, Call
  <2> QED
    BY <1>8, <2>2 DEF Parsed, eeprom, TypeOK
<1>9. CASE Applied(c)
  <2>1. access' \in Context
    <3>1. WithoutGuests(access) \in Context /\ Guests(WithoutGuests(access)) = {}
      BY <1>1, WithoutGuestsFacts
    <3>2. SetOf[k.gen] \in Seq(Codes)
      BY <1>1, SetFacts
    <3>3. Install(WithoutGuests(access), SetOf[k.gen]) \in Context
      BY <3>1, <3>2, InstallGuests
    <3> QED
      BY <1>9, <3>3 DEF Applied
  <2>2. sync' \in Ctx
    <3>1. [sync EXCEPT !.generation = k.gen] \in Ctx
      BY <1>1 DEF Ctx
    <3> QED
      BY <1>1, <1>9, <3>1, UnchangedType DEF Applied
  <2>3. hist' \in History
    BY <1>4, <1>9 DEF Applied
  <2> QED
    BY <1>2, <1>9, <2>1, <2>2, <2>3 DEF Applied, eeprom, TypeOK
<1>10. CASE NothingApplied(c)
  <2>1. sync' \in Ctx
    BY <1>1, <1>10, UnchangedType DEF NothingApplied
  <2>2. hist' \in History
    <3>1. (hist.old \/ (Timed /\ c = Task)) \in BOOLEAN
      BY <1>1, SyncAssumption DEF History
    <3> QED
      BY <1>4, <1>10, <3>1 DEF NothingApplied
  <2> QED
    BY <1>3, <1>10, <2>1, <2>2 DEF NothingApplied, eeprom, TypeOK
<1>11. CASE Saved(c)
  BY <1>1, <1>3, <1>11 DEF Saved, eeprom, TypeOK
<1> QED
  BY <1>5, <1>7, <1>8, <1>9, <1>10, <1>11 DEF Step

\* The history notes a removal, and nothing else.
LEMMA RemovalNoted ==
  ASSUME hist \in History, NotesRemoval
  PROVE  /\ \E b \in BOOLEAN : hist' = [hist EXCEPT !.removed = b]
         /\ hist' \in History /\ hist'.extra = hist.extra
<1> DEFINE b == hist.removed \/ (Timed /\ access' # access)
<1>1. b \in BOOLEAN
  BY SyncAssumption DEF History
<1>2. hist' = [hist EXCEPT !.removed = b]
  BY DEF NotesRemoval
<1> HIDE DEF b
<1> QED
  BY <1>1, <1>2 DEF History

\* The bot's pushes, and the surroundings.
LEMMA OtherType ==
  ASSUME TypeOK,
         \/ PushArrives \/ PushLost
         \/ Publish \/ LinkChanges \/ Elapse \/ Boot
  PROVE  TypeOK'
<1>1. chat # <<>> => Head(chat) \in Pushes /\ Tail(chat) \in Seq(Pushes)
  BY HeadTailProperties DEF TypeOK
<1>2. access \in Context /\ hist \in History
  BY DEF TypeOK
<1>3. CASE PushArrives
  <2> DEFINE e == Head(chat).entry
  <2>1. chat # <<>> /\ chat' = Tail(chat)
    BY <1>3 DEF PushArrives
  <2>2. /\ e \in Entry /\ e.id \in Ids /\ e.hash \in Hashes
        /\ e.valid_from \in Int /\ e.valid_until \in Int
    BY <1>1, <2>1 DEF Pushes, Entry
  <2> HIDE DEF e
  <2>3. /\ AcUpsert(access, e.id, e.hash, e.valid_from, e.valid_until).ac \in Context
        /\ AcRevoke(access, e.id) \in Context
    BY <1>2, <2>2, UpsertGuests, RevokeCases
  <2>4. [hist EXCEPT !.extra = @ \union {e}] \in History
    <3>1. e \in Listed
      BY <2>2 DEF Entry, Listed
    <3> QED
      BY <1>2, <3>1 DEF History
  <2>5. access' \in Context /\ hist' \in History
    BY <1>2, <1>3, <2>3, <2>4, RemovalNoted DEF PushArrives, e
  <2> QED
    BY <1>1, <1>3, <2>1, <2>5 DEF PushArrives, eeprom, TypeOK
<1>4. CASE PushLost
  BY <1>1, <1>4 DEF PushLost, eeprom, TypeOK
<1>6. CASE Publish
  <2>1. latest' \in Generations /\ latest' - 1 \in Generations
    BY <1>6, Numbers DEF Publish, TypeOK
  <2>2. PICK s \in IF BotPushes THEN PushesFor(latest') ELSE {<<>>} : chat' = chat \o s
    BY <1>6 DEF Publish
  <2>3. s \in Seq(Pushes)
    BY <2>1, <2>2, PushesType, EmptySeq
  <2>4. chat' \in Seq(Pushes)
    BY <2>2, <2>3, ConcatProperties DEF TypeOK
  <2> QED
    BY <1>6, <2>1, <2>4 DEF Publish, eeprom, TypeOK
<1>7. CASE LinkChanges
  BY <1>7 DEF LinkChanges, eeprom, TypeOK
<1>8. CASE Elapse
  <2>1. now' \in Reading
    BY <1>8, Numbers DEF Elapse, TypeOK, Reading
  <2>2. hist' \in History
    BY <1>2, <1>8, ElapseHistory
  <2> QED
    BY <1>8, <2>1, <2>2 DEF Elapse, eeprom, TypeOK
<1>9. CASE Boot
  <2>1. boots' \in 0..MaxBoots
    BY <1>9, Numbers DEF Boot, TypeOK
  <2>2. stored \in Generations
    BY DEF TypeOK
  <2>3. /\ access' \in Context /\ sync' \in Ctx /\ hist' \in History
        /\ call' \in [Callers -> Call]
    BY <1>9, <2>2, StartType, BootTable, HistoryType DEF Boot
  <2> QED
    BY <1>9, <2>1, <2>3, Numbers DEF Boot, TypeOK
<1> QED
  BY <1>3, <1>4, <1>6, <1>7, <1>8, <1>9

-----------------------------------------------------------------------------
(* The console *)

\* The commands of the console, the save that `code persist` ends with, and what
\* takes the dev codes away.
Commanded ==
  \/ \E id \in Ids : DevCodeAdded(id) \/ CodeDel(id)
  \/ \E id \in Ids, h \in Hashes : CodePersist(id, h)
  \/ CodePersistSaves
  \/ \E all \in BOOLEAN : CodeErase(all)
  \/ DevCodesLeave

\* They leave the polls, the generations and the link alone.
LEMMA CommandLeaves ==
  ASSUME Commanded
  PROVE  UNCHANGED <<sync, stored, body, call, now, online, latest, chat, boots>>
BY DEF Commanded, DevCodeAdded, CodeDel, CodePersist, CodePersistSaves, CodeErase,
       DevCodesLeave, Typed

\* The slot ac_upsert reports is one of the table's.
LEMMA UpsertSlot ==
  ASSUME NEW ac, NEW id, NEW h, NEW from, NEW until
  PROVE  AcUpsert(ac, id, h, from, until).slot \in SlotIndex \union {0}
<1>1. ById(ac, id) \in SUBSET SlotIndex /\ FreeSlots(ac) \in SUBSET SlotIndex
  BY DEF ById, FreeSlots
<1>2. TargetSlot(ac, id) \in SlotIndex \union {0}
  BY <1>1, FirstIsMember DEF TargetSlot
<1> QED
  BY <1>2 DEF AcUpsert, Upsert

\* The table with all but some of its slots cleared (`code erase`, the end of the
\* dev codes).
Cleared(ac, kept) ==
  [ac EXCEPT !.slots = [i \in SlotIndex |->
     IF i \in kept THEN ac.slots[i] ELSE EmptySlot]]

\* What a command does to the table: it changes nothing, adds a dev code, puts in
\* a code the history notes, removes one, or clears some.
LEMMA CommandTable ==
  ASSUME TypeOK, Commanded
  PROVE  \/ access' = access /\ hist' = hist
         \/ /\ hist' = hist
            /\ \E id \in Ids \ BackendIds, h \in Hashes :
                 access' = AcUpsertTransient(access, id, h, 0, 1).ac
         \/ \E e \in Entry :
              /\ access' = AcUpsert(access, e.id, e.hash, e.valid_from, e.valid_until).ac
              /\ hist' = [hist EXCEPT !.extra = @ \union {e}]
         \/ \E id \in Ids : access' = AcRevoke(access, id) /\ NotesRemoval
         \/ /\ NotesRemoval
            /\ \E kept \in SUBSET SlotIndex : access' = Cleared(access, kept)
<1>1. ASSUME NEW id \in Ids, DevCodeAdded(id)
      PROVE  /\ hist' = hist
             /\ \E i \in Ids \ BackendIds, h \in Hashes :
                  access' = AcUpsertTransient(access, i, h, 0, 1).ac
  BY <1>1 DEF DevCodeAdded
<1>2. ASSUME NEW id \in Ids, NEW h \in Hashes, CodePersist(id, h)
      PROVE  \E e \in Entry :
               /\ access' = AcUpsert(access, e.id, e.hash, e.valid_from, e.valid_until).ac
               /\ hist' = [hist EXCEPT !.extra = @ \union {e}]
  <2> DEFINE e == [id |-> id, hash |-> h, valid_from |-> 0, valid_until |-> 1]
  <2>1. e \in Entry
    BY DEF Entry
  <2>2. access' = AcUpsert(access, e.id, e.hash, e.valid_from, e.valid_until).ac
    BY <1>2 DEF CodePersist
  <2>3. hist' = [hist EXCEPT !.extra = @ \union {e}]
    BY <1>2 DEF CodePersist
  <2> HIDE DEF e
  <2> QED
    BY <2>1, <2>2, <2>3
<1>3. CASE CodePersistSaves
  BY <1>3 DEF CodePersistSaves
<1>4. ASSUME NEW id \in Ids, CodeDel(id)
      PROVE  access' = AcRevoke(access, id) /\ NotesRemoval
  BY <1>4 DEF CodeDel
<1>5. ASSUME NEW all \in BOOLEAN, CodeErase(all)
      PROVE  /\ NotesRemoval
             /\ \E kept \in SUBSET SlotIndex : access' = Cleared(access, kept)
  <2> DEFINE codes  == {i \in SlotIndex : access.slots[i].occupied
                                            /\ ~access.slots[i].transient}
             spared == IF all THEN {}
                       ELSE {i \in codes : access.slots[i].id \in BackendIds}
  <2>1. spared \in SUBSET SlotIndex
    OBVIOUS
  <2>2. NotesRemoval
    BY <1>5 DEF CodeErase
  <2>3. access' = [access EXCEPT !.slots = [i \in SlotIndex |->
                     IF i \in spared THEN access.slots[i] ELSE EmptySlot]]
    BY <1>5 DEF CodeErase
  <2> HIDE DEF spared
  <2> QED
    BY <2>1, <2>2, <2>3 DEF Cleared
<1>6. CASE DevCodesLeave
  <2> DEFINE kept == {i \in SlotIndex :
                        ~(access.slots[i].occupied /\ access.slots[i].transient)}
  <2>1. access' = AcRevokeTransient(access) /\ NotesRemoval
    BY <1>6 DEF DevCodesLeave
  <2>2. [i \in SlotIndex |-> IF access.slots[i].occupied /\ access.slots[i].transient
                             THEN EmptySlot ELSE access.slots[i]]
          = [i \in SlotIndex |-> IF i \in kept THEN access.slots[i] ELSE EmptySlot]
    OBVIOUS
  <2>3. access' = Cleared(access, kept)
    BY <2>1, <2>2 DEF AcRevokeTransient, Cleared
  <2>4. kept \in SUBSET SlotIndex
    OBVIOUS
  <2> HIDE DEF kept
  <2> QED
    BY <2>1, <2>3, <2>4
<1> QED
  BY <1>1, <1>2, <1>3, <1>4, <1>5, <1>6 DEF Commanded

\* Slots that are cleared leave the others as they were.
LEMMA ClearedTable ==
  ASSUME NEW ac \in Context, NEW kept \in SUBSET SlotIndex
  PROVE  /\ Cleared(ac, kept) \in Context
         /\ Guests(Cleared(ac, kept)) \subseteq Guests(ac)
         /\ \A i \in SlotIndex : Cleared(ac, kept).slots[i].occupied =>
              Cleared(ac, kept).slots[i] = ac.slots[i]
<1> DEFINE slots == [i \in SlotIndex |-> IF i \in kept THEN ac.slots[i] ELSE EmptySlot]
           cleared == Cleared(ac, kept)
<1>1. EmptySlot \in Slot /\ ~EmptySlot.occupied
  BY DEF EmptySlot, Slot
<1>2. slots \in [SlotIndex -> Slot]
  BY <1>1 DEF Context
<1>3. \A i \in SlotIndex : slots[i].occupied => slots[i] = ac.slots[i]
  BY <1>1
<1>4. cleared = [ac EXCEPT !.slots = slots]
  BY DEF Cleared
<1> HIDE DEF slots, cleared
<1>5. cleared \in Context /\ cleared.slots = slots
  BY <1>2, <1>4 DEF Context
<1>6. \A i \in SlotIndex : cleared.slots[i].occupied => cleared.slots[i] = ac.slots[i]
  BY <1>3, <1>5
<1>7. ASSUME NEW e \in Guests(cleared) PROVE e \in Guests(ac)
  BY <1>6, GuestsMember
<1> QED
  BY <1>5, <1>6, <1>7 DEF cleared

\* The table, the EEPROM and the history keep their types.
LEMMA CommandType ==
  ASSUME TypeOK, Commanded
  PROVE  TypeOK'
<1>1. access \in Context /\ hist \in History /\ chip \in [SlotIndex -> StoredCode]
  BY DEF TypeOK
<1>2. access' \in Context /\ hist' \in History
  <2>1. CASE access' = access /\ hist' = hist
    BY <1>1, <2>1
  <2>2. ASSUME NEW id \in Ids \ BackendIds, NEW h \in Hashes, hist' = hist,
               access' = AcUpsertTransient(access, id, h, 0, 1).ac
        PROVE  access' \in Context /\ hist' \in History
    <3>1. id \in Ids /\ 0 \in Int /\ 1 \in Int
      OBVIOUS
    <3>2. AcUpsertTransient(access, id, h, 0, 1).ac \in Context
      BY <1>1, <3>1, TransientGuests
    <3> QED
      BY <1>1, <2>2, <3>2
  <2>3. ASSUME NEW e \in Entry, hist' = [hist EXCEPT !.extra = @ \union {e}],
               access' = AcUpsert(access, e.id, e.hash, e.valid_from, e.valid_until).ac
        PROVE  access' \in Context /\ hist' \in History
    <3>1. /\ e.id \in Ids /\ e.hash \in Hashes
          /\ e.valid_from \in Int /\ e.valid_until \in Int
      BY DEF Entry
    <3>2. access' \in Context
      BY <1>1, <2>3, <3>1, UpsertGuests
    <3>3. e \in Listed
      BY DEF Entry, Listed
    <3>4. hist' \in History
      BY <1>1, <2>3, <3>3 DEF History
    <3> QED
      BY <3>2, <3>4
  <2>4. ASSUME NEW id \in Ids, access' = AcRevoke(access, id), NotesRemoval
        PROVE  access' \in Context /\ hist' \in History
    BY <1>1, <2>4, RevokeCases, RemovalNoted
  <2>5. ASSUME NEW kept \in SUBSET SlotIndex, NotesRemoval,
               access' = Cleared(access, kept)
        PROVE  access' \in Context /\ hist' \in History
    BY <1>1, <2>5, ClearedTable, RemovalNoted
  <2> QED
    BY <2>1, <2>2, <2>3, <2>4, <2>5, CommandTable
<1>3. chip' \in [SlotIndex -> StoredCode] /\ unsaved' \in SlotIndex \union {0}
  <2>1. EmptySlot \in StoredCode
    BY DEF EmptySlot, Slot, StoredCode
  <2>2. ASSUME NEW id \in Ids, NEW h \in Hashes, CodePersist(id, h)
        PROVE  unsaved' \in SlotIndex \union {0}
    BY <2>2, UpsertSlot DEF CodePersist
  <2>3. ASSUME CodePersistSaves, chip' # chip
        PROVE  chip' \in [SlotIndex -> StoredCode]
    <3>1. unsaved \in SlotIndex
      BY <2>3 DEF CodePersistSaves, TypeOK
    <3>2. access.slots[unsaved] \in StoredCode
      BY <1>1, <2>3, <3>1 DEF CodePersistSaves, Context, StoredCode
    <3> QED
      BY <1>1, <2>3, <3>1, <3>2 DEF CodePersistSaves
  <2>4. ASSUME NEW id \in Ids, CodeDel(id), chip' # chip
        PROVE  chip' \in [SlotIndex -> StoredCode]
    <3> DEFINE i == FirstOf(ById(access, id))
    <3>1. chip' = [chip EXCEPT ![i] = EmptySlot]
      BY <2>4 DEF CodeDel
    <3> HIDE DEF i
    <3> QED
      BY <1>1, <2>1, <3>1
  <2>5. ASSUME NEW all \in BOOLEAN, CodeErase(all)
        PROVE  chip' \in [SlotIndex -> StoredCode]
    <3>1. PICK written \in SUBSET SlotIndex :
            chip' = [i \in SlotIndex |-> IF i \in written THEN EmptySlot ELSE chip[i]]
      BY <2>5 DEF CodeErase
    <3> QED
      BY <1>1, <2>1, <3>1
  <2>6. unsaved' \in SlotIndex \union {0}
    BY <2>2 DEF Commanded, DevCodeAdded, CodeDel, CodePersistSaves, CodeErase,
                DevCodesLeave, eeprom, TypeOK
  <2>7. chip' \in [SlotIndex -> StoredCode]
    BY <1>1, <2>3, <2>4, <2>5
       DEF Commanded, DevCodeAdded, CodePersist, DevCodesLeave, eeprom
  <2> QED
    BY <2>6, <2>7
<1> QED
  BY <1>2, <1>3, CommandLeaves DEF TypeOK

-----------------------------------------------------------------------------
(* The invariant *)

\* The actions that leave the polls, the generations and the table alone, or
\* only drop a push.
Aside == PushLost \/ Publish \/ LinkChanges \/ Elapse

\* Who writes the table beside a poll: the bot, the console, the portal's end.
Writes == PushArrives \/ Commanded

\* They change nothing, put in a code the history notes, remove one, add a dev code,
\* or clear some slots.
LEMMA WriteFacts ==
  ASSUME TypeOK, Writes
  PROVE  /\ UNCHANGED <<sync, stored, call, now>>
         /\ \/ access' = access /\ hist' = hist
            \/ \E e \in Entry :
                 /\ access' = AcUpsert(access, e.id, e.hash, e.valid_from,
                                       e.valid_until).ac
                 /\ hist' = [hist EXCEPT !.extra = @ \union {e}]
                 /\ hist'.extra = hist.extra \union {e}
            \/ \E id \in Ids : access' = AcRevoke(access, id) /\ NotesRemoval
            \/ /\ hist' = hist
               /\ \E id \in Ids \ BackendIds, h \in Hashes :
                    access' = AcUpsertTransient(access, id, h, 0, 1).ac
            \/ /\ NotesRemoval
               /\ \E kept \in SUBSET SlotIndex : access' = Cleared(access, kept)
<1>1. \A e : hist' = [hist EXCEPT !.extra = @ \union {e}]
              => hist'.extra = hist.extra \union {e}
  BY DEF TypeOK, History
<1>2. CASE PushArrives
  <2> DEFINE e == Head(chat).entry
  <2>1. chat # <<>> /\ chat \in Seq(Pushes)
    BY <1>2 DEF PushArrives, TypeOK
  <2>2. Head(chat) \in Pushes
    BY <2>1, HeadTailProperties
  <2>3. e \in Entry /\ e.id \in Ids
    BY <2>2 DEF Pushes, Entry
  <2> HIDE DEF e
  <2>4. \/ /\ access' = AcUpsert(access, e.id, e.hash, e.valid_from, e.valid_until).ac
           /\ hist' = [hist EXCEPT !.extra = @ \union {e}]
        \/ access' = AcRevoke(access, e.id) /\ NotesRemoval
    BY <1>2 DEF PushArrives, e
  <2>5. UNCHANGED <<sync, stored, call, now>>
    BY <1>2 DEF PushArrives
  <2> QED
    BY <1>1, <2>3, <2>4, <2>5
<1>3. CASE Commanded
  BY <1>1, <1>3, CommandLeaves, CommandTable
<1> QED
  BY <1>2, <1>3 DEF Writes

\* The set that is applied becomes the generation held.
LEMMA AppliedFacts ==
  ASSUME TypeOK, NEW c \in Callers, Applied(c)
  PROVE  /\ call[c].gen \in Generations /\ sync.generation <= call[c].gen
         /\ sync'.generation = call[c].gen /\ sync'.ever_synced
         /\ access' = Install(WithoutGuests(access), SetOf[call[c].gen])
<1>1. sync \in Ctx /\ call[c].gen \in Generations /\ call[c].at_ms \in Reading
  BY DEF TypeOK, Call
<1> DEFINE s == [sync EXCEPT !.generation = call[c].gen]
<1>2. s \in Ctx /\ s.generation = call[c].gen
  BY <1>1 DEF Ctx
<1>3. /\ sync' = SyncUnchanged(s, call[c].at_ms)
      /\ Answer(sync, call[c].gen) = "APPLIED"
      /\ access' = Install(WithoutGuests(access), SetOf[call[c].gen])
  BY DEF Applied
<1> HIDE DEF s
<1> QED
  BY <1>1, <1>2, <1>3, UnchangedType, AnswerFacts

\* What was validated stays so, and what is stored or about to be stored is not
\* ahead of the generation held: that only grows, for sync_apply refuses less.
LEMMA PollStep ==
  ASSUME TypeOK, StoredIsBehind, InHand, [Next]_vars
  PROVE  StoredIsBehind' /\ InHand'
<1>1. /\ sync \in Ctx /\ sync.generation \in Nat /\ stored \in Nat
      /\ call \in [Callers -> Call]
      /\ \A c \in Callers : call[c].gen \in Generations /\ call[c].gen \in Nat
                            /\ call[c].at_ms \in Reading
  BY Numbers DEF TypeOK, Ctx, Call
<1>2. ASSUME NEW c \in Callers, NEW k, k.at \notin {"apply", "save"},
             call' = [call EXCEPT ![c] = k],
             sync'.generation = sync.generation
      PROVE  InHand'
  BY <1>1, <1>2 DEF InHand
<1>3. ASSUME NEW c \in Callers, Ends(c), sync'.generation = sync.generation
      PROVE  InHand'
  BY <1>2, <1>3 DEF Ends, Idle
<1>4. ASSUME NEW c \in Callers, StartsFetch(c), sync' = sync
      PROVE  InHand'
  <2> DEFINE k == [Idle EXCEPT !.at = "fetch", !.at_ms = now]
  <2>1. k.at = "fetch"
    BY DEF Idle
  <2> HIDE DEF k
  <2>2. call' = [call EXCEPT ![c] = k]
    BY <1>4 DEF StartsFetch, k
  <2> QED
    BY <1>2, <1>4, <2>1, <2>2
<1>5. ASSUME NEW c \in Callers, Fails(c) PROVE StoredIsBehind' /\ InHand'
  <2>1. sync'.generation = sync.generation
    BY <1>1, <1>5, ScheduleType DEF Fails
  <2> QED
    BY <1>3, <1>5, <2>1 DEF Fails, StoredIsBehind
<1>6. CASE TaskPolls \/ ConsolePolls
  BY <1>4, <1>6, Numbers DEF TaskPolls, ConsolePolls, StoredIsBehind
<1>7. ASSUME NEW c \in Callers, NEW g \in Generations, Fetched(c, g)
      PROVE  StoredIsBehind' /\ InHand'
  BY <1>1, <1>7 DEF Fetched, Goes, StoredIsBehind, InHand
<1>8. ASSUME NEW c \in Callers, Step(c)
      PROVE  StoredIsBehind' /\ InHand'
  <2>1. CASE FetchFails(c) \/ ParseFails(c)
    BY <1>5, <2>1 DEF FetchFails, ParseFails
  <2>2. CASE Parsed(c)
    BY <1>1, <2>2 DEF Parsed, Legible, StoredIsBehind, InHand
  <2>3. CASE Applied(c)
    <3> DEFINE g == call[c].gen
    <3>1. sync'.generation = g /\ sync.generation <= g
      BY <2>3, AppliedFacts
    <3>2. StoredIsBehind'
      BY <1>1, <2>3, <3>1 DEF Applied, StoredIsBehind
    <3>3. InHand'
      BY <1>1, <2>3, <3>1 DEF Applied, Goes, InHand
    <3> QED
      BY <3>2, <3>3
  <2>4. CASE NothingApplied(c)
    <3>1. sync'.generation = sync.generation
      BY <1>1, <2>4, UnchangedType DEF NothingApplied
    <3> QED
      BY <1>3, <2>4, <3>1 DEF NothingApplied, StoredIsBehind
  <2>5. CASE Saved(c)
    BY <1>1, <1>3, <2>5 DEF Saved, StoredIsBehind, InHand
  <2> QED
    BY <1>8, <2>1, <2>2, <2>3, <2>4, <2>5 DEF Step
<1>9. CASE Writes \/ Aside \/ UNCHANGED vars
  BY <1>9, WriteFacts DEF Aside, PushLost, Publish, LinkChanges, Elapse, StoredIsBehind,
                          InHand, vars
<1>10. CASE Boot
  <2>1. sync'.generation = stored' /\ stored' = stored
    BY <1>10, StartType DEF Boot, TypeOK
  <2>2. \A c \in Callers : call'[c].at = "idle"
    BY <1>10, Numbers, StartType DEF Boot
  <2> QED
    BY <1>1, <2>1, <2>2 DEF StoredIsBehind, InHand
<1> QED
  BY <1>6, <1>7, <1>8, <1>9, <1>10 DEF Next, Aside, Writes, Commanded

\* The steps that change the table.
LEMMA TableStep ==
  ASSUME TypeOK, InHand, [Next]_vars
  PROVE  \/ access' = access
         \/ \E c \in Callers :
              /\ Applied(c)
              /\ call[c].gen \in Generations /\ Acceptable(SetOf[call[c].gen])
         \/ Writes \/ Boot
<1>2. ASSUME NEW c \in Callers, Applied(c)
      PROVE  call[c].gen \in Generations /\ Acceptable(SetOf[call[c].gen])
  BY <1>2 DEF Applied, InHand, TypeOK, Call
<1>5. CASE \/ TaskPolls \/ ConsolePolls
           \/ \E c \in Callers, g \in Generations : Fetched(c, g)
           \/ Aside \/ UNCHANGED vars
  BY <1>5 DEF TaskPolls, ConsolePolls, Fetched, Aside, PushLost, Publish, LinkChanges,
              Elapse, vars
<1>6. ASSUME NEW c \in Callers, Step(c), ~Applied(c)
      PROVE  access' = access
  BY <1>6 DEF Step, FetchFails, Fails, Parsed, ParseFails, NothingApplied, Saved
<1> QED
  BY <1>2, <1>5, <1>6 DEF Next, Aside, Writes, Commanded

\* Only a set that is applied, a push, the console and a boot change the generation
\* held or what came beside its set.
LEMMA LedgerStep ==
  ASSUME TypeOK, [Next]_vars
  PROVE  \/ \E c \in Callers :
              /\ Applied(c)
              /\ sync'.generation = call[c].gen /\ sync'.ever_synced
         \/ Writes \/ Boot
         \/ /\ sync'.generation = sync.generation
            /\ sync.ever_synced => sync'.ever_synced
            /\ hist'.extra = hist.extra
<1>1. /\ sync \in Ctx /\ hist \in History
      /\ \A c \in Callers : call[c].gen \in Generations /\ call[c].at_ms \in Reading
  BY DEF TypeOK, Call
<1>2. ASSUME NEW c \in Callers, Applied(c)
      PROVE  sync'.generation = call[c].gen /\ sync'.ever_synced
  BY <1>2, AppliedFacts
<1>3. ASSUME NEW c \in Callers, Step(c), ~Applied(c)
      PROVE  /\ sync'.generation = sync.generation
             /\ sync.ever_synced => sync'.ever_synced
             /\ hist'.extra = hist.extra
  <2>1. CASE FetchFails(c) \/ ParseFails(c)
    BY <1>1, <2>1, ScheduleType DEF FetchFails, ParseFails, Fails, History
  <2>2. CASE Parsed(c) \/ Saved(c)
    BY <2>2 DEF Parsed, Saved
  <2>3. CASE NothingApplied(c)
    <3>1. sync' = sync \/ sync' = SyncUnchanged(sync, call[c].at_ms)
      BY <2>3 DEF NothingApplied
    <3>2. hist'.extra = hist.extra
      BY <1>1, <2>3 DEF NothingApplied, History
    <3> QED
      BY <1>1, <3>1, <3>2, UnchangedType
  <2> QED
    BY <1>3, <2>1, <2>2, <2>3 DEF Step
<1>5. CASE \/ TaskPolls \/ ConsolePolls
           \/ \E c \in Callers, g \in Generations : Fetched(c, g)
           \/ Aside \/ UNCHANGED vars
  BY <1>1, <1>5 DEF TaskPolls, ConsolePolls, Fetched, Aside, PushLost, Publish,
       LinkChanges, Elapse, vars, History
<1> QED
  BY <1>2, <1>3, <1>5 DEF Next, Aside, Writes, Commanded

\* The dev codes keep out of the backend's range.
LEMMA DevStep ==
  ASSUME TypeOK, InHand, DevIds, [Next]_vars
  PROVE  DevIds'
<1>1. access \in Context
  BY DEF TypeOK
<1>2. CASE access' = access
  BY <1>2 DEF DevIds
<1>3. ASSUME NEW c \in Callers, Applied(c), call[c].gen \in Generations PROVE DevIds'
  <2> DEFINE wo == WithoutGuests(access)
             set == SetOf[call[c].gen]
  <2>1. access' = Install(wo, set)
    BY <1>3 DEF Applied
  <2>2. /\ wo \in Context /\ Guests(wo) = {}
        /\ \A i \in SlotIndex : wo.slots[i].occupied => wo.slots[i] = access.slots[i]
    BY <1>1, WithoutGuestsFacts
  <2>3. set \in Seq(Codes)
    BY <1>3, SetFacts
  <2> HIDE DEF wo, set
  <2>4. \A i \in SlotIndex : access'.slots[i].occupied /\ access'.slots[i].transient
          => access'.slots[i] = wo.slots[i]
    BY <2>1, <2>2, <2>3, InstallGuests
  <2> QED
    BY <2>2, <2>4 DEF DevIds
<1>4. ASSUME NEW e \in Entry,
             access' = AcUpsert(access, e.id, e.hash, e.valid_from, e.valid_until).ac
      PROVE  DevIds'
  <2>1. /\ e.id \in Ids /\ e.hash \in Hashes
        /\ e.valid_from \in Int /\ e.valid_until \in Int
    BY DEF Entry
  <2>2. \A i \in SlotIndex : access'.slots[i].occupied /\ access'.slots[i].transient
          => access'.slots[i] = access.slots[i]
    BY <1>1, <1>4, <2>1, UpsertGuests
  <2> QED
    BY <2>2 DEF DevIds
<1>5. ASSUME NEW id \in Ids, access' = AcRevoke(access, id) PROVE DevIds'
  BY <1>1, <1>5, RevokeCases DEF DevIds
<1>6. ASSUME NEW id \in Ids \ BackendIds, NEW h \in Hashes,
             access' = AcUpsertTransient(access, id, h, 0, 1).ac
      PROVE  DevIds'
  <2>1. id \in Ids /\ 0 \in Int /\ 1 \in Int /\ access \in Context
    BY <1>1
  <2>2. \A i \in SlotIndex : access'.slots[i].occupied =>
          access'.slots[i] = access.slots[i] \/ access'.slots[i].id = id
    BY <1>6, <2>1, TransientGuests
  <2> QED
    BY <1>1, <1>6, <2>2 DEF DevIds
<1>7. CASE Boot
  BY <1>7, BootTable DEF DevIds
<1>8. ASSUME NEW kept \in SUBSET SlotIndex,
             access' = Cleared(access, kept)
      PROVE  DevIds'
  <2>1. \A i \in SlotIndex : access'.slots[i].occupied =>
          access'.slots[i] = access.slots[i]
    BY <1>1, <1>8, ClearedTable
  <2> QED
    BY <2>1 DEF DevIds
<1>9. CASE Writes
  BY <1>2, <1>4, <1>5, <1>6, <1>8, <1>9, WriteFacts
<1> QED
  BY <1>2, <1>3, <1>7, <1>9, TableStep

\* The guests' codes stay accounted for.
LEMMA GuestStep ==
  ASSUME TypeOK, InHand, GuestsAreAccountedFor, [Next]_vars
  PROVE  GuestsAreAccountedFor'
<1> DEFINE Account == hist.extra \union
             (IF sync.ever_synced THEN EntriesOf(sync.generation) ELSE {})
<1>1. access \in Context /\ Guests(access) \subseteq Account
  BY DEF TypeOK, GuestsAreAccountedFor
<1>2. ASSUME NEW c \in Callers, Applied(c)
      PROVE  GuestsAreAccountedFor'
  <2> DEFINE wo == WithoutGuests(access)
             set == SetOf[call[c].gen]
  <2>1. /\ access' = Install(wo, set) /\ call[c].gen \in Generations
        /\ sync'.generation = call[c].gen /\ sync'.ever_synced
    BY <1>2, AppliedFacts
  <2>2. wo \in Context /\ Guests(wo) = {}
    BY <1>1, WithoutGuestsFacts
  <2>3. set \in Seq(Codes) /\ EntriesOf(call[c].gen) = {set[k] : k \in 1..Len(set)}
    BY <2>1, SetFacts
  <2> HIDE DEF wo, set
  <2>4. Guests(access') \subseteq EntriesOf(call[c].gen)
    BY <2>1, <2>2, <2>3, InstallGuests
  <2> QED
    BY <2>1, <2>4 DEF GuestsAreAccountedFor
<1>3. ASSUME NEW e \in Entry, sync' = sync,
             access' = AcUpsert(access, e.id, e.hash, e.valid_from, e.valid_until).ac,
             hist'.extra = hist.extra \union {e}
      PROVE  GuestsAreAccountedFor'
  <2>1. /\ e.id \in Ids /\ e.hash \in Hashes
        /\ e.valid_from \in Int /\ e.valid_until \in Int
        /\ e = [id |-> e.id, hash |-> e.hash, valid_from |-> e.valid_from,
                valid_until |-> e.valid_until]
    BY DEF Entry
  <2>2. Guests(access') \subseteq Guests(access) \union {e}
    BY <1>1, <1>3, <2>1, UpsertGuests
  <2> QED
    BY <1>1, <1>3, <2>2 DEF GuestsAreAccountedFor
<1>4. ASSUME sync'.generation = sync.generation,
             sync.ever_synced => sync'.ever_synced,
             hist'.extra = hist.extra,
             Guests(access') \subseteq Guests(access)
      PROVE  GuestsAreAccountedFor'
  BY <1>1, <1>4 DEF GuestsAreAccountedFor
<1>5. ASSUME NEW id \in Ids, access' = AcRevoke(access, id)
      PROVE  Guests(access') \subseteq Guests(access)
  BY <1>1, <1>5, RevokeGuests
<1>6. ASSUME NEW id \in Ids \ BackendIds, NEW h \in Hashes,
             access' = AcUpsertTransient(access, id, h, 0, 1).ac
      PROVE  Guests(access') \subseteq Guests(access)
  <2>1. id \in Ids /\ 0 \in Int /\ 1 \in Int /\ access \in Context
    BY <1>1
  <2> DEFINE up == AcUpsertTransient(access, id, h, 0, 1).ac
  <2>2. Guests(up) \subseteq Guests(access)
    BY <2>1, TransientGuests
  <2> QED
    BY <1>6, <2>2
<1>7. ASSUME NEW kept \in SUBSET SlotIndex,
             access' = Cleared(access, kept)
      PROVE  Guests(access') \subseteq Guests(access)
  BY <1>1, <1>7, ClearedTable
<1>8. CASE Boot
  <2>1. Guests(access') = hist'.extra
    BY <1>8, BootTable, HistoryType
  <2> QED
    BY <2>1 DEF GuestsAreAccountedFor
<1>9. CASE Writes
  <2>1. sync' = sync
    BY <1>9, WriteFacts
  <2>2. ASSUME hist' = hist \/ NotesRemoval, Guests(access') \subseteq Guests(access)
        PROVE  GuestsAreAccountedFor'
    <3>1. hist'.extra = hist.extra
      BY <2>2, RemovalNoted DEF TypeOK
    <3> QED
      BY <1>4, <2>1, <2>2, <3>1
  <2> QED
    BY <1>3, <1>5, <1>6, <1>7, <1>9, <2>1, <2>2, WriteFacts
<1> QED
  BY <1>2, <1>4, <1>8, <1>9, TableStep, LedgerStep

-----------------------------------------------------------------------------
(* The theorems *)

\* The states the gate boots into satisfy the invariant.
LEMMA InitInv == Init => IndInv
<1> SUFFICES ASSUME Init PROVE IndInv
  OBVIOUS
<1>1. TypeOK
  <2>1. /\ access \in Context /\ sync \in Ctx /\ hist \in History
        /\ call \in [Callers -> Call] /\ chip \in [SlotIndex -> StoredCode]
    BY Numbers, StartType, BootTable, HistoryType DEF Init
  <2> QED
    BY <2>1, Numbers, EmptySeq DEF Init, TypeOK
<1>2. StoredIsBehind /\ InHand
  BY Numbers, StartType DEF Init, StoredIsBehind, InHand
<1>3. GuestsAreAccountedFor /\ DevIds
  BY BootTable, HistoryType DEF GuestsAreAccountedFor, DevIds
<1> QED
  BY <1>1, <1>2, <1>3 DEF IndInv

\* Every step of the gate, the backend and the network preserves it.
LEMMA NextInv == IndInv /\ [Next]_vars => IndInv'
<1> SUFFICES ASSUME IndInv, [Next]_vars PROVE IndInv'
  OBVIOUS
<1>1. TypeOK /\ StoredIsBehind /\ InHand /\ GuestsAreAccountedFor /\ DevIds
  BY DEF IndInv
<1>2. TypeOK'
  <2>1. CASE UNCHANGED vars
    BY <1>1, <2>1 DEF vars, eeprom, TypeOK
  <2>2. CASE TaskPolls \/ ConsolePolls
    BY <1>1, <2>2, PollType
  <2>3. CASE \E c \in Callers : Step(c) \/ \E g \in Generations : Fetched(c, g)
    BY <1>1, <2>3, Numbers, StepType
  <2>4. CASE PushArrives \/ PushLost \/ Publish \/ LinkChanges \/ Elapse \/ Boot
    BY <1>1, <2>4, OtherType
  <2>5. CASE Commanded
    BY <1>1, <2>5, CommandType
  <2> QED
    BY <2>1, <2>2, <2>3, <2>4, <2>5 DEF Next, Commanded
<1>3. StoredIsBehind' /\ InHand'
  BY <1>1, PollStep
<1>4. GuestsAreAccountedFor'
  BY <1>1, GuestStep
<1>5. DevIds'
  BY <1>1, DevStep
<1> QED
  BY <1>2, <1>3, <1>4, <1>5 DEF IndInv

\* IndInv is an invariant of every behaviour.
THEOREM Invariance == Spec => []IndInv
BY InitInv, NextInv, PTL DEF Spec

\* The table, the generation, the polls and the pushes stay in their types.
THEOREM TypeCorrect == Spec => []TypeOK
<1>1. IndInv => TypeOK
  BY DEF IndInv
<1> QED
  BY <1>1, Invariance, PTL

\* However polls, pushes and the console's commands interleave, a guest code in the
\* table is of the set held, or came beside it since by a push or `code persist`:
\* once a set was installed after a boot, no code that it dropped stays, not even
\* one the EEPROM brought back (sync_apply, persist_codes_load, tg_client's
\* apply, cmd_code).
THEOREM NoDroppedCodeStays == Spec => []GuestsAreAccountedFor
<1>1. IndInv => GuestsAreAccountedFor
  BY DEF IndInv
<1> QED
  BY <1>1, Invariance, PTL

\* Between two boots the generation held never goes back, and what the next boot
\* starts from is never ahead of it (sync_apply, save_generation).
THEOREM GenerationsOnlyGrow == Spec => NeverOlder
<1> DEFINE Grows == /\ boots' = boots => sync'.generation >= sync.generation
                    /\ StoredIsBehind'
<1>1. ASSUME IndInv, [Next]_vars PROVE Grows \/ UNCHANGED vars
  <2>1. TypeOK /\ sync.generation \in Nat /\ IndInv'
    BY <1>1, Numbers, NextInv DEF IndInv, TypeOK, Ctx
  <2>2. CASE Boot
    <3>1. boots' # boots
      BY <2>1, <2>2, Numbers DEF Boot, TypeOK
    <3> QED
      BY <2>1, <3>1 DEF IndInv
  <2>3. ASSUME NEW c \in Callers, Applied(c) PROVE sync'.generation >= sync.generation
    <3>1. /\ sync'.generation = call[c].gen /\ call[c].gen \in Nat
          /\ sync.generation <= call[c].gen
      BY <2>1, <2>3, Numbers, AppliedFacts
    <3> QED
      BY <2>1, <3>1
  <2>4. ~Boot => sync'.generation >= sync.generation
    BY <1>1, <2>1, <2>3, LedgerStep, WriteFacts
  <2> QED
    BY <2>1, <2>2, <2>4 DEF IndInv
<1> HIDE DEF Grows
<1>2. IndInv /\ [Next]_vars => [Grows]_vars
  BY <1>1
<1>3. Spec => [][Grows]_vars
  BY <1>2, Invariance, PTL DEF Spec
<1> QED
  BY <1>3 DEF NeverOlder, Grows

\* The backend's database keys a code by its id.
SetsNameAnIdOnce ==
  \A g \in Generations : \A j, k \in DOMAIN SetOf[g] :
    SetOf[g][j].id = SetOf[g][k].id => j = k

\* Installing a set whose ids differ leaves the dev codes alone and leaves out
\* only what does not fit (the loop of sync_apply).
THEOREM SetsAreInstalledWhole ==
  ASSUME SetsNameAnIdOnce
  PROVE  Spec => InstallsWholeSet
<1> DEFINE Whole ==
             \A c \in Callers : call[c].at = "apply" /\ call'[c].at = "save"
               => /\ Transients(access') = Transients(access)
                  /\ HoldsWhatFits(access', call[c].gen)
<1>1. ASSUME IndInv, [Next]_vars, NEW c \in Callers,
             call[c].at = "apply", call'[c].at = "save"
      PROVE  Applied(c)
  <2>1. call \in [Callers -> Call] /\ Idle.at = "idle"
    BY <1>1, Numbers, StartType DEF IndInv, TypeOK
  <2>2. ASSUME NEW d \in Callers, NEW g \in Generations, Fetched(d, g) PROVE FALSE
    BY <1>1, <2>1, <2>2 DEF Fetched, Goes
  <2>3. ASSUME NEW d \in Callers, Step(d), d # c PROVE FALSE
    BY <1>1, <2>1, <2>3 DEF Step, FetchFails, Fails, Parsed, ParseFails, Applied,
                            NothingApplied, Saved, Goes, Ends
  <2>4. ASSUME Step(c) PROVE Applied(c)
    BY <1>1, <2>1, <2>4 DEF Step, FetchFails, Fails, Parsed, ParseFails, NothingApplied,
                            Saved, Ends
  <2>5. ASSUME StartsFetch(Task) \/ StartsFetch(Console) PROVE FALSE
    <3> DEFINE k == [Idle EXCEPT !.at = "fetch", !.at_ms = now]
    <3>1. k.at = "fetch"
      BY DEF Idle
    <3> HIDE DEF k
    <3>2. call' = [call EXCEPT ![Task] = k] \/ call' = [call EXCEPT ![Console] = k]
      BY <2>5 DEF StartsFetch, k
    <3> QED
      BY <1>1, <2>1, <3>1, <3>2
  <2>6. CASE Boot
    BY <1>1, <2>1, <2>6 DEF Boot
  <2>7. CASE Writes \/ Aside \/ UNCHANGED vars
    BY <1>1, <2>7, WriteFacts DEF IndInv, Aside, PushLost, Publish, LinkChanges, Elapse,
                                  vars
  <2>8. TaskPolls \/ ConsolePolls => StartsFetch(Task) \/ StartsFetch(Console)
    BY DEF TaskPolls, ConsolePolls
  <2> QED
    BY <1>1, <2>2, <2>3, <2>4, <2>5, <2>6, <2>7, <2>8 DEF Next, Aside, Writes, Commanded
<1>2. ASSUME IndInv, NEW c \in Callers, Applied(c)
      PROVE  /\ Transients(access') = Transients(access)
             /\ HoldsWhatFits(access', call[c].gen)
  <2> DEFINE wo == WithoutGuests(access)
             g == call[c].gen
             set == SetOf[g]
  <2>1. /\ TypeOK /\ access \in Context /\ DevIds /\ Acceptable(set)
    BY <1>2 DEF IndInv, TypeOK, InHand, Applied
  <2>2. access' = Install(wo, set) /\ g \in Generations
    BY <1>2, <2>1, AppliedFacts
  <2>3. /\ wo \in Context
        /\ \A i \in SlotIndex :
             IF access.slots[i].occupied /\ access.slots[i].transient
             THEN wo.slots[i] = access.slots[i] ELSE ~wo.slots[i].occupied
    BY <2>1, WithoutGuestsFacts
  <2>4. /\ set \in Seq(Codes) /\ DOMAIN set = 1..Len(set)
        /\ EntriesOf(g) = {set[k] : k \in 1..Len(set)}
    BY <2>2, SetFacts
  <2>5. \A k \in 1..Len(set) : set[k].id \in BackendIds
    BY <2>1, <2>4 DEF Acceptable, Trustworthy
  <2>6. \A j, k \in 1..Len(set) : set[j].id = set[k].id => j = k
    BY <2>2, <2>4 DEF SetsNameAnIdOnce
  <2> HIDE DEF wo, set
  <2>7. \A k \in 1..Len(set) : ById(wo, set[k].id) = {}
    BY <2>1, <2>3, <2>5 DEF ById, DevIds
  <2>8. /\ \A i \in SlotIndex :
             IF wo.slots[i].occupied
             THEN access'.slots[i] = wo.slots[i]
             ELSE access'.slots[i].occupied => ~access'.slots[i].transient
        /\ \A k \in 1..Len(set) : set[k].valid_from < set[k].valid_until =>
             set[k] \in Guests(access') \/ FreeSlots(access') = {}
    BY <2>2, <2>3, <2>4, <2>6, <2>7, InstallIsWhole
  <2>9. \A i \in SlotIndex :
          IF access.slots[i].occupied /\ access.slots[i].transient
          THEN access'.slots[i] = access.slots[i]
          ELSE ~(access'.slots[i].occupied /\ access'.slots[i].transient)
    BY <2>3, <2>8
  <2>10. Transients(access') = Transients(access)
    BY <2>9 DEF Transients
  <2>11. HoldsWhatFits(access', g)
    BY <2>4, <2>8 DEF HoldsWhatFits
  <2> QED
    BY <2>10, <2>11
<1>3. IndInv /\ [Next]_vars => Whole
  BY <1>1, <1>2
<1> HIDE DEF Whole
<1>4. IndInv /\ [Next]_vars => [Whole]_vars
  BY <1>3
<1>5. Spec => [][Whole]_vars
  BY <1>4, Invariance, PTL DEF Spec
<1> QED
  BY <1>5 DEF InstallsWholeSet, Whole

-----------------------------------------------------------------------------
(* When the task polls *)

Cap == Wrap + Period

Alone == Callers = {Task} /\ Timed /\ 2 * Period <= Wrap

\* The deadline is a period after the poll that set it, as far back as the history
\* counts.
DueIsKept ==
  hist.since < Cap => (sync.next_due_ms + hist.since) % Wrap = (now + Period) % Wrap

\* So is the reading at which the running poll began.
BeganIsKept ==
  call[Task].at # "idle" /\ hist.gap < Cap => (call[Task].at_ms + hist.gap) % Wrap = now

\* A task that is idle waits for the deadline its last poll set, unless that one
\* brought an old answer.
LastPollSets ==
  call[Task].at = "save" \/ (call[Task].at = "idle" /\ ~hist.old)
    => hist.since = hist.gap

\* A wait that began in time ends in time; a task that polls does not wait.
WaitIsShort ==
  /\ hist.quiet > 0 /\ ~hist.lost => hist.quiet <= hist.since /\ hist.since <= Period
  /\ call[Task].at # "idle" => hist.quiet = 0

OnTime == DueIsKept /\ BeganIsKept /\ LastPollSets /\ WaitIsShort

\* The types the times have.
LEMMA TimeFacts ==
  ASSUME TypeOK
  PROVE  /\ now \in Reading /\ now \in Nat /\ sync.next_due_ms \in Nat
         /\ sync \in Ctx /\ call \in [Callers -> Call]
         /\ call[Task].at_ms \in Reading /\ call[Task].at_ms \in Nat
         /\ hist \in History /\ hist.gap \in 0..Cap /\ hist.since \in 0..Cap
         /\ hist.quiet \in 0..(Period + 1) /\ hist.lost \in BOOLEAN
         /\ Cap \in Nat
BY Numbers DEF TypeOK, Ctx, Call, History, Ticks, Cap, Reading

\* A poll that has been due for some time reads as due for it, modulo Wrap.
LEMMA DueIs ==
  ASSUME NEW due \in Int, NEW since \in Int, NEW time \in Int,
         (due + since) % Wrap = (time + Period) % Wrap
  PROVE  (time - due) % Wrap = (since - Period) % Wrap
<1> DEFINE a == time + Period
           b == due + since
<1>1. a \in Int /\ b \in Int /\ a - b \in Int /\ 0 \in Reading /\ 0 = 0 % Wrap
  BY Numbers, ModSmall
<1>2. ((a % Wrap) - (b % Wrap)) % Wrap = (a - b) % Wrap
  BY <1>1, ModDifference
<1>3. (a - b) % Wrap = 0
  <2>1. a % Wrap \in Int /\ a % Wrap = b % Wrap
    BY <1>1, ModInRange, Numbers DEF Reading
  <2> HIDE DEF a, b
  <2>2. (a % Wrap) - (b % Wrap) = 0
    BY <2>1
  <2> QED
    BY <1>1, <1>2, <2>2
<1>4. PICK q \in Int : a - b = Wrap * q + 0
  <2>1. PICK q \in Int : a - b = Wrap * q + ((a - b) % Wrap)
    BY <1>1, ModSplit
  <2> QED
    BY <1>3, <2>1
<1>5. time - due = (since - Period) + Wrap * q
  <2>1. Wrap * q \in Int /\ a - b = (time - due) - (since - Period)
    BY Numbers
  <2> HIDE DEF a, b
  <2> QED
    BY <1>4, <2>1, Numbers
<1>6. since - Period \in Int
  BY Numbers
<1> QED
  BY <1>5, <1>6, ModShift

\* A deadline that is a period after since reads as due exactly when a period has
\* passed, for a wait of less than half the counter more.
LEMMA DueIsTrue ==
  ASSUME TypeOK, DueIsKept, 2 * Period <= Wrap, 2 * (hist.since - Period) < Wrap
  PROVE  SyncDue(sync, now) <=> hist.since >= Period
<1> DEFINE d == hist.since - Period
           m == (now - sync.next_due_ms) % Wrap
<1>1. /\ hist.since \in Nat /\ Period \in Nat \ {0} /\ Wrap \in Nat \ {0}
      /\ d \in Int /\ hist.since < Cap
  BY TimeFacts, Numbers DEF Cap
<1>2. m = d % Wrap
  BY <1>1, TimeFacts, DueIs DEF DueIsKept
<1>3. SyncDue(sync, now) <=> 2 * m < Wrap
  BY DEF SyncDue, NotBefore
<1>4. CASE hist.since >= Period
  <2>1. d \in Reading
    BY <1>1, <1>4 DEF Reading
  <2>2. m = d
    BY <1>2, <2>1, ModSmall
  <2> HIDE DEF m
  <2> QED
    BY <1>1, <1>3, <1>4, <2>2
<1>5. CASE hist.since < Period
  <2> DEFINE e == Period - hist.since
  <2>1. e \in 1..Wrap /\ e # Wrap /\ d = -e /\ 2 * e <= Wrap
    BY <1>1, <1>5
  <2>2. (-e) % Wrap = Wrap - e
    BY <2>1, ModNegative
  <2>3. m = Wrap - e
    BY <1>2, <2>1, <2>2
  <2> HIDE DEF m, e
  <2>4. ~(2 * m < Wrap)
    BY <1>1, <2>1, <2>3
  <2>5. ~(hist.since >= Period)
    BY <1>1, <1>5
  <2> QED
    BY <1>3, <2>4, <2>5
<1> QED
  BY <1>1, <1>4, <1>5

\* Two terms are added to a reading in either order.
LEMMA ModSwap ==
  ASSUME NEW a \in Int, NEW b \in Int, NEW c \in Int
  PROVE  (((a + b) % Wrap) + c) % Wrap = (((a + c) % Wrap) + b) % Wrap
<1>1. (((a + b) % Wrap) + c) % Wrap = ((a + b) + c) % Wrap
  BY ModSum
<1>2. (((a + c) % Wrap) + b) % Wrap = ((a + c) + b) % Wrap
  BY ModSum
<1>3. (a + b) + c = (a + c) + b
  OBVIOUS
<1> QED
  BY <1>1, <1>2, <1>3

\* schedule_next at the end of the task's poll: the deadline is a period after the
\* reading at which the poll began.
LEMMA ScheduleKeeps ==
  ASSUME TypeOK, BeganIsKept, call[Task].at # "idle",
         sync'.next_due_ms = (call[Task].at_ms + Period) % Wrap,
         hist'.since = hist.gap, now' = now
  PROVE  DueIsKept'
<1> SUFFICES ASSUME hist.gap < Cap
             PROVE  (sync'.next_due_ms + hist.gap) % Wrap = (now + Period) % Wrap
  BY DEF DueIsKept, Cap
<1> DEFINE at == call[Task].at_ms
           gap == hist.gap
<1>1. at \in Int /\ gap \in Int /\ Period \in Int /\ Wrap \in Nat \ {0}
  BY TimeFacts, Numbers
<1>2. (at + gap) % Wrap = now
  BY DEF BeganIsKept
<1>3. sync'.next_due_ms = (at + Period) % Wrap
  OBVIOUS
<1> HIDE DEF at, gap
<1>4. (((at + Period) % Wrap) + gap) % Wrap = (((at + gap) % Wrap) + Period) % Wrap
  BY <1>1, ModSwap
<1> QED
  BY <1>2, <1>3, <1>4 DEF gap

\* An age after base, the reading is span after time.
InStep(base, age, time, span) == (base + age) % Wrap = (time + span) % Wrap

\* Time passes: a reading and its age go on together.
LEMMA LaterKeeps ==
  ASSUME NEW base \in Int, NEW age \in Int, NEW time \in Int, NEW span \in Int,
         InStep(base, age, time, span)
  PROVE  InStep(base, age + 1, (time + 1) % Wrap, span)
<1>1. (((base + age) % Wrap) + 1) % Wrap = ((base + age) + 1) % Wrap
  BY ModSum
<1>2. (((time + span) % Wrap) + 1) % Wrap = ((time + span) + 1) % Wrap
  BY ModSum
<1>3. (((time + 1) % Wrap) + span) % Wrap = ((time + 1) + span) % Wrap
  BY ModSum
<1>4. /\ (base + age) + 1 = base + (age + 1)
      /\ (time + span) + 1 = (time + 1) + span
  OBVIOUS
<1>5. (base + (age + 1)) % Wrap = (((time + 1) % Wrap) + span) % Wrap
  BY <1>1, <1>2, <1>3, <1>4 DEF InStep
<1> QED
  BY <1>5 DEF InStep

\* What the history remembers of a second of time.
LEMMA ElapseTimes ==
  ASSUME TypeOK, Elapse, Timed
  PROVE  LET waits == online /\ call[Task].at = "idle"
         IN  /\ hist'.gap = IF hist.gap < Cap THEN hist.gap + 1 ELSE hist.gap
             /\ hist'.since = IF hist.since < Cap THEN hist.since + 1 ELSE hist.since
             /\ hist'.quiet = IF waits
                              THEN IF hist.quiet < Period + 1 THEN hist.quiet + 1
                                                              ELSE hist.quiet
                              ELSE 0
             /\ hist'.lost = IF waits /\ hist.quiet > 0 THEN hist.lost
                             ELSE waits /\ 2 * (hist.since - Period) >= Wrap
             /\ hist'.old = hist.old
             /\ now' = (now + 1) % Wrap /\ call' = call /\ sync' = sync
             /\ waits => ~SyncDue(sync, now)
BY DEF Elapse, TypeOK, History, Cap

\* Time passes: the ages go on, and a wait does not get past a period.
LEMMA ElapseOnTime ==
  ASSUME TypeOK, OnTime, Elapse, Timed, 2 * Period <= Wrap
  PROVE  OnTime'
<1> DEFINE waits == online /\ call[Task].at = "idle"
<1>1. /\ now \in Nat /\ now \in Reading /\ sync.next_due_ms \in Nat
      /\ call[Task].at_ms \in Nat /\ hist.gap \in 0..Cap /\ hist.since \in 0..Cap
      /\ hist.quiet \in 0..(Period + 1) /\ hist.lost \in BOOLEAN /\ Cap \in Nat
      /\ Period \in Nat \ {0} /\ Wrap \in Nat \ {0}
  BY TimeFacts, Numbers
<1>2. /\ hist'.gap = IF hist.gap < Cap THEN hist.gap + 1 ELSE hist.gap
      /\ hist'.since = IF hist.since < Cap THEN hist.since + 1 ELSE hist.since
      /\ hist'.quiet = IF waits
                       THEN IF hist.quiet < Period + 1 THEN hist.quiet + 1
                                                       ELSE hist.quiet
                       ELSE 0
      /\ hist'.lost = IF waits /\ hist.quiet > 0 THEN hist.lost
                      ELSE waits /\ 2 * (hist.since - Period) >= Wrap
      /\ hist'.old = hist.old
      /\ now' = (now + 1) % Wrap /\ call' = call /\ sync' = sync
      /\ waits => ~SyncDue(sync, now)
  BY ElapseTimes
<1> HIDE DEF waits
<1>3. DueIsKept'
  <2> SUFFICES ASSUME hist.since + 1 < Cap, hist'.since = hist.since + 1
               PROVE  (sync.next_due_ms + (hist.since + 1)) % Wrap = (now' + Period) % Wrap
    BY <1>1, <1>2 DEF DueIsKept, Cap
  <2>1. (sync.next_due_ms + hist.since) % Wrap = (now + Period) % Wrap
    BY <1>1 DEF OnTime, DueIsKept
  <2>2. PICK due \in Int, age \in Int, time \in Int, span \in Int :
          /\ due = sync.next_due_ms /\ age = hist.since
          /\ time = now /\ span = Period
    BY <1>1
  <2>3. (due + (age + 1)) % Wrap = (((time + 1) % Wrap) + span) % Wrap
    <3>1. InStep(due, age, time, span)
      BY <2>1, <2>2 DEF InStep
    <3>2. InStep(due, age + 1, (time + 1) % Wrap, span)
      BY <3>1, LaterKeeps
    <3> QED
      BY <3>2 DEF InStep
  <2> QED
    BY <1>2, <2>2, <2>3
<1>4. BeganIsKept'
  <2> SUFFICES ASSUME call[Task].at # "idle", hist.gap + 1 < Cap
               PROVE  (call[Task].at_ms + (hist.gap + 1)) % Wrap = now'
    BY <1>1, <1>2 DEF BeganIsKept, Cap
  <2>1. (call[Task].at_ms + hist.gap) % Wrap = (now + 0) % Wrap
    <3>1. (call[Task].at_ms + hist.gap) % Wrap = now
      BY <1>1 DEF OnTime, BeganIsKept
    <3> QED
      BY <1>1, <3>1, ModSmall
  <2>2. PICK at \in Int, age \in Int, time \in Int, span \in Int :
          /\ at = call[Task].at_ms /\ age = hist.gap
          /\ time = now /\ span = 0
    BY <1>1
  <2>3. (at + (age + 1)) % Wrap = (((time + 1) % Wrap) + span) % Wrap
    <3>1. InStep(at, age, time, span)
      BY <2>1, <2>2 DEF InStep
    <3>2. InStep(at, age + 1, (time + 1) % Wrap, span)
      BY <3>1, LaterKeeps
    <3> QED
      BY <3>2 DEF InStep
  <2>4. (((time + 1) % Wrap) + 0) % Wrap = (time + 1) % Wrap
    <3> DEFINE later == (time + 1) % Wrap
    <3>1. later \in Reading
      BY ModInRange
    <3> HIDE DEF later
    <3>2. later + 0 = later
      BY <3>1 DEF Reading
    <3>3. (later + 0) % Wrap = later
      BY <3>1, <3>2, ModSmall
    <3> QED
      BY <3>3 DEF later
  <2> QED
    BY <1>2, <2>2, <2>3, <2>4
<1>5. LastPollSets'
  BY <1>2 DEF OnTime, LastPollSets, Cap
<1>6. WaitIsShort'
  <2>0. call'[Task].at # "idle" => hist'.quiet = 0
    BY <1>2 DEF waits
  <2> SUFFICES ASSUME waits, ~hist'.lost
               PROVE  hist'.quiet <= hist'.since /\ hist'.since <= Period
    BY <1>1, <1>2, <2>0 DEF WaitIsShort
  <2>1. ~SyncDue(sync, now)
    BY <1>2
  <2>2. CASE hist.quiet > 0
    <3>1. hist.quiet <= hist.since /\ hist.since <= Period
      BY <1>2, <2>2 DEF OnTime, WaitIsShort
    <3>2. hist.since < Period
      BY <1>1, <2>1, <3>1, DueIsTrue DEF OnTime
    <3> QED
      BY <1>1, <1>2, <3>1, <3>2 DEF Cap
  <2>3. CASE ~(hist.quiet > 0)
    <3>1. 2 * (hist.since - Period) < Wrap
      <4> DEFINE late == 2 * (hist.since - Period) >= Wrap
      <4>1. hist'.lost = (waits /\ late)
        BY <1>2, <2>3
      <4>2. ~late
        <5> HIDE DEF late
        <5> QED
          BY <4>1
      <4> QED
        BY <1>1, <4>2
    <3>2. hist.since < Period
      BY <1>1, <2>1, <3>1, DueIsTrue DEF OnTime
    <3> QED
      BY <1>1, <1>2, <2>3, <3>2 DEF Cap
  <2> QED
    BY <2>2, <2>3
<1> QED
  BY <1>3, <1>4, <1>5, <1>6 DEF OnTime

\* The steps of a poll: it begins with nothing waited for, and every end but an old
\* answer sets the deadline.
LEMMA PollOnTime ==
  ASSUME TypeOK, OnTime, Alone, [Next]_vars, ~Elapse, ~Boot
  PROVE  OnTime'
<1>1. /\ now \in Reading /\ now \in Nat /\ hist \in History
      /\ hist.gap \in 0..Cap /\ hist.since \in 0..Cap /\ Cap \in Nat
      /\ call \in [Callers -> Call] /\ Task \in Callers /\ sync \in Ctx
      /\ call[Task].at_ms \in Nat /\ Callers = {Task} /\ Timed
  BY TimeFacts, Numbers DEF Alone
<1>2. /\ DueIsKept /\ BeganIsKept /\ LastPollSets /\ WaitIsShort
  BY DEF OnTime
<1>3. Idle.at = "idle"
  BY DEF Idle
<1>4. CASE TaskPolls
  <2> DEFINE begun == [Idle EXCEPT !.at = "fetch", !.at_ms = now]
  <2>1. begun.at = "fetch" /\ begun.at_ms = now
    BY DEF Idle
  <2> HIDE DEF begun
  <2>2. call'[Task].at = "fetch" /\ call'[Task].at_ms = now
    BY <1>1, <1>4, <2>1 DEF TaskPolls, StartsFetch, begun
  <2>3. /\ hist'.gap = 0 /\ hist'.since = hist.since /\ hist'.quiet = 0
        /\ now' = now /\ sync' = sync
    BY <1>1, <1>4 DEF TaskPolls, History
  <2>4. BeganIsKept'
    <3>1. (now + 0) % Wrap = now
      BY <1>1, ModSmall
    <3> QED
      BY <2>2, <2>3, <3>1 DEF BeganIsKept
  <2> QED
    BY <1>2, <2>2, <2>3, <2>4 DEF OnTime, DueIsKept, LastPollSets, WaitIsShort, Cap
<1>5. ASSUME sync'.next_due_ms = (call[Task].at_ms + Period) % Wrap,
             call[Task].at # "idle", hist'.since = hist.gap, hist'.gap = hist.gap,
             hist'.quiet = hist.quiet, hist'.lost = hist.lost, now' = now,
             call'[Task].at \in {"idle", "save"},
             call'[Task].at = "save" => call'[Task].at_ms = call[Task].at_ms
      PROVE  OnTime'
  <2>1. DueIsKept'
    BY <1>2, <1>5, ScheduleKeeps
  <2>2. hist.quiet = 0
    BY <1>2, <1>5 DEF WaitIsShort
  <2> QED
    BY <1>1, <1>2, <1>5, <2>1, <2>2
       DEF OnTime, BeganIsKept, LastPollSets, WaitIsShort, Cap
<1>6. ASSUME NEW h \in {hist'}, h = [hist EXCEPT !.since = hist.gap]
      PROVE  /\ h.since = hist.gap /\ h.gap = hist.gap
             /\ h.quiet = hist.quiet /\ h.lost = hist.lost
  BY <1>1, <1>6 DEF History
<1>7. ASSUME Fails(Task), call[Task].at # "idle" PROVE OnTime'
  <2>1. sync'.next_due_ms = (call[Task].at_ms + Period) % Wrap
    BY <1>1, <1>7 DEF Fails, ScheduleNext, Ctx
  <2>2. call'[Task].at = "idle"
    BY <1>1, <1>3, <1>7 DEF Fails, Ends
  <2> QED
    BY <1>5, <1>6, <1>7, <2>1, <2>2 DEF Fails
<1>8. CASE Applied(Task)
  <2> DEFINE s == [sync EXCEPT !.generation = call[Task].gen]
             u == [s EXCEPT !.ever_synced = TRUE]
  <2>1. s \in [generation : {call[Task].gen}, ever_synced : BOOLEAN, next_due_ms : Reading]
    BY <1>1 DEF Ctx
  <2> HIDE DEF s
  <2>2. u \in [generation : {call[Task].gen}, ever_synced : BOOLEAN, next_due_ms : Reading]
    BY <2>1
  <2>3. sync' = [u EXCEPT !.next_due_ms = (call[Task].at_ms + Period) % Wrap]
    BY <1>8 DEF Applied, SyncUnchanged, ScheduleNext, s
  <2> HIDE DEF u
  <2>4. sync'.next_due_ms = (call[Task].at_ms + Period) % Wrap
    BY <2>2, <2>3
  <2>5. /\ call'[Task].at = "save" /\ call'[Task].at_ms = call[Task].at_ms
        /\ call[Task].at = "apply" /\ now' = now
    BY <1>1, <1>8 DEF Applied, Goes, Call, TypeOK
  <2>6. /\ hist'.since = hist.gap /\ hist'.gap = hist.gap
        /\ hist'.quiet = hist.quiet /\ hist'.lost = hist.lost
    BY <1>1, <1>8 DEF Applied, History
  <2> QED
    BY <1>5, <2>4, <2>5, <2>6
<1>9. CASE NothingApplied(Task)
  <2>1. call'[Task].at = "idle" /\ call[Task].at = "apply" /\ now' = now
    BY <1>1, <1>3, <1>9 DEF NothingApplied, Ends
  <2>2. ASSUME sync' = SyncUnchanged(sync, call[Task].at_ms),
               hist' = [hist EXCEPT !.since = hist.gap]
        PROVE  OnTime'
    <3> DEFINE u == [sync EXCEPT !.ever_synced = TRUE]
    <3>1. u \in Ctx
      BY <1>1 DEF Ctx
    <3>2. sync' = [u EXCEPT !.next_due_ms = (call[Task].at_ms + Period) % Wrap]
      BY <2>2 DEF SyncUnchanged, ScheduleNext
    <3> HIDE DEF u
    <3>3. sync'.next_due_ms = (call[Task].at_ms + Period) % Wrap
      BY <3>1, <3>2 DEF Ctx
    <3> QED
      BY <1>5, <1>6, <2>1, <2>2, <3>3
  <2>3. ASSUME sync' = sync, hist' = [hist EXCEPT !.old = hist.old \/ (Timed /\ Task = Task)]
        PROVE  OnTime'
    <3>1. /\ hist'.since = hist.since /\ hist'.gap = hist.gap /\ hist'.old
          /\ hist'.quiet = hist.quiet /\ hist'.lost = hist.lost
      BY <1>1, <2>3 DEF History
    <3> QED
      BY <1>2, <2>1, <2>3, <3>1
         DEF OnTime, DueIsKept, BeganIsKept, LastPollSets, WaitIsShort, Cap
  <2> QED
    BY <1>9, <2>2, <2>3 DEF NothingApplied
<1>10. CASE Saved(Task)
  <2>1. call'[Task].at = "idle" /\ call[Task].at = "save" /\ now' = now
        /\ hist' = hist /\ sync' = sync
    BY <1>1, <1>3, <1>10 DEF Saved, Ends
  <2> QED
    BY <1>2, <2>1 DEF OnTime, DueIsKept, BeganIsKept, LastPollSets, WaitIsShort, Cap
<1>11. ASSUME call[Task].at # "idle", call'[Task].at_ms = call[Task].at_ms,
              call'[Task].at \in {"parse", "apply"}, hist' = hist, sync' = sync, now' = now
       PROVE  OnTime'
  BY <1>2, <1>11 DEF OnTime, DueIsKept, BeganIsKept, LastPollSets, WaitIsShort, Cap
<1>12. ASSUME NEW g \in Generations, Fetched(Task, g) PROVE OnTime'
  <2>1. /\ call'[Task].at = "parse" /\ call'[Task].at_ms = call[Task].at_ms
        /\ call[Task].at = "fetch" /\ hist' = hist /\ sync' = sync /\ now' = now
    BY <1>1, <1>12 DEF Fetched, Goes, Call, TypeOK
  <2> QED
    BY <1>11, <2>1
<1>13. CASE Parsed(Task)
  <2>1. /\ call'[Task].at = "apply" /\ call'[Task].at_ms = call[Task].at_ms
        /\ call[Task].at = "parse" /\ hist' = hist /\ sync' = sync /\ now' = now
    BY <1>1, <1>13 DEF Parsed, Call, TypeOK
  <2> QED
    BY <1>11, <2>1
<1>14. ASSUME Step(Task) PROVE OnTime'
  BY <1>7, <1>8, <1>9, <1>10, <1>13, <1>14 DEF Step, FetchFails, ParseFails
<1>15. ASSUME call' = call, sync' = sync, now' = now,
              \/ hist' = hist
              \/ \E p : hist' = [hist EXCEPT !.extra = p]
              \/ NotesRemoval
       PROVE  OnTime'
  <2>1. /\ hist'.since = hist.since /\ hist'.gap = hist.gap /\ hist'.old = hist.old
        /\ hist'.quiet = hist.quiet /\ hist'.lost = hist.lost
    <3>1. CASE NotesRemoval
      BY <1>1, <3>1, RemovalNoted DEF History
    <3> QED
      BY <1>1, <1>15, <3>1 DEF History
  <2> QED
    BY <1>2, <1>15, <2>1
       DEF OnTime, DueIsKept, BeganIsKept, LastPollSets, WaitIsShort, Cap
<1>16. CASE Aside \/ UNCHANGED vars
  BY <1>15, <1>16 DEF Aside, PushLost, Publish, LinkChanges, vars
<1>17. CASE Writes
  <2>1. call' = call /\ sync' = sync /\ now' = now
    BY <1>17, WriteFacts
  <2>2. \/ hist' = hist
        \/ \E p : hist' = [hist EXCEPT !.extra = p]
        \/ NotesRemoval
    BY <1>17, WriteFacts
  <2> QED
    BY <1>15, <2>1, <2>2
<1>18. ~ConsolePolls
  BY <1>1 DEF ConsolePolls, Task, Console
<1> QED
  BY <1>1, <1>4, <1>12, <1>14, <1>16, <1>17, <1>18 DEF Next, Aside, Writes, Commanded

\* A boot is due at once, as if a period had passed; so is the first.
LEMMA BootOnTime == (Init \/ (TypeOK /\ Boot)) => (Init => OnTime) /\ (Boot => OnTime')
<1>1. 0 \in Reading /\ Period \in Nat \ {0} /\ Task \in Callers
  BY Numbers
<1>2. (0 + Period) % Wrap = (0 + Period) % Wrap
  OBVIOUS
<1>3. Init => OnTime
  BY <1>1, <1>2
     DEF Init, SyncInit, HistoryAtBoot, Idle, OnTime, DueIsKept, BeganIsKept, LastPollSets,
         WaitIsShort
<1>4. Boot => OnTime'
  BY <1>1, <1>2
     DEF Boot, SyncInit, HistoryAtBoot, Idle, OnTime, DueIsKept, BeganIsKept, LastPollSets,
         WaitIsShort
<1> QED
  BY <1>3, <1>4

\* A sync task that nobody's `sync now` runs beside polls when it is due: within a
\* period of idling online, and never closer to its last poll than a period, at
\* any point of the counter and after any loss of the link (sync_due,
\* schedule_next).  (The history counts the time since the task's own polls, so
\* it is kept by the one caller; the period is less than half the counter.)
THEOREM PollsAreOnTime ==
  ASSUME Callers = {Task}, Timed, 2 * Period <= Wrap
  PROVE  Spec => PollsOnTime
<1>1. Alone
  BY DEF Alone
<1>2. TypeOK /\ OnTime /\ [Next]_vars => OnTime'
  BY <1>1, ElapseOnTime, PollOnTime, BootOnTime DEF Alone
<1>3. Spec => [](TypeOK /\ OnTime)
  <2>1. Init => OnTime
    BY BootOnTime
  <2> QED
    BY <1>2, <2>1, TypeCorrect, PTL DEF Spec
<1>4. OnTime /\ TypeOK => PollsInTime
  <2> SUFFICES ASSUME OnTime, TypeOK, hist.quiet > Period, ~hist.lost PROVE FALSE
    BY DEF PollsInTime
  <2> QED
    BY TimeFacts, Numbers DEF OnTime, WaitIsShort
<1>5. OnTime /\ TypeOK /\ [Next]_vars => PollsSpaced
  <2> SUFFICES ASSUME OnTime, TypeOK, [Next]_vars, call[Task].at = "idle",
                      call'[Task].at = "fetch", ~hist.old, ~(hist.gap >= Period)
               PROVE  FALSE
    BY DEF PollsSpaced
  <2>1. TaskPolls
    <3>1. call \in [Callers -> Call] /\ Task \in Callers /\ Idle.at = "idle"
      BY TimeFacts, Numbers DEF Idle
    <3>2. \A c \in Callers : c = Task
      OBVIOUS
    <3>3. ~ConsolePolls
      BY DEF ConsolePolls, Task, Console
    <3>4. ASSUME NEW g \in Generations, Fetched(Task, g) PROVE FALSE
      BY <3>4 DEF Fetched
    <3>5. ASSUME Step(Task) PROVE FALSE
      BY <3>5 DEF Step, FetchFails, Parsed, ParseFails, Applied, NothingApplied, Saved
    <3>6. ASSUME Boot PROVE FALSE
      BY <3>1, <3>6 DEF Boot
    <3>7. ASSUME Writes \/ Aside \/ UNCHANGED vars PROVE FALSE
      BY <3>7, WriteFacts DEF Aside, PushLost, Publish, LinkChanges, Elapse, vars
    <3> QED
      BY <3>2, <3>3, <3>4, <3>5, <3>6, <3>7 DEF Next, Aside, Writes, Commanded
  <2>2. SyncDue(sync, now) /\ hist.since = hist.gap
    BY <2>1 DEF TaskPolls, OnTime, LastPollSets
  <2>3. 2 * (hist.since - Period) < Wrap
    BY <2>2, TimeFacts, Numbers
  <2> QED
    BY <2>2, <2>3, DueIsTrue, TimeFacts, Numbers DEF OnTime
<1>6. OnTime /\ TypeOK /\ PollsInTime' /\ [Next]_vars
        => [PollsInTime' /\ PollsSpaced]_vars
  BY <1>5
<1> QED
  BY <1>3, <1>4, <1>6, PTL DEF Spec, PollsOnTime
=============================================================================
