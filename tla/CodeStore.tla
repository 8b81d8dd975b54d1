----------------------------- MODULE CodeStore -----------------------------
(***************************************************************************)
(* components/persist_store/persist_codes.c, the half of persist_store.c   *)
(* that uses it, and the console commands that call it: the codes on the   *)
(* EEPROM.  RAM slot i belongs to chip slot i, which holds two buffers     *)
(* written in turn, each with the generation after the other's.            *)
(*                                                                         *)
(* A buffer is two pages, so a save has two steps: after the first the     *)
(* buffer is of two records, which its CRC tells (assumed of crc16), and   *)
(* either may fail or be cut off by the supply.  The console holds the     *)
(* mutex through a save, but `code persist` puts the code into the table   *)
(* in a section of its own.  The other writers of the table, the sync and  *)
(* the bot, change the RAM only.                                           *)
(***************************************************************************)
EXTENDS GuestTable

CONSTANTS
  BackendIds,  \* ids of 8 lowercase hex digits
  StoredIds,   \* ids of `code persist`: "t" and seven digits of the clock
  GenWrap      \* 2^32

DevIds == Ids \ (BackendIds \union StoredIds)

ASSUME CodeStoreAssumption ==
  /\ BackendIds \subseteq Ids /\ StoredIds \subseteq Ids \ BackendIds
  /\ GenWrap \in Nat \ {0, 1, 2, 3}

VARIABLES
  access,  \* s_access
  codes,   \* the code slots of the EEPROM
  job,     \* the console command that is saving slots, if any
  loaded   \* history: the slots this boot could read

codesVars == <<access, codes, job, loaded>>

Buffers == 0..1

\* pc_decode fails: never written, or of two records.
Invalid == [ok |-> FALSE, gen |-> 0, code |-> EmptySlot]

Buffer == [ok : BOOLEAN, gen : 0..(GenWrap - 1), code : Slot]

NoSaves == [i \in SlotIndex |-> 0]

\* todo: how often each slot is still to be saved.  code: what the answer will
\* call stored (add_code's id and hash; no code for `code del`).  overtaken,
\* a history: another task has changed the slot since the command put it there.
NoJob == [cmd |-> "none", at |-> "idle", todo |-> NoSaves, failed |-> FALSE,
          code |-> EmptySlot, overtaken |-> FALSE]

CodesTypeOK ==
  /\ access \in Context
  /\ codes \in [SlotIndex -> [Buffers -> Buffer]]
  /\ job \in [cmd : {"none", "persist", "del", "erase"}, failed : BOOLEAN,
              at : {"idle", "unlocked", "page one", "page two"},
              todo : [SlotIndex -> 0..2], code : Slot, overtaken : BOOLEAN]
  /\ loaded \subseteq SlotIndex

-----------------------------------------------------------------------------
(* persist_codes *)

\* Mutant of FirstIsNewer: the generations compared without the wrap.
FirstIsNewerNoWrap(image) == image[0].gen > image[1].gen

\* (int32_t)(ga - gb) > 0
FirstIsNewer(image) ==
  LET d == (image[0].gen - image[1].gen) % GenWrap IN d # 0 /\ 2 * d < GenWrap

NewestBuffer(image) ==
  IF image[0].ok /\ (~image[1].ok \/ FirstIsNewer(image)) THEN 0 ELSE 1

\* pc_slot_read: the code a boot would find, or an empty slot.
SlotRead(image) == image[NewestBuffer(image)].code

\* Mutant of WriteHalf: the buffers are not written in turn.
WriteHalfFirst(image) == 0

\* pc_slot_write_half: the buffer that is invalid or older.
WriteHalf(image) ==
  IF image[0].ok \/ image[1].ok THEN 1 - NewestBuffer(image) ELSE 0

\* Mutant of NextGeneration: the number is wider than 32 bits.
NextGenerationWide(image) == image[NewestBuffer(image)].gen + 1

NextGeneration(image) == (image[NewestBuffer(image)].gen + 1) % GenWrap

\* What persist_codes_save encodes of RAM slot i.
ToStore(i) == IF access.slots[i].transient THEN EmptySlot ELSE access.slots[i]

TornCode(i) == [codes EXCEPT ![i][WriteHalf(codes[i])] = Invalid]

WrittenCode(i) ==
  [codes EXCEPT ![i][WriteHalf(codes[i])] =
     [ok |-> TRUE, gen |-> NextGeneration(codes[i]), code |-> ToStore(i)]]

\* The slots are saved in order.
Current == FirstOf({i \in SlotIndex : job.todo[i] > 0})

\* A slot whose first save fails is not saved a second time.
Left(ok) == [job.todo EXCEPT ![Current] = IF ok THEN @ - 1 ELSE 0]

SaveReturns(ok) ==
  job' = IF Left(ok) = NoSaves THEN NoJob
         ELSE [job EXCEPT !.todo = Left(ok), !.failed = @ \/ ~ok, !.at = "page one"]

\* persist_codes_save up to the first page: a dev code is not written.
PageOne ==
  /\ job.at = "page one"
  /\ IF access.slots[Current].transient
     THEN SaveReturns(TRUE) /\ UNCHANGED codes
     ELSE codes' = TornCode(Current) /\ job' = [job EXCEPT !.at = "page two"]
  /\ UNCHANGED <<access, loaded>>

\* The slot cannot be read, or its first page not be written.
PageOneFails ==
  /\ job.at = "page one"
  /\ codes' \in {codes, TornCode(Current)}
  /\ SaveReturns(FALSE)
  /\ UNCHANGED <<access, loaded>>

PageTwo ==
  /\ job.at = "page two"
  /\ codes' = WrittenCode(Current)
  /\ SaveReturns(TRUE)
  /\ UNCHANGED <<access, loaded>>

\* An error before, in or after the page (persist_raw_write).
PageTwoFails ==
  /\ job.at = "page two"
  /\ codes' \in {codes, WrittenCode(Current)}
  /\ SaveReturns(FALSE)
  /\ UNCHANGED <<access, loaded>>

-----------------------------------------------------------------------------
(* The console, of a gate that trusts its clock (add_code refuses without) *)

ConsoleIdle == job.at = "idle"

MutexFree == job.at \in {"idle", "unlocked"}

\* Mutant of Once: the first slot, whichever the code was put in.
OnceFirst(i) == [NoSaves EXCEPT ![1] = 1]

Once(i) == [NoSaves EXCEPT ![i] = 1]

StartsSaving(cmd, saves) ==
  job' = [NoJob EXCEPT !.cmd = cmd, !.at = "page one", !.todo = saves]

CodeAdd(id, h) ==
  /\ ConsoleIdle
  /\ id \in DevIds
  /\ access' = AcUpsertTransient(access, id, h, 0, 1).ac
  /\ UNCHANGED <<codes, job, loaded>>

\* add_code releases the mutex; the save comes in a section of its own, and
\* saves whatever the slot holds by then.
CodePersist(id, h) ==
  LET u == AcUpsert(access, id, h, 0, 1)
  IN  /\ ConsoleIdle
      /\ id \in StoredIds
      /\ u.slot # 0
      /\ access' = u.ac
      /\ job' = [NoJob EXCEPT !.cmd = "persist", !.at = "unlocked",
                              !.todo = Once(u.slot), !.code = u.ac.slots[u.slot]]
      /\ UNCHANGED <<codes, loaded>>

CodePersistSaves ==
  /\ job.at = "unlocked"
  /\ job' = [job EXCEPT !.at = "page one"]
  /\ UNCHANGED <<access, codes, loaded>>

\* `code del`: a guest's code too, if the user says yes.
CodeDel(id) ==
  LET i == FirstOf(ById(access, id))
  IN  /\ ConsoleIdle
      /\ ById(access, id) # {}
      /\ access' = AcRevoke(access, id)
      /\ IF access.slots[i].transient THEN UNCHANGED job
                                      ELSE StartsSaving("del", Once(i))
      /\ UNCHANGED <<codes, loaded>>

\* Mutant of EraseSaves: each slot is saved once.
EraseSavesOnce(spared) == [i \in SlotIndex |-> IF i \in spared THEN 0 ELSE 1]

\* Each slot that is not spared is saved twice, to reach both its buffers.
EraseSaves(spared) == [i \in SlotIndex |-> IF i \in spared THEN 0 ELSE 2]

\* `code erase [all] yes`: nothing at all when the table holds no stored code.
\* Each slot is cleared just before its saves, all under one hold of the mutex.
CodeErase(all) ==
  LET stored == {i \in SlotIndex : access.slots[i].occupied
                                     /\ ~access.slots[i].transient}
      spared == IF all THEN {}
                ELSE {i \in stored : access.slots[i].id \in BackendIds}
  IN  /\ ConsoleIdle
      /\ stored # {}
      /\ access' = [access EXCEPT !.slots = [i \in SlotIndex |->
                      IF i \in spared THEN access.slots[i] ELSE EmptySlot]]
      /\ IF EraseSaves(spared) = NoSaves
         THEN UNCHANGED job
         ELSE StartsSaving("erase", EraseSaves(spared))
      /\ UNCHANGED <<codes, loaded>>

\* Another task has the mutex, and may change the slot `code persist` is about
\* to save.
Overtakes ==
  IF \E i \in SlotIndex : job.todo[i] > 0 /\ access'.slots[i] # access.slots[i]
  THEN job' = [job EXCEPT !.overtaken = TRUE]
  ELSE UNCHANGED job

\* `code clear` and `dev off`; also the end of a portal session.
CodeClear ==
  /\ MutexFree
  /\ access' = AcRevokeTransient(access)
  /\ Overtakes
  /\ UNCHANGED <<codes, loaded>>

-----------------------------------------------------------------------------
(* The network, and the supply *)

\* sync_apply installs a set: here no guest, or one.
SyncInstalls(set) ==
  /\ MutexFree
  /\ access' = Install(WithoutGuests(access), set)
  /\ Overtakes
  /\ UNCHANGED <<codes, loaded>>

\* tg_client's apply().
PushArrives(id, h) ==
  /\ MutexFree
  /\ access' \in {AcUpsert(access, id, h, 0, 1).ac, AcRevoke(access, id)}
  /\ Overtakes
  /\ UNCHANGED <<codes, loaded>>

\* What a power cut leaves of the page that is being written.
AfterCut ==
  CASE job.at = "page one" -> {codes, TornCode(Current)}
    [] job.at = "page two" -> {codes, WrittenCode(Current)}
    [] OTHER               -> {codes}

\* pc_apply
RestoredCode(image) == [SlotRead(image) EXCEPT !.transient = FALSE]

Trusted == [AcInit EXCEPT !.clock_trusted = TRUE]

\* A power cut, and persist_codes_load of the slots that can be read: none of
\* them when persist_init failed.
Boot(readable) ==
  /\ codes' \in AfterCut
  /\ loaded' = readable
  /\ access' = [Trusted EXCEPT !.slots = [i \in SlotIndex |->
                  IF i \in readable THEN RestoredCode(codes'[i]) ELSE EmptySlot]]
  /\ job' = NoJob

CodesInit ==
  /\ access = Trusted
  /\ codes = [i \in SlotIndex |-> [b \in Buffers |-> Invalid]]
  /\ job = NoJob
  /\ loaded = SlotIndex

GuestSets(h) ==
  {<<>>} \union {<<[id |-> id, hash |-> h, valid_from |-> 0, valid_until |-> 1]>> :
                   id \in BackendIds}

CodesNext ==
  \/ PageOne \/ PageOneFails \/ PageTwo \/ PageTwoFails
  \/ CodeClear \/ CodePersistSaves
  \/ \E id \in Ids, h \in Hashes : CodeAdd(id, h) \/ CodePersist(id, h)
  \/ \E id \in Ids : CodeDel(id)
  \/ \E all \in BOOLEAN : CodeErase(all)
  \/ \E h \in Hashes : \E set \in GuestSets(h) : SyncInstalls(set)
  \/ \E id \in BackendIds, h \in Hashes : PushArrives(id, h)
  \/ \E readable \in SUBSET SlotIndex : Boot(readable)

CodesSpec == CodesInit /\ [][CodesNext]_codesVars

-----------------------------------------------------------------------------
\* Every slot keeps the promise of AttemptStore, its dev codes apart: what a
\* boot restores is the last record saved, or the one before it while a save
\* has not returned or has failed; never a mixture, never an older one
\* (persist_codes.h: "an interrupted write always leaves the previous code").
Cell(i) ==
  INSTANCE AttemptStore
    WITH Values <- Slot, Initial <- EmptySlot, value <- ToStore(i),
         latest <- SlotRead(codes[i]), durable <- SlotRead(codes[i]),
         ready <- i \in loaded

KeepsCodes ==
  /\ \A i \in SlotIndex : Cell(i)!Init
  /\ [][ \A i \in SlotIndex : Cell(i)!Next \/ UNCHANGED Cell(i)!vars ]_codesVars

\* A command's last save returns ESP_OK, and so did the others.
Reports(cmds) ==
  /\ PageOne \/ PageTwo
  /\ job.cmd \in cmds /\ job'.at = "idle" /\ ~job.failed

\* What `code persist` calls "written to EEPROM slot N" is what a boot would
\* restore there, unless the sync or the bot changed the slot between the two
\* sections: then the answer names a code that is nowhere, and the EEPROM holds
\* what the slot held at the save.  What `code del` calls erased from the EEPROM
\* is erased, as far as that slot goes.
ReportedIsStored ==
  Reports({"persist", "del"})
    => /\ SlotRead(codes'[Current]) = ToStore(Current)
       /\ ~job.overtaken => SlotRead(codes'[Current]) = job.code

\* After `code erase` no buffer of an erased slot holds a code, not even the
\* older one: that is why each slot is saved twice.
ErasedEverywhere ==
  Reports({"erase"})
    => \A i \in SlotIndex : ~access'.slots[i].occupied
         => \A b \in Buffers : codes'[i][b].ok /\ ~codes'[i][b].code.occupied

\* What the console calls stored or erased is so on the EEPROM, unless another
\* task took the slot in the gap that `code persist` leaves (cmd_code).
AnswersHoldUnlessOvertaken == [][ReportedIsStored /\ ErasedEverywhere]_codesVars
=============================================================================
