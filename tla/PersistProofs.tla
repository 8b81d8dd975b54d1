--------------------------- MODULE PersistProofs ---------------------------
(***************************************************************************)
(* Proofs about persist_store.                                             *)
(*                                                                         *)
(* PersistRing, for every length of the ring and every kind of record: the *)
(* order of the sequence numbers is the order of the saves, and the ring   *)
(* implements AttemptStore.  The argument: IndInv is an inductive          *)
(* invariant.  Beside RingOrdered it says that a slot's numbers are those  *)
(* of its turns, which is why a boot that wrote blindly leaves no two      *)
(* slots with one number.                                                  *)
(*                                                                         *)
(* CodeStore, for every number of slots, every set of ids and every width  *)
(* of the generations: each slot implements AttemptStore, and the console  *)
(* answers with what is on the EEPROM unless another task took the slot in *)
(* the gap of `code persist`.  The argument: CodesInv.  No buffer holds a  *)
(* dev code, so a boot restores what it finds; the slots left to save hold *)
(* no dev code, so every save writes; a slot left to save holds the code   *)
(* the answer will name, if nobody took it; and an erase has reached,      *)
(* while no save failed, the newest buffer of a slot with one save left    *)
(* and both buffers of a slot with none.                                   *)
(***************************************************************************)
EXTENDS PersistRing, CodeStore, OperatorProofs

\* n is a number that a save gives to slot i: the first round numbers the slots
\* 1, 2, ..., RingSlots, and so on.
Turn(n, i) == \E k \in Nat : n = RingSlots * k + i + 1

\* Every number on the chip is one of its slot's turns; so is the cursor's, even
\* when it started afresh at slot 0 because the ring could not be read.
NumbersFollowSlots ==
  /\ \A i \in Ring : chip[i].seq # 0 => Turn(chip[i].seq, i)
  /\ IF cur.slot = -1 THEN cur.seq = 0 ELSE Turn(cur.seq, cur.slot)

\* A page without a number is a page without a record.
BlankIsNoRecord == \A i \in Ring : chip[i].seq = 0 => chip[i] = NoRecord

IndInv == TypeOK /\ NumbersFollowSlots /\ BlankIsNoRecord /\ RingOrdered

-----------------------------------------------------------------------------
(* The ring *)

\* The slots of the ring.
LEMMA RingFacts ==
  /\ RingSlots \in Nat /\ RingSlots >= 2 /\ 0 \in Ring /\ -1 \notin Ring
  /\ \A i \in Ring : i \in Nat /\ i < RingSlots
BY RingAssumption DEF Ring

\* A number has one slot.
LEMMA OneSlotPerNumber ==
  ASSUME NEW n, NEW i \in Ring, NEW j \in Ring, Turn(n, i), Turn(n, j)
  PROVE  i = j
<1>1. PICK k \in Nat : n = RingSlots * k + i + 1
  BY DEF Turn
<1>2. PICK l \in Nat : n = RingSlots * l + j + 1
  BY DEF Turn
<1>3. /\ RingSlots \in Nat \ {0} /\ i \in 0..(RingSlots - 1)
      /\ j \in 0..(RingSlots - 1)
  BY RingFacts DEF Ring
<1>4. RingSlots * k + i \in Int /\ RingSlots * l + j \in Int
      /\ RingSlots * k + i = RingSlots * l + j
  BY <1>1, <1>2, <1>3
<1>5. (RingSlots * k + i) % RingSlots = i
  BY <1>3
<1>6. (RingSlots * l + j) % RingSlots = j
  BY <1>3
<1> QED
  BY <1>4, <1>5, <1>6

\* pr_advance: the slot after the cursor's, or the first; the turn after its turn.
LEMMA AdvanceFacts ==
  ASSUME NEW c \in [slot : Ring \union {-1}, seq : Nat],
         IF c.slot = -1 THEN c.seq = 0 ELSE Turn(c.seq, c.slot)
  PROVE  LET a == Advance(c)
         IN  /\ a \in [slot : Ring, seq : Nat]
             /\ a.slot # c.slot /\ a.seq = c.seq + 1 /\ Turn(a.seq, a.slot)
<1> DEFINE a == Advance(c)
<1>1. a.seq = c.seq + 1 /\ a = [slot |-> a.slot, seq |-> a.seq]
  BY DEF Advance
<1>2. RingSlots \in Nat /\ RingSlots >= 2
  BY RingFacts
<1>3. CASE c.slot = -1
  <2>1. a.slot = 0
    BY <1>3 DEF Advance
  <2>2. 1 = RingSlots * 0 + 0 + 1 /\ 0 \in Nat
    BY <1>2
  <2> HIDE DEF a
  <2>3. Turn(a.seq, a.slot)
    BY <1>1, <1>3, <2>1, <2>2 DEF Turn
  <2> QED
    BY <1>1, <1>3, <2>1, <2>3, RingFacts DEF a
<1>4. CASE c.slot \in Ring
  <2>1. c.slot \in Nat /\ c.slot < RingSlots /\ c.slot # -1
    BY <1>4, RingFacts
  <2>2. a.slot = (c.slot + 1) % RingSlots
    BY <2>1 DEF Advance
  <2> HIDE DEF a
  <2>3. PICK k \in Nat : c.seq = RingSlots * k + c.slot + 1
    BY <2>1 DEF Turn
  <2>4. CASE c.slot = RingSlots - 1
    <3>1. (c.slot + 1) % RingSlots = 0
      BY <1>2, <2>4
    <3>2. c.seq + 1 = RingSlots * (k + 1) + 0 + 1 /\ k + 1 \in Nat
      BY <1>2, <2>3, <2>4
    <3>3. Turn(a.seq, a.slot)
      BY <1>1, <2>2, <3>1, <3>2 DEF Turn
    <3> QED
      BY <1>1, <1>2, <2>2, <2>4, <3>1, <3>3, RingFacts DEF a
  <2>5. CASE c.slot < RingSlots - 1
    <3>1. c.slot + 1 \in 0..(RingSlots - 1)
      BY <1>2, <2>1, <2>5
    <3>2. (c.slot + 1) % RingSlots = c.slot + 1
      BY <1>2, <3>1
    <3>3. c.seq + 1 = RingSlots * k + (c.slot + 1) + 1
      BY <1>2, <2>1, <2>3
    <3>4. Turn(a.seq, a.slot)
      BY <1>1, <2>2, <3>2, <3>3 DEF Turn
    <3> QED
      BY <1>1, <2>1, <2>2, <3>1, <3>2, <3>4 DEF a, Ring
  <2> QED
    BY <1>2, <2>1, <2>4, <2>5
<1> QED
  BY <1>3, <1>4

-----------------------------------------------------------------------------
(* The newest record *)

\* What pr_find_latest looks for, among the first m slots.
NewestUpTo(c, m, i) ==
  \A j \in 0..m : c[j].seq < c[i].seq \/ (c[j].seq = c[i].seq /\ i <= j)

\* There is always one, whatever is on the chip.
LEMMA NewestFacts ==
  ASSUME NEW c \in [Ring -> Record]
  PROVE  /\ Newest(c) \in Ring
         /\ \A j \in Ring : c[j].seq \in Nat /\ c[j].seq <= c[Newest(c)].seq
<1> DEFINE S == {m \in Ring : ~\E i \in 0..m : NewestUpTo(c, m, i)}
<1>1. \A j \in Ring : j \in Nat /\ c[j].seq \in Nat
  BY RingFacts DEF Record
<1>2. S = {}
  <2> SUFFICES ASSUME S # {} PROVE FALSE
    OBVIOUS
  <2>1. S \in SUBSET Nat
    BY <1>1
  <2>2. PICK m \in S : \A y \in S : <<y, m>> \notin OpToRel(<, Nat)
    BY <2>1, WFMin, NatLessThanWellFounded, Zenon
  <2>3. \A y \in S : ~(y < m)
    BY <2>1, <2>2 DEF OpToRel
  <2>4. m \in Ring /\ m \in Nat
    BY <1>1
  <2>5. ~\E i \in 0..m : NewestUpTo(c, m, i)
    OBVIOUS
  <2>6. CASE m = 0
    <3>1. NewestUpTo(c, m, 0)
      <4> SUFFICES ASSUME NEW j \in 0..m
                   PROVE  c[j].seq = c[0].seq /\ 0 <= j
        BY DEF NewestUpTo
      <4> QED
        BY <2>6
    <3> QED
      BY <2>5, <2>6, <3>1
  <2>7. CASE m # 0
    <3>1. m - 1 \in Ring /\ m - 1 < m /\ \A j \in 0..m : j \in Ring
      BY <2>4, <2>7, RingFacts DEF Ring
    <3>2. PICK i \in 0..(m - 1) : NewestUpTo(c, m - 1, i)
      BY <2>3, <3>1
    <3>3. i \in Ring /\ i \in 0..m /\ i < m /\ i \in Nat
      BY <2>4, <3>1
    <3>4. \A j \in 0..m : j \in 0..(m - 1) \/ j = m
      BY <2>4
    <3>5. CASE c[m].seq <= c[i].seq
      <4>1. NewestUpTo(c, m, i)
        <5> SUFFICES ASSUME NEW j \in 0..m
                     PROVE  c[j].seq < c[i].seq \/ (c[j].seq = c[i].seq /\ i <= j)
          BY DEF NewestUpTo
        <5>1. CASE j \in 0..(m - 1)
          BY <3>2, <5>1 DEF NewestUpTo
        <5>2. CASE j = m
          BY <1>1, <2>4, <3>3, <3>5, <5>2
        <5> QED
          BY <3>4, <5>1, <5>2
      <4> QED
        BY <2>5, <3>3, <4>1
    <3>6. CASE c[i].seq < c[m].seq
      <4>1. ASSUME NEW j \in 0..(m - 1) PROVE c[j].seq < c[m].seq
        <5>1. c[j].seq <= c[i].seq /\ j \in Ring
          BY <1>1, <2>4, <3>1, <3>2, <3>3, <4>1 DEF NewestUpTo
        <5> QED
          BY <1>1, <2>4, <3>3, <3>6, <5>1
      <4>2. NewestUpTo(c, m, m)
        BY <2>4, <3>4, <4>1 DEF NewestUpTo
      <4> QED
        BY <2>4, <2>5, <4>2
    <3> QED
      BY <1>1, <2>4, <3>3, <3>5, <3>6
  <2> QED
    BY <2>6, <2>7
<1>3. RingSlots - 1 \in Ring /\ RingSlots - 1 \in Nat
  BY RingFacts DEF Ring
<1>4. PICK i \in Ring : NewestUpTo(c, RingSlots - 1, i)
  <2> HIDE DEF S
  <2>1. RingSlots - 1 \notin S
    BY <1>2
  <2> QED
    BY <1>3, <2>1 DEF S, Ring
<1>5. \A j \in Ring : c[j].seq < c[i].seq \/ (c[j].seq = c[i].seq /\ i <= j)
  BY <1>4 DEF NewestUpTo, Ring
<1>6. /\ Newest(c) \in Ring
      /\ \A j \in Ring :
           \/ c[j].seq < c[Newest(c)].seq
           \/ c[j].seq = c[Newest(c)].seq /\ Newest(c) <= j
  BY <1>5, Zenon DEF Newest
<1> QED
  BY <1>1, <1>6

\* A slot that is newer than every other one is the newest.
LEMMA NewestIs ==
  ASSUME NEW c \in [Ring -> Record], NEW i \in Ring,
         \A j \in Ring \ {i} : c[j].seq < c[i].seq
  PROVE  Newest(c) = i
<1>1. Newest(c) \in Ring /\ c[i].seq <= c[Newest(c)].seq
  BY NewestFacts
<1>2. c[i].seq \in Nat /\ c[Newest(c)].seq \in Nat
  BY <1>1 DEF Record
<1> QED
  BY <1>1, <1>2

\* A ring without records restores what the gate starts from.
LEMMA BlankRestores ==
  ASSUME NEW c \in [Ring -> Record], c[Newest(c)] = NoRecord
  PROVE  Restored(c) = Initial
BY DEF Restored, NoRecord

\* What is restored is a record's contents.
LEMMA RestoredType ==
  ASSUME NEW c \in [Ring -> Record]
  PROVE  Restored(c) \in Values
<1>1. Newest(c) \in Ring
  BY NewestFacts
<1> QED
  BY <1>1 DEF Restored, Record
-----------------------------------------------------------------------------
(* A write *)

\* Where the next save goes, and what is there: the slot after the newest record,
\* and a number above every one on the chip that a readable boot relies on.
LEMMA TargetFacts ==
  ASSUME TypeOK, NumbersFollowSlots
  PROVE  /\ Target \in [slot : Ring, seq : Nat]
         /\ Target.slot # cur.slot /\ Target.seq = cur.seq + 1 /\ Target.seq # 0
         /\ Turn(Target.seq, Target.slot)
<1>1. cur \in [slot : Ring \union {-1}, seq : Nat]
      /\ (IF cur.slot = -1 THEN cur.seq = 0 ELSE Turn(cur.seq, cur.slot))
  BY DEF TypeOK, NumbersFollowSlots
<1>2. cur.seq \in Nat
  BY <1>1
<1> QED
  BY <1>1, <1>2, AdvanceFacts DEF Target

\* What a write, or one that tears the page, leaves on the chip.
LEMMA WriteFacts ==
  ASSUME TypeOK, NumbersFollowSlots, BlankIsNoRecord,
         NEW c \in {chip, Torn, Written}
  PROVE  /\ c \in [Ring -> Record]
         /\ \A i \in Ring \ {Target.slot} : c[i] = chip[i]
         /\ \A i \in Ring : c[i].seq # 0 => Turn(c[i].seq, i)
         /\ \A i \in Ring : c[i].seq = 0 => c[i] = NoRecord
         /\ c = Torn => c[Target.slot] = NoRecord
         /\ c = Written => /\ c[Target.slot].seq = Target.seq
                           /\ c[Target.slot].value = value
<1>1. /\ Target.slot \in Ring /\ Target.seq \in Nat /\ Target.seq # 0
      /\ Turn(Target.seq, Target.slot)
  BY TargetFacts
<1>2. chip \in [Ring -> Record] /\ value \in Values
  BY DEF TypeOK
<1> DEFINE new == [seq |-> Target.seq, value |-> value]
<1>3. new \in Record /\ new.seq = Target.seq /\ new.value = value
      /\ NoRecord \in Record /\ NoRecord.seq = 0
  BY <1>1, <1>2, RingAssumption DEF Record, NoRecord
<1>4. Written = [chip EXCEPT ![Target.slot] = new]
      /\ Torn = [chip EXCEPT ![Target.slot] = NoRecord]
  BY DEF Written, Torn
<1> HIDE DEF new
<1>5. PICK e \in {chip[Target.slot], NoRecord, new} :
        /\ c = [chip EXCEPT ![Target.slot] = e]
        /\ c = Torn => e = NoRecord
        /\ c = Written => e = new
  <2>1. CASE c = chip /\ c # Torn /\ c # Written
    BY <1>1, <1>2, <2>1
  <2>2. CASE c = Torn
    <3>1. Torn[Target.slot] = NoRecord /\ Written[Target.slot] = new
      BY <1>1, <1>2, <1>4
    <3>2. NoRecord # new
      BY <1>1, <1>3
    <3> QED
      BY <1>4, <2>2, <3>1, <3>2
  <2>3. CASE c = Written
    <3>1. Torn[Target.slot] = NoRecord /\ Written[Target.slot] = new
      BY <1>1, <1>2, <1>4
    <3>2. NoRecord # new
      BY <1>1, <1>3
    <3> QED
      BY <1>4, <2>3, <3>1, <3>2
  <2> QED
    BY <2>1, <2>2, <2>3
<1>6. e \in Record /\ (e.seq # 0 => Turn(e.seq, Target.slot))
      /\ (e.seq = 0 => e = NoRecord)
  BY <1>1, <1>2, <1>3, <1>5 DEF NumbersFollowSlots, BlankIsNoRecord
<1>7. c \in [Ring -> Record] /\ c[Target.slot] = e
      /\ \A i \in Ring \ {Target.slot} : c[i] = chip[i]
  BY <1>1, <1>2, <1>5, <1>6
<1>8. \A i \in Ring : c[i].seq # 0 => Turn(c[i].seq, i)
  BY <1>6, <1>7 DEF NumbersFollowSlots
<1>9. \A i \in Ring : c[i].seq = 0 => c[i] = NoRecord
  BY <1>6, <1>7 DEF BlankIsNoRecord
<1> QED
  BY <1>3, <1>5, <1>7, <1>8, <1>9

\* On a boot that read the ring, every slot but the newest and the next is behind
\* the cursor.
LEMMA BehindCursor ==
  ASSUME IndInv, ready, NEW i \in Ring, i # Target.slot
  PROVE  /\ chip[i].seq \in Nat
         /\ chip[i].seq <= cur.seq
         /\ i # cur.slot /\ cur.slot # -1 => chip[i].seq < cur.seq
         /\ cur.slot = -1 => chip[i].seq = 0
<1>1. chip[i].seq \in Nat /\ cur.seq \in Nat
  BY DEF IndInv, TypeOK, Record
<1>2. cur.slot = -1 => cur.seq = 0 /\ i # cur.slot
  BY RingFacts DEF IndInv, RingOrdered, CursorIsNewest
<1>3. i = cur.slot => chip[i].seq = cur.seq
  BY RingFacts DEF IndInv, RingOrdered, CursorIsNewest
<1>4. i # cur.slot => chip[i].seq = 0 \/ chip[i].seq < cur.seq
  BY DEF IndInv, RingOrdered, CursorIsNewest
<1>5. cur.slot # -1 => cur.seq # 0
  BY DEF IndInv, RingOrdered, CursorIsNewest
<1> QED
  BY <1>1, <1>2, <1>3, <1>4, <1>5

\* What a boot would restore after a write by a boot that read the ring: the new
\* record, the one it restored before, or the acknowledged one.
LEMMA WriteRestores ==
  ASSUME IndInv, ready, NEW c \in {chip, Torn, Written}
  PROVE  /\ Restored(c) \in {Restored(chip), value, Acknowledged}
         /\ c = Written => Restored(c) = value /\ Newest(c) = Target.slot
<1>1. TypeOK /\ NumbersFollowSlots /\ BlankIsNoRecord
  BY DEF IndInv
<1>2. /\ c \in [Ring -> Record]
      /\ \A i \in Ring \ {Target.slot} : c[i] = chip[i]
      /\ \A i \in Ring : c[i].seq = 0 => c[i] = NoRecord
      /\ c = Torn => c[Target.slot] = NoRecord
      /\ c = Written => /\ c[Target.slot].seq = Target.seq
                        /\ c[Target.slot].value = value
  BY <1>1, WriteFacts
<1>3. Target.slot \in Ring /\ Target.slot # cur.slot /\ Target.seq = cur.seq + 1
  BY <1>1, TargetFacts
<1>4. cur.seq \in Nat /\ cur.slot \in Ring \union {-1}
  BY <1>1 DEF TypeOK
<1>5. \A i \in Ring \ {Target.slot} :
        /\ c[i].seq \in Nat /\ c[i].seq <= cur.seq
        /\ i # cur.slot /\ cur.slot # -1 => c[i].seq < cur.seq
        /\ cur.slot = -1 => c[i].seq = 0
  BY <1>2, BehindCursor
<1>6. CASE c = Written
  <2>1. \A i \in Ring \ {Target.slot} : c[i].seq < c[Target.slot].seq
    BY <1>2, <1>3, <1>4, <1>5, <1>6
  <2>2. Newest(c) = Target.slot
    BY <1>2, <1>3, <2>1, NewestIs
  <2> QED
    BY <1>2, <1>6, <2>2 DEF Restored
<1>7. CASE c = Torn /\ c # Written
  <2>1. c[Target.slot].seq = 0
    BY <1>2, <1>7 DEF NoRecord
  <2>2. CASE cur.slot # -1
    <3>1. cur.slot \in Ring \ {Target.slot}
      BY <1>3, <1>4, <2>2
    <3>2. c[cur.slot] = chip[cur.slot] /\ c[cur.slot].seq = cur.seq /\ cur.seq # 0
      BY <1>2, <2>2, <3>1 DEF IndInv, RingOrdered, CursorIsNewest
    <3>3. \A i \in Ring \ {cur.slot} : c[i].seq < c[cur.slot].seq
      BY <1>4, <1>5, <2>1, <2>2, <3>2
    <3>4. Newest(c) = cur.slot
      BY <1>2, <3>1, <3>3, NewestIs
    <3> QED
      BY <1>7, <2>2, <3>2, <3>4 DEF Restored, Acknowledged
  <2>3. CASE cur.slot = -1
    <3>1. Newest(c) \in Ring
      BY <1>2, NewestFacts
    <3>2. c[Newest(c)] = NoRecord
      BY <1>2, <1>5, <2>1, <2>3, <3>1
    <3> QED
      BY <1>2, <1>7, <2>3, <3>2, BlankRestores DEF Acknowledged
  <2> QED
    BY <2>2, <2>3
<1> QED
  BY <1>6, <1>7
-----------------------------------------------------------------------------
(* The invariant *)

\* Slots that hold their own turns hold different numbers.
LEMMA TurnsDiffer ==
  ASSUME NumbersFollowSlots
  PROVE  NumbersDiffer
BY OneSlotPerNumber DEF NumbersFollowSlots, NumbersDiffer

\* A factory-fresh chip.
LEMMA InitInv == Init => IndInv
<1> SUFFICES ASSUME Init PROVE IndInv
  OBVIOUS
<1>1. NoRecord \in Record /\ NoRecord.seq = 0
  BY RingAssumption DEF NoRecord, Record
<1>2. TypeOK
  BY <1>1, RingAssumption DEF Init, TypeOK, NoCursor
<1>3. NumbersFollowSlots /\ BlankIsNoRecord
  BY <1>1 DEF Init, NumbersFollowSlots, BlankIsNoRecord, NoCursor
<1>4. Target.slot \in Ring /\ Target.slot # cur.slot
  BY <1>2, <1>3, TargetFacts
<1>5. CursorIsNewest
  BY <1>1, <1>4, RingFacts DEF Init, CursorIsNewest, NoCursor
<1> QED
  BY <1>2, <1>3, <1>5, TurnsDiffer DEF IndInv, RingOrdered

\* PersistSave: the record written is the newest, one ahead of all others.
LEMMA SaveInv == IndInv /\ PersistSave => IndInv'
<1> SUFFICES ASSUME IndInv, PersistSave PROVE IndInv'
  OBVIOUS
<1>1. TypeOK /\ NumbersFollowSlots /\ BlankIsNoRecord
  BY DEF IndInv
<1>2. /\ chip' = Written /\ cur' = Target /\ pending' = FALSE
      /\ ready' = ready /\ value' = value
  BY DEF PersistSave
<1>3. /\ Target \in [slot : Ring, seq : Nat]
      /\ Target.slot # cur.slot /\ Target.seq = cur.seq + 1 /\ Target.seq # 0
      /\ Turn(Target.seq, Target.slot) /\ cur.seq \in Nat
  BY <1>1, TargetFacts DEF TypeOK
<1>4. /\ chip' \in [Ring -> Record]
      /\ \A i \in Ring \ {Target.slot} : chip'[i] = chip[i]
      /\ \A i \in Ring : chip'[i].seq # 0 => Turn(chip'[i].seq, i)
      /\ \A i \in Ring : chip'[i].seq = 0 => chip'[i] = NoRecord
      /\ chip'[Target.slot].seq = Target.seq
  BY <1>1, <1>2, WriteFacts
<1>5. cur'.slot \in Ring /\ cur'.slot # -1 /\ cur'.seq = cur.seq + 1
      /\ cur' \in [slot : Ring \union {-1}, seq : Nat]
  BY <1>2, <1>3, RingFacts
<1>6. TypeOK'
  BY <1>1, <1>2, <1>4, <1>5 DEF TypeOK
<1>7. NumbersFollowSlots' /\ BlankIsNoRecord'
  BY <1>2, <1>3, <1>4, <1>5 DEF NumbersFollowSlots, BlankIsNoRecord
<1>8. NumbersDiffer'
  BY <1>4, OneSlotPerNumber DEF NumbersDiffer
<1>9. Target'.slot \in Ring /\ Target'.slot # cur'.slot
  BY <1>5, <1>7, AdvanceFacts DEF Target, NumbersFollowSlots
<1>10. CursorIsNewest'
  <2> SUFFICES ASSUME ready
               PROVE  /\ chip'[cur'.slot].seq = cur'.seq /\ cur'.seq # 0
                      /\ \A i \in Ring \ {cur'.slot, Target'.slot} :
                           chip'[i].seq = 0 \/ chip'[i].seq < cur'.seq
                      /\ chip'[Target'.slot].seq <= cur'.seq + 1
    BY <1>2, <1>5, <1>9 DEF CursorIsNewest
  <2>1. ASSUME NEW i \in Ring, i # cur'.slot
        PROVE  chip'[i].seq \in Nat /\ chip'[i].seq <= cur.seq
    <3>1. i # Target.slot /\ chip'[i] = chip[i]
      BY <1>2, <1>4, <2>1
    <3> QED
      BY <3>1, BehindCursor
  <2>2. chip'[cur'.slot].seq = cur'.seq /\ cur'.seq # 0
    BY <1>2, <1>3, <1>4
  <2> QED
    BY <1>3, <1>5, <1>9, <2>1, <2>2
<1> QED
  BY <1>6, <1>7, <1>8, <1>10 DEF IndInv, RingOrdered

\* PersistSaveFails: whatever the page holds then, it is the one the next save
\* goes to.
LEMMA SaveFailsInv == IndInv /\ PersistSaveFails => IndInv'
<1> SUFFICES ASSUME IndInv, PersistSaveFails PROVE IndInv'
  OBVIOUS
<1>1. TypeOK /\ NumbersFollowSlots /\ BlankIsNoRecord
  BY DEF IndInv
<1>2. /\ chip' \in {chip, Torn, Written} /\ pending' = FALSE
      /\ cur' = cur /\ ready' = ready /\ value' = value
  BY DEF PersistSaveFails
<1>3. /\ Target.slot \in Ring /\ Target.slot # cur.slot
      /\ Target.seq = cur.seq + 1 /\ cur.seq \in Nat
  BY <1>1, TargetFacts DEF TypeOK
<1>4. /\ chip' \in [Ring -> Record]
      /\ \A i \in Ring \ {Target.slot} : chip'[i] = chip[i]
      /\ \A i \in Ring : chip'[i].seq # 0 => Turn(chip'[i].seq, i)
      /\ \A i \in Ring : chip'[i].seq = 0 => chip'[i] = NoRecord
      /\ chip' = Torn => chip'[Target.slot] = NoRecord
      /\ chip' = Written => chip'[Target.slot].seq = Target.seq
  BY <1>1, <1>2, WriteFacts
<1>5. TypeOK'
  BY <1>1, <1>2, <1>4 DEF TypeOK
<1>6. NumbersFollowSlots' /\ BlankIsNoRecord'
  BY <1>1, <1>2, <1>4 DEF NumbersFollowSlots, BlankIsNoRecord
<1>7. NumbersDiffer'
  BY <1>4, OneSlotPerNumber DEF NumbersDiffer
<1>8. Target' = Target
  BY <1>2 DEF Target
<1>9. ready => chip'[Target.slot].seq <= cur.seq + 1
  <2>1. ready => chip[Target.slot].seq <= cur.seq + 1
    BY DEF IndInv, RingOrdered, CursorIsNewest
  <2> QED
    BY <1>2, <1>3, <1>4, <2>1 DEF NoRecord
<1>10. ready /\ cur.slot # -1 => chip'[cur.slot] = chip[cur.slot]
  BY <1>1, <1>3, <1>4 DEF TypeOK
<1>11. CursorIsNewest'
  BY <1>2, <1>3, <1>4, <1>8, <1>9, <1>10 DEF IndInv, RingOrdered, CursorIsNewest
<1> QED
  BY <1>5, <1>6, <1>7, <1>11 DEF IndInv, RingOrdered

\* Reboot: pr_find_latest finds the newest record, or no record at all.
LEMMA RebootInv ==
  ASSUME IndInv, NEW ok \in BOOLEAN, Reboot(ok)
  PROVE  IndInv'
<1>1. TypeOK /\ NumbersFollowSlots /\ BlankIsNoRecord
  BY DEF IndInv
<1>2. /\ chip' \in {chip, Torn, Written} /\ ready' = ok
      /\ cur' = (IF ok THEN CursorOf(chip') ELSE NoCursor)
      /\ value' = (IF ok THEN Restored(chip') ELSE Initial)
      /\ pending' = ok
  BY DEF Reboot
<1>3. /\ chip' \in [Ring -> Record]
      /\ \A i \in Ring : chip'[i].seq # 0 => Turn(chip'[i].seq, i)
      /\ \A i \in Ring : chip'[i].seq = 0 => chip'[i] = NoRecord
  BY <1>1, <1>2, WriteFacts
<1> DEFINE top == Newest(chip')
<1>4. /\ top \in Ring
      /\ \A j \in Ring : chip'[j].seq \in Nat /\ chip'[j].seq <= chip'[top].seq
  BY <1>3, NewestFacts
<1>5. value' \in Values
  BY <1>2, <1>3, RestoredType, RingAssumption
<1>6. \/ cur' = NoCursor /\ (ok => chip'[top].seq = 0)
      \/ cur' = [slot |-> top, seq |-> chip'[top].seq] /\ chip'[top].seq # 0
  BY <1>2 DEF CursorOf
<1> HIDE DEF top
<1>7. top # -1 /\ chip'[top].seq \in Nat
  BY <1>4, RingFacts
<1>8. cur' \in [slot : Ring \union {-1}, seq : Nat]
  BY <1>4, <1>6, <1>7 DEF NoCursor
<1>9. TypeOK'
  BY <1>2, <1>3, <1>5, <1>8 DEF TypeOK
<1>10. NumbersFollowSlots' /\ BlankIsNoRecord'
  BY <1>3, <1>4, <1>6, <1>7 DEF NumbersFollowSlots, BlankIsNoRecord, NoCursor
<1>11. NumbersDiffer'
  BY <1>3, OneSlotPerNumber DEF NumbersDiffer
<1>12. Target'.slot \in Ring /\ Target'.slot # cur'.slot
  BY <1>8, <1>10, AdvanceFacts DEF Target, NumbersFollowSlots
<1>13. CursorIsNewest'
  <2> SUFFICES ASSUME ok
               PROVE  /\ cur'.slot = -1 => cur'.seq = 0
                      /\ cur'.slot # -1 =>
                           chip'[cur'.slot].seq = cur'.seq /\ cur'.seq # 0
                      /\ \A i \in Ring \ {cur'.slot, Target'.slot} :
                           chip'[i].seq = 0 \/ chip'[i].seq < cur'.seq
                      /\ chip'[Target'.slot].seq <= cur'.seq + 1
    BY <1>2, <1>12 DEF CursorIsNewest
  <2>1. CASE cur' = NoCursor
    BY <1>4, <1>6, <1>7, <1>12, <2>1 DEF NoCursor
  <2>2. CASE cur' # NoCursor
    <3>1. cur'.slot = top /\ cur'.seq = chip'[top].seq /\ chip'[top].seq # 0
      BY <1>6, <2>2
    <3>2. \A i \in Ring : i # top => chip'[i].seq # chip'[top].seq
      BY <1>4, <1>11, <3>1 DEF NumbersDiffer
    <3> QED
      BY <1>4, <1>7, <1>12, <3>1, <3>2
  <2> QED
    BY <2>1, <2>2
<1> QED
  BY <1>9, <1>10, <1>11, <1>13 DEF IndInv, RingOrdered

\* Every step.
LEMMA NextInv == IndInv /\ [Next]_vars => IndInv'
<1> SUFFICES ASSUME IndInv, [Next]_vars PROVE IndInv'
  OBVIOUS
<1>1. ASSUME NEW v \in Values, Change(v) PROVE IndInv'
  BY <1>1
     DEF Change, IndInv, TypeOK, NumbersFollowSlots, BlankIsNoRecord, RingOrdered,
         CursorIsNewest, NumbersDiffer, Target
<1>2. ASSUME UNCHANGED vars PROVE IndInv'
  BY <1>2
     DEF vars, IndInv, TypeOK, NumbersFollowSlots, BlankIsNoRecord, RingOrdered,
         CursorIsNewest, NumbersDiffer, Target
<1> QED
  BY <1>1, <1>2, SaveInv, SaveFailsInv, RebootInv DEF Next

-----------------------------------------------------------------------------
(* The ring implements AttemptStore *)

\* A boot that read the ring acknowledges what it restores.
LEMMA BootAcknowledges ==
  ASSUME IndInv, NEW ok \in BOOLEAN, Reboot(ok)
  PROVE  Acknowledged' = Restored(chip')
<1>1. TypeOK /\ NumbersFollowSlots /\ BlankIsNoRecord
  BY DEF IndInv
<1>2. /\ chip' \in {chip, Torn, Written} /\ ready' = ok
      /\ cur' = (IF ok THEN CursorOf(chip') ELSE NoCursor)
  BY DEF Reboot
<1>3. /\ chip' \in [Ring -> Record]
      /\ \A i \in Ring : chip'[i].seq = 0 => chip'[i] = NoRecord
  BY <1>1, <1>2, WriteFacts
<1>4. Newest(chip') \in Ring
  BY <1>3, NewestFacts
<1>5. CASE ok /\ chip'[Newest(chip')].seq = 0
  <2>1. cur'.slot = -1
    BY <1>2, <1>5 DEF CursorOf, NoCursor
  <2>2. Restored(chip') = Initial
    BY <1>3, <1>4, <1>5, BlankRestores
  <2> QED
    BY <1>2, <1>5, <2>1, <2>2 DEF Acknowledged
<1>6. CASE ok /\ chip'[Newest(chip')].seq # 0
  <2>1. cur'.slot = Newest(chip')
    BY <1>2, <1>6 DEF CursorOf
  <2>2. cur'.slot # -1
    BY <1>4, <2>1, RingFacts
  <2> QED
    BY <1>2, <1>6, <2>1, <2>2 DEF Acknowledged, Restored
<1>7. CASE ~ok
  BY <1>2, <1>7 DEF Acknowledged
<1> QED
  BY <1>5, <1>6, <1>7

\* Every step of the ring is a step of the store, or changes nothing in it.
LEMMA StepRefines == IndInv /\ [Next]_vars => [Store!Next]_(Store!vars)
<1> SUFFICES ASSUME IndInv, [Next]_vars PROVE [Store!Next]_(Store!vars)
  OBVIOUS
<1>1. TypeOK /\ NumbersFollowSlots /\ BlankIsNoRecord /\ IndInv'
  BY NextInv DEF IndInv
<1>2. chip' \in [Ring -> Record]
  BY <1>1 DEF IndInv, TypeOK
<1>3. Restored(chip') \in Values
  BY <1>2, RestoredType
<1>4. ASSUME NEW v \in Values, Change(v) PROVE Store!Change
  BY <1>4 DEF Change, Store!Change, Acknowledged, Restored
<1>5. ASSUME PersistSave PROVE Store!Write \/ Store!WriteBlind
  <2>1. /\ chip' = Written /\ cur' = Target /\ ready' = ready /\ value' = value
    BY <1>5 DEF PersistSave
  <2>2. CASE ready
    <3>1. Restored(chip') = value /\ Newest(chip') = Target.slot
      BY <2>1, <2>2, WriteRestores
    <3>2. cur'.slot # -1
      BY <1>1, <2>1, TargetFacts, RingFacts
    <3>3. Acknowledged' = value
      BY <2>1, <2>2, <3>1, <3>2 DEF Acknowledged, Restored
    <3> QED
      BY <2>1, <2>2, <3>1, <3>3 DEF Store!Write
  <2>3. CASE ~ready
    BY <1>3, <2>1, <2>3 DEF Store!WriteBlind, Acknowledged
  <2> QED
    BY <2>2, <2>3
<1>6. ASSUME PersistSaveFails PROVE Store!WriteFails \/ Store!WriteBlind
  <2>1. /\ chip' \in {chip, Torn, Written} /\ cur' = cur
        /\ ready' = ready /\ value' = value
    BY <1>6 DEF PersistSaveFails
  <2>2. CASE ready
    <3>1. Restored(chip') \in {Restored(chip), value, Acknowledged}
      BY <2>1, <2>2, WriteRestores
    <3>2. cur.slot # -1 => chip'[cur.slot] = chip[cur.slot]
      BY <1>1, <2>1, TargetFacts, WriteFacts DEF TypeOK
    <3>3. Acknowledged' = Acknowledged
      BY <2>1, <2>2, <3>2 DEF Acknowledged
    <3> QED
      BY <2>1, <2>2, <3>1, <3>3 DEF Store!WriteFails
  <2>3. CASE ~ready
    BY <1>3, <2>1, <2>3 DEF Store!WriteBlind, Acknowledged
  <2> QED
    BY <2>2, <2>3
<1>7. ASSUME NEW ok \in BOOLEAN, Reboot(ok) PROVE Store!Restart
  <2>1. /\ chip' \in {chip, Torn, Written} /\ ready' = ok
        /\ value' = (IF ok THEN Restored(chip') ELSE Initial)
    BY <1>7 DEF Reboot
  <2>2. Acknowledged' = Restored(chip')
    BY <1>7, BootAcknowledges
  <2>3. ready => Restored(chip') \in {Restored(chip), value, Acknowledged}
    BY <2>1, WriteRestores
  <2> QED
    BY <1>3, <2>1, <2>2, <2>3 DEF Store!Restart
<1>8. ASSUME UNCHANGED vars PROVE UNCHANGED Store!vars
  BY <1>8 DEF vars, Store!vars, Acknowledged, Restored
<1> QED
  BY <1>4, <1>5, <1>6, <1>7, <1>8 DEF Next, Store!Next

\* A factory-fresh ring is a fresh store.
LEMMA InitRefines == Init => Store!Init
<1> SUFFICES ASSUME Init PROVE Store!Init
  OBVIOUS
<1>1. chip \in [Ring -> Record]
  BY InitInv DEF IndInv, TypeOK
<1>2. Newest(chip) \in Ring
  BY <1>1, NewestFacts
<1>3. Restored(chip) = Initial
  BY <1>1, <1>2, BlankRestores DEF Init
<1> QED
  BY <1>3 DEF Init, NoCursor, Acknowledged, Store!Init

-----------------------------------------------------------------------------
(* The theorems *)

\* The inductive invariant.
THEOREM Invariance == Spec => []IndInv
BY InitInv, NextInv, PTL DEF Spec

\* Every variable keeps its type: the cursor never leaves the ring.
THEOREM TypeCorrect == Spec => []TypeOK
<1>1. IndInv => TypeOK
  BY DEF IndInv
<1> QED
  BY <1>1, Invariance, PTL

\* The order of the sequence numbers is the order of the saves, through torn pages,
\* lost writes, any number of rounds and boots that wrote without having read the
\* ring (pr_advance, pr_find_latest, persist_save).
THEOREM RingStaysOrdered == Spec => []RingOrdered
<1>1. IndInv => RingOrdered
  BY DEF IndInv
<1> QED
  BY <1>1, Invariance, PTL

\* The ring keeps the promise of AttemptStore, on which the bound on wrong codes
\* rests: an acknowledged record lasts, and one that failed or was cut off leaves
\* the old, the new or the last acknowledged one.
THEOREM RingKeepsAttempts == Spec => KeepsAttempts
BY InitRefines, StepRefines, Invariance, PTL DEF Spec, KeepsAttempts, Store!Spec

-----------------------------------------------------------------------------
(* The code slots *)

\* A slot's two buffers.
Image == [Buffers -> Buffer]

\* The code slots of the EEPROM.
Chip == [SlotIndex -> Image]

\* No buffer holds a dev code.
NoDevCodes(left) ==
  \A i \in SlotIndex : \A b \in Buffers : ~left[i][b].code.transient

\* While a command is saving there is a slot left to save, and the slots left
\* to save hold no dev codes: only `code add` makes these, and the console is
\* one task.
SavesLeft ==
  job.at # "idle" =>
    /\ \E i \in SlotIndex : job.todo[i] > 0
    /\ \A i \in SlotIndex : job.todo[i] > 0 => ~access.slots[i].transient

\* An erase keeps the mutex, and nothing takes a slot it has cleared.
ErasesInOrder ==
  job.cmd = "erase" =>
    /\ job.at \in {"page one", "page two"}
    /\ \A i \in SlotIndex : job.todo[i] > 0 => ~access.slots[i].occupied

ErasedBuffer(buffer) == buffer.ok /\ ~buffer.code.occupied

\* What an erase has reached so far, unless a save failed.
ErasedSoFar ==
  job.cmd = "erase" /\ ~job.failed =>
    \A i \in SlotIndex : ~access.slots[i].occupied =>
      /\ job.todo[i] = 1 => ErasedBuffer(codes[i][NewestBuffer(codes[i])])
      /\ job.todo[i] = 0 => \A b \in Buffers : ErasedBuffer(codes[i][b])

\* The slot that `code persist` or `code del` has still to save holds what its
\* answer will name, if no other task has changed it since.
JobNames ==
  job.at # "idle" /\ job.cmd \in {"persist", "del"} /\ ~job.overtaken =>
    \A i \in SlotIndex : job.todo[i] > 0 => access.slots[i] = job.code

CodesInv == /\ CodesTypeOK /\ NoDevCodes(codes) /\ SavesLeft /\ ErasesInOrder
            /\ ErasedSoFar /\ JobNames

-----------------------------------------------------------------------------
(* A slot's two buffers *)

\* A zeroed slot.
LEMMA EmptySlotFacts ==
  EmptySlot \in Slot /\ ~EmptySlot.occupied /\ ~EmptySlot.transient
BY DEF EmptySlot, Slot

\* A buffer that does not decode.
LEMMA InvalidFacts == Invalid \in Buffer /\ ~Invalid.ok /\ ~Invalid.code.transient
BY CodeStoreAssumption, EmptySlotFacts DEF Invalid, Buffer

\* Of the two buffers, pc_slot_write_half names the one that is not the newest.
LEMMA HalfIsOther ==
  ASSUME NEW image \in Image
  PROVE  /\ NewestBuffer(image) \in Buffers /\ WriteHalf(image) \in Buffers
         /\ WriteHalf(image) = 1 - NewestBuffer(image)
         /\ WriteHalf(image) # NewestBuffer(image)
         /\ \A b \in Buffers : b = WriteHalf(image) \/ b = NewestBuffer(image)
BY DEF NewestBuffer, WriteHalf, Buffers

\* Which of the two buffers is the newest, case by case.
LEMMA NewestCases ==
  ASSUME NEW image \in Image
  PROVE  /\ ~image[0].ok => NewestBuffer(image) = 1
         /\ image[0].ok /\ ~image[1].ok => NewestBuffer(image) = 0
         /\ NewestBuffer(image) = 0 => image[0].ok
         /\ image[0].ok /\ image[1].ok =>
              NewestBuffer(image) = IF FirstIsNewer(image) THEN 0 ELSE 1
BY DEF NewestBuffer

\* Tearing the other buffer leaves the newest one as it is, and the newest.
LEMMA TearingKeeps ==
  ASSUME NEW image \in Image
  PROVE  LET torn == [image EXCEPT ![WriteHalf(image)] = Invalid]
         IN  /\ torn \in Image
             /\ NewestBuffer(torn) = NewestBuffer(image)
             /\ torn[NewestBuffer(torn)] = image[NewestBuffer(image)]
             /\ \A b \in Buffers : torn[b] \in {image[b], Invalid}
<1> DEFINE torn == [image EXCEPT ![WriteHalf(image)] = Invalid]
           n == NewestBuffer(image)
           w == WriteHalf(image)
<1>1. n \in Buffers /\ w \in Buffers /\ w = 1 - n /\ n # w
  BY HalfIsOther
<1>2. /\ torn \in Image /\ torn[w] = Invalid /\ torn[n] = image[n]
      /\ \A b \in Buffers : torn[b] \in {image[b], Invalid}
  <2> HIDE DEF n, w
  <2>1. torn = [image EXCEPT ![w] = Invalid]
    BY DEF w
  <2> HIDE DEF torn
  <2> QED
    BY <1>1, <2>1, InvalidFacts DEF Image
<1> HIDE DEF torn
<1>3. NewestBuffer(torn) = n
  <2>1. CASE n = 0
    <3>1. image[0].ok /\ torn[0].ok /\ ~torn[1].ok
      BY <1>1, <1>2, <2>1, NewestCases, InvalidFacts
    <3> QED
      BY <1>2, <2>1, <3>1, NewestCases
  <2>2. CASE n = 1
    <3>1. ~torn[0].ok
      BY <1>1, <1>2, <2>2, InvalidFacts
    <3> QED
      BY <1>2, <2>2, <3>1, NewestCases
  <2> QED
    BY <1>1, <2>1, <2>2 DEF Buffers
<1> QED
  BY <1>2, <1>3 DEF torn

\* A generation and the next one.
LEMMA NextIsNewer ==
  ASSUME NEW g \in 0..(GenWrap - 1), NEW h, h = (g + 1) % GenWrap
  PROVE  /\ h \in 0..(GenWrap - 1)
         /\ (h - g) % GenWrap = 1
         /\ (g - h) % GenWrap = GenWrap - 1
BY CodeStoreAssumption

\* A record written with the next generation is the newest, whatever the two
\* generations were; the one before it stays in the other buffer.
LEMMA WritingReplaces ==
  ASSUME NEW image \in Image, NEW code \in Slot
  PROVE  LET half    == WriteHalf(image)
             written == [image EXCEPT ![half] =
                          [ok |-> TRUE, gen |-> NextGeneration(image), code |-> code]]
         IN  /\ written \in Image
             /\ NewestBuffer(written) = half
             /\ written[half].ok /\ written[half].code = code
             /\ \A b \in Buffers \ {half} :
                  written[b] = image[b] /\ b = NewestBuffer(image)
<1> DEFINE n == NewestBuffer(image)
           half == WriteHalf(image)
           g == image[n].gen
           h == NextGeneration(image)
           new == [ok |-> TRUE, gen |-> h, code |-> code]
           written == [image EXCEPT ![half] = new]
<1>1. /\ n \in Buffers /\ half \in Buffers /\ half = 1 - n /\ n # half
      /\ \A b \in Buffers \ {half} : b = n
  BY HalfIsOther
<1>2. g \in 0..(GenWrap - 1) /\ image[n] \in Buffer
  BY <1>1 DEF Image, Buffer
<1>3. /\ h \in 0..(GenWrap - 1)
      /\ (h - g) % GenWrap = 1
      /\ (g - h) % GenWrap = GenWrap - 1
  <2>1. h = (g + 1) % GenWrap
    BY DEF NextGeneration
  <2> HIDE DEF g, h
  <2> QED
    BY <1>2, <2>1, NextIsNewer
<1>4. new \in Buffer /\ new.ok /\ new.gen = h /\ new.code = code
  <2> HIDE DEF h
  <2> QED
    BY <1>3 DEF Buffer
<1> HIDE DEF new
<1>5. /\ written \in Image /\ written[half] = new /\ written[n] = image[n]
  <2> HIDE DEF n, half
  <2> QED
    BY <1>1, <1>4 DEF Image
<1>6. NewestBuffer(written) = half
  <2> HIDE DEF written, half, h
  <2>1. CASE n = 0
    <3>1. image[0].ok /\ half = 1 /\ written[0] = image[0] /\ written[1] = new
      BY <1>1, <1>5, <2>1, NewestCases
    <3>2. (written[0].gen - written[1].gen) % GenWrap = GenWrap - 1
      BY <1>3, <1>4, <2>1, <3>1
    <3>3. ~FirstIsNewer(written)
      BY <3>2, CodeStoreAssumption DEF FirstIsNewer
    <3> QED
      BY <1>4, <1>5, <3>1, <3>3, NewestCases
  <2>2. CASE n = 1
    <3>1. half = 0 /\ written[1] = image[1] /\ written[0] = new
      BY <1>1, <1>5, <2>2
    <3>2. (written[0].gen - written[1].gen) % GenWrap = 1
      BY <1>3, <1>4, <2>2, <3>1
    <3>3. FirstIsNewer(written)
      BY <3>2, CodeStoreAssumption DEF FirstIsNewer
    <3> QED
      BY <1>4, <1>5, <3>1, <3>3, NewestCases
  <2> QED
    BY <1>1, <2>1, <2>2 DEF Buffers
<1>7. \A b \in Buffers \ {half} : written[b] = image[b] /\ b = n
  BY <1>1, <1>5
<1> HIDE DEF half, n, written
<1>8. written[half].ok /\ written[half].code = code
  BY <1>4, <1>5
<1> QED
  BY <1>5, <1>6, <1>7, <1>8 DEF written, new, half, n, h

\* What a save encodes is a slot, and no dev code.
LEMMA ToStoreFacts ==
  ASSUME access \in Context, NEW i \in SlotIndex
  PROVE  /\ ToStore(i) \in Slot /\ ~ToStore(i).transient
         /\ ~access.slots[i].transient => ToStore(i) = access.slots[i]
         /\ ~access.slots[i].occupied => ~ToStore(i).occupied
BY EmptySlotFacts DEF ToStore, Context

\* The first page of a save leaves every slot as a boot would find it.
LEMMA TornCodeFacts ==
  ASSUME codes \in Chip, NoDevCodes(codes), NEW i \in SlotIndex
  PROVE  /\ TornCode(i) \in Chip /\ NoDevCodes(TornCode(i))
         /\ \A j \in SlotIndex :
              /\ j # i => TornCode(i)[j] = codes[j]
              /\ NewestBuffer(TornCode(i)[j]) = NewestBuffer(codes[j])
              /\ TornCode(i)[j][NewestBuffer(TornCode(i)[j])]
                   = codes[j][NewestBuffer(codes[j])]
              /\ SlotRead(TornCode(i)[j]) = SlotRead(codes[j])
<1> DEFINE torn == [codes[i] EXCEPT ![WriteHalf(codes[i])] = Invalid]
<1>1. codes[i] \in Image
  BY DEF Chip
<1>2. /\ torn \in Image
      /\ NewestBuffer(torn) = NewestBuffer(codes[i])
      /\ torn[NewestBuffer(torn)] = codes[i][NewestBuffer(codes[i])]
      /\ \A b \in Buffers : torn[b] \in {codes[i][b], Invalid}
  BY <1>1, TearingKeeps
<1>3. TornCode(i) = [codes EXCEPT ![i] = torn]
  BY DEF TornCode
<1> HIDE DEF torn
<1>4. /\ TornCode(i) \in Chip /\ TornCode(i)[i] = torn
      /\ \A j \in SlotIndex : j # i => TornCode(i)[j] = codes[j]
  BY <1>2, <1>3 DEF Chip
<1>5. NoDevCodes(TornCode(i))
  BY <1>2, <1>4, InvalidFacts DEF NoDevCodes
<1>6. ASSUME NEW j \in SlotIndex
      PROVE  /\ NewestBuffer(TornCode(i)[j]) = NewestBuffer(codes[j])
             /\ TornCode(i)[j][NewestBuffer(TornCode(i)[j])]
                  = codes[j][NewestBuffer(codes[j])]
  <2>1. CASE j = i
    BY <1>2, <1>4, <2>1
  <2>2. CASE j # i
    BY <1>4, <2>2
  <2> QED
    BY <2>1, <2>2
<1> QED
  BY <1>4, <1>5, <1>6 DEF SlotRead

\* The second page makes the slot's newest record what the table holds, and
\* leaves the record before it in the other buffer.
LEMMA WrittenCodeFacts ==
  ASSUME codes \in Chip, NoDevCodes(codes), access \in Context, NEW i \in SlotIndex
  PROVE  /\ WrittenCode(i) \in Chip /\ NoDevCodes(WrittenCode(i))
         /\ \A j \in SlotIndex : j # i => WrittenCode(i)[j] = codes[j]
         /\ SlotRead(WrittenCode(i)[i]) = ToStore(i)
         /\ LET newest == NewestBuffer(WrittenCode(i)[i])
            IN  /\ newest \in Buffers
                /\ WrittenCode(i)[i][newest].ok
                /\ WrittenCode(i)[i][newest].code = ToStore(i)
                /\ \A b \in Buffers \ {newest} :
                     WrittenCode(i)[i][b] = codes[i][NewestBuffer(codes[i])]
<1> DEFINE half == WriteHalf(codes[i])
           new == [ok |-> TRUE, gen |-> NextGeneration(codes[i]), code |-> ToStore(i)]
           written == [codes[i] EXCEPT ![half] = new]
<1>1. codes[i] \in Image /\ ToStore(i) \in Slot /\ ~ToStore(i).transient
  BY ToStoreFacts DEF Chip
<1>2. /\ written \in Image
      /\ NewestBuffer(written) = half
      /\ written[half].ok /\ written[half].code = ToStore(i)
      /\ \A b \in Buffers \ {half} :
           written[b] = codes[i][b] /\ b = NewestBuffer(codes[i])
  BY <1>1, WritingReplaces
<1>3. WrittenCode(i) = [codes EXCEPT ![i] = written]
  BY DEF WrittenCode
<1>4. half \in Buffers
  BY <1>1, HalfIsOther
<1> HIDE DEF written, half
<1>5. /\ WrittenCode(i) \in Chip /\ WrittenCode(i)[i] = written
      /\ \A j \in SlotIndex : j # i => WrittenCode(i)[j] = codes[j]
  BY <1>2, <1>3 DEF Chip
<1>6. NoDevCodes(WrittenCode(i))
  <2>1. \A b \in Buffers : ~written[b].code.transient
    BY <1>1, <1>2 DEF NoDevCodes
  <2> QED
    BY <1>5, <2>1 DEF NoDevCodes
<1>7. SlotRead(WrittenCode(i)[i]) = ToStore(i)
  BY <1>2, <1>5 DEF SlotRead
<1> QED
  BY <1>2, <1>4, <1>5, <1>6, <1>7

-----------------------------------------------------------------------------
(* The command that saves *)

\* The values of job.
Jobs == [cmd : {"none", "persist", "del", "erase"}, failed : BOOLEAN,
         at : {"idle", "unlocked", "page one", "page two"},
         todo : [SlotIndex -> 0..2], code : Slot, overtaken : BOOLEAN]

\* CodesTypeOK, in the words of the lemmas.
LEMMA CodesTypes ==
  CodesTypeOK <=> /\ access \in Context /\ codes \in Chip
                  /\ job \in Jobs /\ loaded \subseteq SlotIndex
BY DEF CodesTypeOK, Chip, Image, Jobs

\* ... and of the state after a step.
LEMMA CodesTypesNext ==
  CodesTypeOK' <=> /\ access' \in Context /\ codes' \in Chip
                   /\ job' \in Jobs /\ loaded' \subseteq SlotIndex
BY DEF CodesTypeOK, Chip, Image, Jobs

\* Nothing to save.
LEMMA NoSavesFacts ==
  /\ NoSaves \in [SlotIndex -> 0..2] /\ \A i \in SlotIndex : NoSaves[i] = 0
  /\ NoJob \in Jobs /\ NoJob.at = "idle" /\ NoJob.cmd = "none" /\ NoJob.todo = NoSaves
BY EmptySlotFacts DEF NoSaves, NoJob, Jobs

\* How often a slot is still to be saved.
LEMMA SaveCounts ==
  \A n \in 0..2 : /\ n = 0 <=> ~(n > 0)
                  /\ n = 2 => n # 0 /\ n # 1
                  /\ n - 1 = 0 => n = 1
OBVIOUS

\* A command that has not saved everything has a slot to save.
LEMMA SomeSavesLeft ==
  ASSUME NEW saves \in [SlotIndex -> 0..2], saves # NoSaves
  PROVE  \E i \in SlotIndex : saves[i] > 0
<1> SUFFICES ASSUME \A i \in SlotIndex : ~(saves[i] > 0) PROVE FALSE
  OBVIOUS
<1>1. \A i \in SlotIndex : saves[i] = 0
  OBVIOUS
<1> QED
  BY <1>1 DEF NoSaves

\* The slot being saved: it has a save left, and holds no dev code.
LEMMA CurrentFacts ==
  ASSUME SavesLeft, job.at # "idle"
  PROVE  /\ Current \in SlotIndex /\ job.todo[Current] > 0
         /\ ~access.slots[Current].transient
<1> DEFINE S == {i \in SlotIndex : job.todo[i] > 0}
<1>1. S \subseteq SlotIndex /\ S # {}
  BY DEF SavesLeft
<1>2. FirstOf(S) \in S
  BY <1>1, FirstIsMember
<1>3. Current \in S
  BY <1>2 DEF Current
<1> QED
  BY <1>3 DEF SavesLeft

\* What is left after a save of the current slot.
LEMMA LeftFacts ==
  ASSUME job \in Jobs, Current \in SlotIndex, job.todo[Current] > 0,
         NEW ok \in BOOLEAN
  PROVE  /\ Left(ok) \in [SlotIndex -> 0..2]
         /\ \A i \in SlotIndex :
              /\ i # Current => Left(ok)[i] = job.todo[i]
              /\ Left(ok)[i] <= job.todo[i]
         /\ Left(TRUE)[Current] = job.todo[Current] - 1
<1>1. job.todo \in [SlotIndex -> 0..2]
  BY DEF Jobs
<1>2. job.todo[Current] - 1 \in 0..2 /\ job.todo[Current] - 1 <= job.todo[Current]
  BY <1>1
<1>3. /\ Left(TRUE) = [job.todo EXCEPT ![Current] = job.todo[Current] - 1]
      /\ Left(FALSE) = [job.todo EXCEPT ![Current] = 0]
  BY DEF Left
<1>4. ASSUME NEW n \in 0..2, n <= job.todo[Current], NEW left,
             left = [job.todo EXCEPT ![Current] = n]
      PROVE  /\ left \in [SlotIndex -> 0..2]
             /\ \A i \in SlotIndex :
                  /\ i # Current => left[i] = job.todo[i]
                  /\ left[i] <= job.todo[i]
             /\ left[Current] = n
  BY <1>1, <1>4
<1>5. /\ Left(TRUE) \in [SlotIndex -> 0..2]
      /\ \A i \in SlotIndex :
           /\ i # Current => Left(TRUE)[i] = job.todo[i]
           /\ Left(TRUE)[i] <= job.todo[i]
      /\ Left(TRUE)[Current] = job.todo[Current] - 1
  BY <1>2, <1>3, <1>4
<1>6. /\ Left(FALSE) \in [SlotIndex -> 0..2]
      /\ \A i \in SlotIndex :
           /\ i # Current => Left(FALSE)[i] = job.todo[i]
           /\ Left(FALSE)[i] <= job.todo[i]
  <2>1. 0 \in 0..2 /\ 0 <= job.todo[Current]
    BY <1>1
  <2> QED
    BY <1>3, <1>4, <2>1
<1>7. CASE ok = TRUE
  BY <1>5, <1>7
<1>8. CASE ok = FALSE
  BY <1>5, <1>6, <1>8
<1> QED
  BY <1>7, <1>8

\* A save that returns leaves the command at its next slot, or done.
LEMMA SaveReturnsFacts ==
  ASSUME job \in Jobs, SavesLeft, ErasesInOrder, JobNames,
         job.at # "idle", job.at # "unlocked",
         NEW ok \in BOOLEAN, SaveReturns(ok), access' = access
  PROVE  /\ job' \in Jobs /\ SavesLeft' /\ ErasesInOrder' /\ JobNames'
         /\ IF Left(ok) = NoSaves
            THEN job' = NoJob
            ELSE /\ job'.cmd = job.cmd /\ job'.at = "page one" /\ job'.todo = Left(ok)
                 /\ ~job'.failed => ok /\ ~job.failed
<1>1. /\ Current \in SlotIndex /\ job.todo[Current] > 0
  BY CurrentFacts
<1>2. /\ Left(ok) \in [SlotIndex -> 0..2]
      /\ \A i \in SlotIndex : Left(ok)[i] <= job.todo[i]
  BY <1>1, LeftFacts
<1>3. job.todo \in [SlotIndex -> 0..2]
  BY DEF Jobs
<1>4. \A i \in SlotIndex : Left(ok)[i] > 0 => job.todo[i] > 0
  BY <1>2, <1>3
<1>5. CASE Left(ok) = NoSaves
  <2>1. job' = NoJob
    BY <1>5 DEF SaveReturns
  <2> QED
    BY <1>5, <2>1, NoSavesFacts DEF SavesLeft, ErasesInOrder, JobNames
<1>6. CASE Left(ok) # NoSaves
  <2>1. job' = [job EXCEPT !.todo = Left(ok), !.failed = job.failed \/ ~ok,
                           !.at = "page one"]
    BY <1>6 DEF SaveReturns
  <2>2. /\ job'.cmd = job.cmd /\ job'.at = "page one" /\ job'.todo = Left(ok)
        /\ job' \in Jobs /\ job'.code = job.code /\ job'.overtaken = job.overtaken
    BY <1>2, <2>1, Zenon DEF Jobs
  <2>3. ~job'.failed => ok /\ ~job.failed
    BY <2>1, Zenon DEF Jobs
  <2>4. \E i \in SlotIndex : Left(ok)[i] > 0
    BY <1>2, <1>6, SomeSavesLeft
  <2>5. SavesLeft'
    BY <1>4, <2>2, <2>4 DEF SavesLeft
  <2>6. ErasesInOrder'
    BY <1>4, <2>2 DEF ErasesInOrder
  <2>7. JobNames'
    BY <1>4, <2>2 DEF JobNames
  <2> QED
    BY <1>6, <2>2, <2>3, <2>5, <2>6, <2>7
<1> QED
  BY <1>5, <1>6

\* A change of the table while the mutex is free: a command that waits for it
\* keeps its slots to save, and knows not whether they are still its own.
LEMMA TableChanges ==
  ASSUME CodesInv, MutexFree, access' \in Context, UNCHANGED <<codes, loaded>>,
         Overtakes \/ (job.at = "idle" /\ job' = job),
         \/ job.at = "idle"
         \/ \A i \in SlotIndex : access'.slots[i].transient =>
              access'.slots[i] = access.slots[i]
  PROVE  CodesInv'
<1>1. job.cmd # "erase" /\ job \in Jobs
  BY CodesTypes DEF CodesInv, ErasesInOrder, MutexFree
<1>2. /\ job' \in Jobs /\ job'.cmd = job.cmd /\ job'.at = job.at /\ job'.todo = job.todo
      /\ job'.code = job.code
      /\ job'.at # "idle" /\ ~job'.overtaken =>
           /\ ~job.overtaken
           /\ \A i \in SlotIndex : job.todo[i] > 0 => access'.slots[i] = access.slots[i]
  <2>1. CASE job' = [job EXCEPT !.overtaken = TRUE]
    BY <1>1, <2>1, Zenon DEF Jobs
  <2>2. CASE /\ job' = job
             /\ ~ \E i \in SlotIndex : job.todo[i] > 0 /\ access'.slots[i] # access.slots[i]
    BY <1>1, <2>2
  <2>3. CASE job.at = "idle" /\ job' = job
    BY <1>1, <2>3
  <2> QED
    BY <2>1, <2>2, <2>3 DEF Overtakes
<1>3. CodesTypeOK'
  BY <1>2, CodesTypes, CodesTypesNext DEF CodesInv
<1>4. NoDevCodes(codes)' /\ ErasesInOrder' /\ ErasedSoFar'
  BY <1>1, <1>2 DEF CodesInv, NoDevCodes, ErasesInOrder, ErasedSoFar
<1>5. SavesLeft'
  BY <1>2 DEF CodesInv, SavesLeft
<1>6. JobNames'
  BY <1>2 DEF CodesInv, JobNames
<1> QED
  BY <1>3, <1>4, <1>5, <1>6 DEF CodesInv

\* A command starts saving, or will once it has the mutex again.
LEMMA SavingStarts ==
  ASSUME CodesInv, access' \in Context, UNCHANGED <<codes, loaded>>,
         NEW saves \in [SlotIndex -> 0..2], saves # NoSaves,
         NEW cmd \in {"persist", "del", "erase"}, NEW at \in {"unlocked", "page one"},
         job' \in Jobs, job'.cmd = cmd, job'.at = at, job'.todo = saves, ~job'.failed,
         cmd # "erase" =>
           \A i \in SlotIndex : saves[i] > 0 => access'.slots[i] = job'.code,
         \A i \in SlotIndex : saves[i] > 0 => ~access'.slots[i].transient,
         cmd = "erase" =>
           /\ at = "page one"
           /\ \A i \in SlotIndex :
                IF access'.slots[i].occupied THEN saves[i] = 0 ELSE saves[i] = 2
  PROVE  CodesInv'
<1>2. CodesTypeOK'
  BY CodesTypes, CodesTypesNext DEF CodesInv
<1>3. NoDevCodes(codes)'
  BY DEF CodesInv, NoDevCodes
<1>4. SavesLeft'
  BY SomeSavesLeft DEF SavesLeft
<1>5. job'.cmd = cmd /\ job'.at = at /\ job'.todo = saves
  OBVIOUS
<1>9. JobNames'
  BY <1>5 DEF JobNames
<1>6. ASSUME cmd = "erase", NEW i \in SlotIndex
      PROVE  IF access'.slots[i].occupied THEN ~(saves[i] > 0)
                                          ELSE saves[i] # 0 /\ saves[i] # 1
  <2>1. saves[i] \in 0..2
    OBVIOUS
  <2>2. IF access'.slots[i].occupied THEN saves[i] = 0 ELSE saves[i] = 2
    BY <1>6
  <2> QED
    BY <2>1, <2>2, SaveCounts, Zenon
<1>7. ErasesInOrder'
  BY <1>5, <1>6 DEF ErasesInOrder
<1>8. ErasedSoFar'
  BY <1>5, <1>6 DEF ErasedSoFar
<1> QED
  BY <1>2, <1>3, <1>4, <1>7, <1>8, <1>9 DEF CodesInv

-----------------------------------------------------------------------------
(* The table *)

\* ac_upsert makes no dev code, and returns the slot it wrote.
LEMMA UpsertStores ==
  ASSUME NEW ac \in Context, NEW id \in Ids, NEW h \in Hashes
  PROVE  LET up == AcUpsert(ac, id, h, 0, 1)
         IN  /\ up.ac \in Context
             /\ \A i \in SlotIndex : up.ac.slots[i].transient =>
                  up.ac.slots[i] = ac.slots[i]
             /\ up.slot # 0 => up.slot \in SlotIndex /\ ~up.ac.slots[up.slot].transient
<1> DEFINE up == AcUpsert(ac, id, h, 0, 1)
           entry == [occupied |-> TRUE, transient |-> FALSE, id |-> id,
                     hash |-> h, valid_from |-> 0, valid_until |-> 1]
           idx == TargetSlot(ac, id)
<1>1. /\ up.ac \in Context
      /\ \/ up.ac = ac
         \/ \E j \in SlotIndex : \A i \in SlotIndex :
              up.ac.slots[i] = IF i = j THEN entry ELSE ac.slots[i]
  <2>1. PICK no \in BOOLEAN : no = FALSE
    OBVIOUS
  <2> DEFINE one == Upsert(ac, id, h, 0, 1, no)
             new == [occupied |-> TRUE, transient |-> no, id |-> id,
                     hash |-> h, valid_from |-> 0, valid_until |-> 1]
  <2>2. up = one /\ entry = new
    BY <2>1 DEF AcUpsert
  <2>3. /\ one.ac \in Context
        /\ \/ one.ac = ac
           \/ \E j \in SlotIndex : \A i \in SlotIndex :
                one.ac.slots[i] = IF i = j THEN new ELSE ac.slots[i]
    BY UpsertCases
  <2> HIDE DEF up, one, entry, new
  <2> QED
    BY <2>2, <2>3
<1>2. up.slot # 0 => idx \in SlotIndex /\ up.slot = idx /\ up.ac.slots[idx] = entry
  <2> SUFFICES ASSUME up.slot # 0
               PROVE  idx \in SlotIndex /\ up.slot = idx /\ up.ac.slots[idx] = entry
    OBVIOUS
  <2>1. /\ idx # 0 /\ up.slot = idx /\ up.ac = [ac EXCEPT !.slots[idx] = entry]
    BY DEF AcUpsert, Upsert
  <2>2. idx \in SlotIndex
    BY <2>1, FirstIsMember DEF TargetSlot, ById, FreeSlots
  <2> HIDE DEF up, entry, idx
  <2>3. up.ac.slots[idx] = entry
    BY <2>1, <2>2 DEF Context
  <2> QED
    BY <2>1, <2>2, <2>3
<1>3. ~entry.transient
  OBVIOUS
<1> HIDE DEF up, entry, idx
<1>4. \A i \in SlotIndex : up.ac.slots[i].transient => up.ac.slots[i] = ac.slots[i]
  BY <1>1, <1>3
<1> QED
  BY <1>1, <1>2, <1>3, <1>4 DEF up

\* ac_revoke makes no dev code.
LEMMA RevokeStores ==
  ASSUME NEW ac \in Context, NEW id \in Ids
  PROVE  /\ AcRevoke(ac, id) \in Context
         /\ \A i \in SlotIndex : AcRevoke(ac, id).slots[i].transient =>
              AcRevoke(ac, id).slots[i] = ac.slots[i]
<1> DEFINE re == AcRevoke(ac, id)
<1>1. /\ re \in Context
      /\ \/ re = ac
         \/ \E idx \in ById(ac, id) : \A i \in SlotIndex :
              re.slots[i] = IF i = idx THEN EmptySlot ELSE ac.slots[i]
  BY RevokeCases
<1> HIDE DEF re
<1> QED
  BY <1>1, EmptySlotFacts DEF re

\* A set that names no code, or one, installed.
LEMMA InstallStores ==
  ASSUME NEW ac \in Context, NEW h \in Hashes, NEW set \in GuestSets(h)
  PROVE  LET in == Install(WithoutGuests(ac), set)
         IN  /\ in \in Context
             /\ \A i \in SlotIndex : in.slots[i].transient => in.slots[i] = ac.slots[i]
<1> DEFINE wo == WithoutGuests(ac)
           in == Install(wo, set)
<1>1. wo \in Context
  BY WithoutGuestsFacts
<1>2. \A i \in SlotIndex : wo.slots[i].transient => wo.slots[i] = ac.slots[i]
  <2> DEFINE free == [i \in SlotIndex |->
                        IF ac.slots[i].occupied /\ ~ac.slots[i].transient
                        THEN EmptySlot ELSE ac.slots[i]]
  <2>1. wo = [ac EXCEPT !.slots = free]
    BY DEF WithoutGuests
  <2>2. \A i \in SlotIndex : free[i] = ac.slots[i] \/ free[i] = EmptySlot
    OBVIOUS
  <2> HIDE DEF wo, free
  <2>3. wo.slots = free
    BY <2>1 DEF Context
  <2> QED
    BY <2>2, <2>3, EmptySlotFacts
<1> HIDE DEF wo
<1>3. CASE set = <<>>
  <2>1. Len(set) = 0
    BY <1>3
  <2>2. in = wo
    BY <2>1, InstallUnfolds
  <2> HIDE DEF in
  <2> QED
    BY <1>1, <1>2, <2>2 DEF in, wo
<1>4. CASE set # <<>>
  <2>1. PICK id \in BackendIds :
          set = <<[id |-> id, hash |-> h, valid_from |-> 0, valid_until |-> 1]>>
    BY <1>4 DEF GuestSets
  <2>2. Len(set) = 1 /\ set[1] = [id |-> id, hash |-> h, valid_from |-> 0, valid_until |-> 1]
    BY <2>1
  <2> DEFINE up == AcUpsert(wo, id, h, 0, 1).ac
  <2>3. in = up
    <3>1. PICK f : /\ f = [n \in 0..Len(set) |->
                            IF n = 0 THEN wo
                            ELSE AcUpsert(f[n - 1], set[n].id, set[n].hash,
                                          set[n].valid_from, set[n].valid_until).ac]
                   /\ in = f[Len(set)]
      <4>1. Len(set) \in Nat
        BY <2>2
      <4> QED
        BY <4>1, InstallUnfolds
    <3> HIDE DEF in
    <3>2. f[0] = wo /\ in = f[1]
      BY <2>2, <3>1
    <3>3. f[1] = AcUpsert(f[0], set[1].id, set[1].hash,
                          set[1].valid_from, set[1].valid_until).ac
      BY <2>2, <3>1
    <3> QED
      BY <2>2, <3>2, <3>3
  <2>4. id \in Ids
    BY CodeStoreAssumption
  <2>5. /\ up \in Context
        /\ \A i \in SlotIndex : up.slots[i].transient => up.slots[i] = wo.slots[i]
    BY <1>1, <2>4, UpsertStores
  <2> HIDE DEF in, up
  <2> QED
    BY <1>2, <2>3, <2>5 DEF in, wo
<1> QED
  BY <1>3, <1>4

-----------------------------------------------------------------------------
(* The steps *)

\* The table of a gate that trusts its clock.
LEMMA TrustedContext == Trusted \in Context
<1>1. 0 \in 0..CounterMax
  BY PolicyAssumption
<1>2. [i \in SlotIndex |-> EmptySlot] \in [SlotIndex -> Slot]
  BY EmptySlotFacts
<1>3. AcInit \in Context
  BY <1>1, <1>2 DEF AcInit, Context
<1> QED
  BY <1>3, Zenon DEF Trusted, Context

\* The first state.
LEMMA CodesStart == CodesInit => CodesInv
<1> SUFFICES ASSUME CodesInit PROVE CodesInv
  OBVIOUS
<1>1. Trusted \in Context
  BY TrustedContext
<1>2. [b \in Buffers |-> Invalid] \in Image
  BY InvalidFacts DEF Image
<1>3. codes \in Chip /\ NoDevCodes(codes)
  BY <1>2, InvalidFacts DEF CodesInit, Chip, NoDevCodes
<1>4. CodesTypeOK
  BY <1>1, <1>3, NoSavesFacts, CodesTypes DEF CodesInit
<1>5. SavesLeft /\ ErasesInOrder /\ ErasedSoFar /\ JobNames
  BY NoSavesFacts DEF CodesInit, SavesLeft, ErasesInOrder, ErasedSoFar, JobNames
<1> QED
  BY <1>3, <1>4, <1>5 DEF CodesInv

\* A slot with a save left holds no dev code, so its first page is written.
LEMMA FirstPage ==
  ASSUME CodesInv, PageOne
  PROVE  /\ codes' = TornCode(Current) /\ UNCHANGED <<access, loaded>>
         /\ job' = [job EXCEPT !.at = "page two"]
BY CurrentFacts DEF CodesInv, PageOne

\* The first page of a save.
LEMMA PageOneStep ==
  ASSUME CodesInv, PageOne
  PROVE  CodesInv'
<1>1. /\ codes' = TornCode(Current) /\ UNCHANGED <<access, loaded>>
      /\ job' = [job EXCEPT !.at = "page two"]
      /\ job.at = "page one"
  BY FirstPage DEF PageOne
<1>2. /\ access \in Context /\ codes \in Chip /\ job \in Jobs
      /\ loaded \subseteq SlotIndex
  BY CodesTypes DEF CodesInv
<1>3. /\ Current \in SlotIndex /\ job.todo[Current] > 0
      /\ ~access.slots[Current].transient
  BY <1>1, CurrentFacts DEF CodesInv
<1>4. /\ job' \in Jobs /\ job'.cmd = job.cmd /\ job'.todo = job.todo
      /\ job'.failed = job.failed /\ job'.at = "page two"
      /\ job'.code = job.code /\ job'.overtaken = job.overtaken
  BY <1>1, <1>2, Zenon DEF Jobs
<1>5. /\ codes' \in Chip /\ NoDevCodes(codes)'
      /\ \A j \in SlotIndex :
           /\ j # Current => codes'[j] = codes[j]
           /\ codes'[j][NewestBuffer(codes'[j])] = codes[j][NewestBuffer(codes[j])]
  <2>1. /\ TornCode(Current) \in Chip /\ NoDevCodes(TornCode(Current))
        /\ \A j \in SlotIndex :
             /\ j # Current => TornCode(Current)[j] = codes[j]
             /\ TornCode(Current)[j][NewestBuffer(TornCode(Current)[j])]
                  = codes[j][NewestBuffer(codes[j])]
    BY <1>2, <1>3, TornCodeFacts DEF CodesInv
  <2> QED
    BY <1>1, <2>1 DEF NoDevCodes
<1>6. CodesTypeOK'
  BY <1>1, <1>2, <1>4, <1>5, CodesTypesNext
<1>7. SavesLeft' /\ ErasesInOrder' /\ JobNames'
  BY <1>1, <1>4 DEF CodesInv, SavesLeft, ErasesInOrder, JobNames
<1>8. ErasedSoFar'
  <2> SUFFICES ASSUME job.cmd = "erase", ~job.failed, NEW i \in SlotIndex,
                      ~access.slots[i].occupied
               PROVE  /\ job.todo[i] = 1 => ErasedBuffer(codes'[i][NewestBuffer(codes'[i])])
                      /\ job.todo[i] = 0 => \A b \in Buffers : ErasedBuffer(codes'[i][b])
    BY <1>1, <1>4 DEF ErasedSoFar
  <2>1. /\ job.todo[i] = 1 => ErasedBuffer(codes[i][NewestBuffer(codes[i])])
        /\ job.todo[i] = 0 => \A b \in Buffers : ErasedBuffer(codes[i][b])
    BY DEF CodesInv, ErasedSoFar
  <2>2. job.todo[i] = 0 => i # Current
    BY <1>3
  <2> QED
    BY <1>5, <2>1, <2>2
<1> QED
  BY <1>5, <1>6, <1>7, <1>8 DEF CodesInv

\* A save that has failed: nothing is said of what an erase has reached.
LEMMA FailingStep ==
  ASSUME CodesInv, job.at \in {"page one", "page two"}, SaveReturns(FALSE),
         UNCHANGED <<access, loaded>>,
         codes' \in {codes, TornCode(Current), WrittenCode(Current)}
  PROVE  CodesInv'
<1>1. /\ access \in Context /\ codes \in Chip /\ job \in Jobs
      /\ loaded \subseteq SlotIndex
  BY CodesTypes DEF CodesInv
<1>2. Current \in SlotIndex /\ job.todo[Current] > 0
  BY CurrentFacts DEF CodesInv
<1>3. codes' \in Chip /\ NoDevCodes(codes)'
  <2>1. /\ TornCode(Current) \in Chip /\ NoDevCodes(TornCode(Current))
        /\ WrittenCode(Current) \in Chip /\ NoDevCodes(WrittenCode(Current))
    BY <1>1, <1>2, TornCodeFacts, WrittenCodeFacts DEF CodesInv
  <2> QED
    BY <1>1, <2>1 DEF NoDevCodes, CodesInv
<1>4. /\ job' \in Jobs /\ SavesLeft' /\ ErasesInOrder' /\ JobNames'
      /\ job' = NoJob \/ job'.failed
  <2>1. PICK no \in BOOLEAN : no = FALSE
    OBVIOUS
  <2>2. SaveReturns(no)
    BY <2>1
  <2>3. /\ job' \in Jobs /\ SavesLeft' /\ ErasesInOrder' /\ JobNames'
        /\ IF Left(no) = NoSaves
           THEN job' = NoJob
           ELSE /\ job'.cmd = job.cmd /\ job'.at = "page one" /\ job'.todo = Left(no)
                /\ ~job'.failed => no /\ ~job.failed
    BY <1>1, <2>2, SaveReturnsFacts DEF CodesInv
  <2> QED
    BY <2>1, <2>3
<1>5. CodesTypeOK'
  BY <1>1, <1>3, <1>4, CodesTypesNext
<1>6. ErasedSoFar'
  BY <1>4, NoSavesFacts DEF ErasedSoFar
<1> QED
  BY <1>3, <1>4, <1>5, <1>6 DEF CodesInv

\* The second page: what the erase has reached of the current slot.
LEMMA PageTwoReaches ==
  ASSUME CodesInv, PageTwo, job.cmd = "erase", ~job.failed,
         NEW i \in SlotIndex, ~access.slots[i].occupied
  PROVE  /\ Left(TRUE)[i] = 1 => ErasedBuffer(codes'[i][NewestBuffer(codes'[i])])
         /\ Left(TRUE)[i] = 0 => \A b \in Buffers : ErasedBuffer(codes'[i][b])
<1>1. /\ access \in Context /\ codes \in Chip /\ job \in Jobs
      /\ codes' = WrittenCode(Current)
  BY CodesTypes DEF CodesInv, PageTwo
<1>2. Current \in SlotIndex /\ job.todo[Current] > 0
  BY CurrentFacts DEF CodesInv, PageTwo
<1>3. /\ \A j \in SlotIndex : j # Current => Left(TRUE)[j] = job.todo[j]
      /\ Left(TRUE)[Current] = job.todo[Current] - 1
  BY <1>1, <1>2, LeftFacts
<1>4. /\ job.todo[i] = 1 => ErasedBuffer(codes[i][NewestBuffer(codes[i])])
      /\ job.todo[i] = 0 => \A b \in Buffers : ErasedBuffer(codes[i][b])
  BY DEF CodesInv, ErasedSoFar
<1>5. CASE i # Current
  <2>1. codes'[i] = codes[i]
    BY <1>1, <1>2, <1>5, WrittenCodeFacts DEF CodesInv
  <2> QED
    BY <1>3, <1>4, <1>5, <2>1
<1>6. CASE i = Current
  <2> DEFINE newest == NewestBuffer(codes'[i])
  <2>1. /\ newest \in Buffers
        /\ codes'[i][newest].ok
        /\ codes'[i][newest].code = ToStore(i)
        /\ \A b \in Buffers \ {newest} : codes'[i][b] = codes[i][NewestBuffer(codes[i])]
    BY <1>1, <1>6, WrittenCodeFacts DEF CodesInv
  <2>2. ~ToStore(i).occupied
    BY <1>1, ToStoreFacts
  <2>3. ErasedBuffer(codes'[i][newest])
    BY <2>1, <2>2 DEF ErasedBuffer
  <2>4. Left(TRUE)[i] = 0 => job.todo[i] = 1
    <3>1. job.todo[Current] \in 0..2
      BY <1>1, <1>2 DEF Jobs
    <3> QED
      BY <1>3, <1>6, <3>1, SaveCounts
  <2> HIDE DEF newest
  <2>5. job.todo[i] = 1 => \A b \in Buffers : ErasedBuffer(codes'[i][b])
    BY <1>4, <2>1, <2>3
  <2> QED
    BY <2>3, <2>4, <2>5 DEF newest
<1> QED
  BY <1>5, <1>6

\* The second page of a save.
LEMMA PageTwoStep ==
  ASSUME CodesInv, PageTwo
  PROVE  CodesInv'
<1>1. /\ access \in Context /\ codes \in Chip /\ job \in Jobs
      /\ loaded \subseteq SlotIndex
      /\ codes' = WrittenCode(Current) /\ UNCHANGED <<access, loaded>>
      /\ job.at = "page two" /\ SaveReturns(TRUE)
  BY CodesTypes DEF CodesInv, PageTwo
<1>2. Current \in SlotIndex /\ job.todo[Current] > 0
  BY <1>1, CurrentFacts DEF CodesInv
<1>3. codes' \in Chip /\ NoDevCodes(codes)'
  <2>1. WrittenCode(Current) \in Chip /\ NoDevCodes(WrittenCode(Current))
    BY <1>1, <1>2, WrittenCodeFacts DEF CodesInv
  <2> QED
    BY <1>1, <2>1 DEF NoDevCodes
<1>4. /\ job' \in Jobs /\ SavesLeft' /\ ErasesInOrder' /\ JobNames'
      /\ \/ job' = NoJob
         \/ /\ job'.cmd = job.cmd /\ job'.todo = Left(TRUE)
            /\ ~job'.failed => ~job.failed
  <2>1. PICK yes \in BOOLEAN : yes = TRUE
    OBVIOUS
  <2>2. SaveReturns(yes)
    BY <1>1, <2>1
  <2>3. /\ job' \in Jobs /\ SavesLeft' /\ ErasesInOrder' /\ JobNames'
        /\ IF Left(yes) = NoSaves
           THEN job' = NoJob
           ELSE /\ job'.cmd = job.cmd /\ job'.at = "page one" /\ job'.todo = Left(yes)
                /\ ~job'.failed => yes /\ ~job.failed
    BY <1>1, <2>2, SaveReturnsFacts DEF CodesInv
  <2> QED
    BY <2>1, <2>3
<1>5. CodesTypeOK'
  BY <1>1, <1>3, <1>4, CodesTypesNext
<1>6. ErasedSoFar'
  <2> SUFFICES ASSUME job'.cmd = "erase", ~job'.failed, NEW i \in SlotIndex,
                      ~access.slots[i].occupied
               PROVE  /\ job'.todo[i] = 1 => ErasedBuffer(codes'[i][NewestBuffer(codes'[i])])
                      /\ job'.todo[i] = 0 => \A b \in Buffers : ErasedBuffer(codes'[i][b])
    BY <1>1 DEF ErasedSoFar
  <2>1. job.cmd = "erase" /\ ~job.failed /\ job'.todo = Left(TRUE)
    BY <1>4, NoSavesFacts
  <2> QED
    BY <2>1, PageTwoReaches
<1> QED
  BY <1>3, <1>4, <1>5, <1>6 DEF CodesInv

\* The code a boot restores is the one it finds.
LEMMA RestoredFacts ==
  ASSUME NEW image \in Image, \A b \in Buffers : ~image[b].code.transient
  PROVE  /\ SlotRead(image) \in Slot /\ ~SlotRead(image).transient
         /\ RestoredCode(image) = SlotRead(image)
<1>1. SlotRead(image) \in Slot /\ ~SlotRead(image).transient
  BY HalfIsOther DEF SlotRead, Image, Buffer
<1>2. ASSUME NEW slot \in Slot, ~slot.transient
      PROVE  [slot EXCEPT !.transient = FALSE] = slot
  BY <1>2 DEF Slot
<1> QED
  BY <1>1, <1>2 DEF RestoredCode

\* What a power cut leaves: every slot reads as before, or as the table has it.
LEMMA AfterCutFacts ==
  ASSUME CodesInv, NEW left \in AfterCut
  PROVE  /\ left \in Chip /\ NoDevCodes(left)
         /\ \A i \in SlotIndex : SlotRead(left[i]) \in {SlotRead(codes[i]), ToStore(i)}
<1>1. access \in Context /\ codes \in Chip /\ job \in Jobs /\ NoDevCodes(codes)
  BY CodesTypes DEF CodesInv
<1>2. CASE left = codes
  BY <1>1, <1>2
<1>3. CASE left # codes
  <2>1. /\ job.at # "idle"
        /\ left \in {TornCode(Current), WrittenCode(Current)}
    BY <1>3 DEF AfterCut
  <2>2. Current \in SlotIndex
    BY <2>1, CurrentFacts DEF CodesInv
  <2>3. CASE left = TornCode(Current)
    BY <1>1, <2>2, <2>3, TornCodeFacts
  <2>4. CASE left = WrittenCode(Current)
    <3>1. /\ left \in Chip /\ NoDevCodes(left)
          /\ \A j \in SlotIndex : j # Current => left[j] = codes[j]
          /\ SlotRead(left[Current]) = ToStore(Current)
      BY <1>1, <2>2, <2>4, WrittenCodeFacts
    <3> QED
      BY <3>1
  <2> QED
    BY <2>1, <2>3, <2>4
<1> QED
  BY <1>2, <1>3

\* What a boot finds on the chip and puts into the table.
LEMMA BootFacts ==
  ASSUME CodesInv, NEW readable \in SUBSET SlotIndex, Boot(readable)
  PROVE  /\ access' \in Context /\ codes' \in Chip /\ NoDevCodes(codes)'
         /\ \A i \in SlotIndex :
              /\ SlotRead(codes'[i]) \in {SlotRead(codes[i]), ToStore(i)}
              /\ SlotRead(codes'[i]) \in Slot /\ ~SlotRead(codes'[i]).transient
              /\ access'.slots[i] = IF i \in readable THEN SlotRead(codes'[i])
                                                      ELSE EmptySlot
<1>1. /\ codes' \in Chip /\ NoDevCodes(codes')
      /\ \A i \in SlotIndex : SlotRead(codes'[i]) \in {SlotRead(codes[i]), ToStore(i)}
  BY AfterCutFacts DEF Boot
<1>2. ASSUME NEW i \in SlotIndex
      PROVE  /\ SlotRead(codes'[i]) \in Slot /\ ~SlotRead(codes'[i]).transient
             /\ RestoredCode(codes'[i]) = SlotRead(codes'[i])
  BY <1>1, RestoredFacts DEF Chip, NoDevCodes
<1> DEFINE found == [i \in SlotIndex |->
                       IF i \in readable THEN RestoredCode(codes'[i]) ELSE EmptySlot]
<1>3. access' = [Trusted EXCEPT !.slots = found]
  BY DEF Boot
<1>4. found \in [SlotIndex -> Slot]
  BY <1>2, EmptySlotFacts
<1>5. \A i \in SlotIndex :
        found[i] = IF i \in readable THEN SlotRead(codes'[i]) ELSE EmptySlot
  BY <1>2
<1> HIDE DEF found
<1>6. access' \in Context /\ access'.slots = found
  BY <1>3, <1>4, TrustedContext DEF Context
<1> QED
  BY <1>1, <1>2, <1>5, <1>6 DEF NoDevCodes

\* A revocation of every dev code.
LEMMA ClearStores ==
  ASSUME NEW ac \in Context
  PROVE  /\ AcRevokeTransient(ac) \in Context
         /\ \A i \in SlotIndex : AcRevokeTransient(ac).slots[i].transient =>
              AcRevokeTransient(ac).slots[i] = ac.slots[i]
<1> DEFINE cleared == [i \in SlotIndex |->
                         IF ac.slots[i].occupied /\ ac.slots[i].transient
                         THEN EmptySlot ELSE ac.slots[i]]
<1>1. AcRevokeTransient(ac) = [ac EXCEPT !.slots = cleared]
  BY DEF AcRevokeTransient
<1>2. cleared \in [SlotIndex -> Slot]
  BY EmptySlotFacts DEF Context
<1>3. \A i \in SlotIndex : cleared[i] = ac.slots[i] \/ cleared[i] = EmptySlot
  OBVIOUS
<1> HIDE DEF cleared
<1>4. AcRevokeTransient(ac) \in Context /\ AcRevokeTransient(ac).slots = cleared
  BY <1>1, <1>2 DEF Context
<1> QED
  BY <1>3, <1>4, EmptySlotFacts

\* A slot saved once.
LEMMA OnceFacts ==
  ASSUME NEW i \in SlotIndex
  PROVE  /\ Once(i) \in [SlotIndex -> 0..2] /\ Once(i) # NoSaves
         /\ \A j \in SlotIndex : Once(i)[j] > 0 => j = i
<1>1. Once(i) = [NoSaves EXCEPT ![i] = 1]
  BY DEF Once
<1>2. \A j \in SlotIndex : Once(i)[j] = IF j = i THEN 1 ELSE 0
  BY <1>1, NoSavesFacts
<1>3. Once(i) \in [SlotIndex -> 0..2]
  BY <1>1, NoSavesFacts
<1>4. Once(i)[i] # NoSaves[i]
  BY <1>2, NoSavesFacts
<1> QED
  BY <1>2, <1>3, <1>4

\* `code persist`, its first section.
LEMMA CodePersistStep ==
  ASSUME CodesInv, NEW id \in Ids, NEW h \in Hashes, CodePersist(id, h)
  PROVE  CodesInv' /\ access' \in Context
<1> DEFINE up == AcUpsert(access, id, h, 0, 1)
<1>1. access \in Context
  BY CodesTypes DEF CodesInv
<1>2. /\ up.ac \in Context
      /\ up.slot # 0 => up.slot \in SlotIndex /\ ~up.ac.slots[up.slot].transient
  BY <1>1, UpsertStores
<1>3. /\ up.slot # 0 /\ access' = up.ac /\ UNCHANGED <<codes, loaded>>
      /\ job' = [NoJob EXCEPT !.cmd = "persist", !.at = "unlocked",
                              !.todo = Once(up.slot), !.code = up.ac.slots[up.slot]]
  BY DEF CodePersist
<1> HIDE DEF up
<1>4. /\ Once(up.slot) \in [SlotIndex -> 0..2] /\ Once(up.slot) # NoSaves
      /\ \A j \in SlotIndex : Once(up.slot)[j] > 0 => j = up.slot
  BY <1>2, <1>3, OnceFacts
<1>5. up.ac.slots[up.slot] \in Slot
  BY <1>2, <1>3 DEF Context
<1>6. /\ job' \in Jobs /\ job'.cmd = "persist" /\ job'.at = "unlocked"
      /\ job'.todo = Once(up.slot) /\ job'.code = up.ac.slots[up.slot] /\ ~job'.failed
  BY <1>3, <1>4, <1>5, EmptySlotFacts DEF NoJob, Jobs
<1>7. \A i \in SlotIndex : Once(up.slot)[i] > 0 => access'.slots[i] = job'.code
  BY <1>3, <1>4, <1>6
<1> QED
  BY <1>2, <1>3, <1>4, <1>6, <1>7, SavingStarts

\* `code persist`, its second section.
LEMMA CodePersistSavesStep ==
  ASSUME CodesInv, CodePersistSaves
  PROVE  CodesInv'
<1>1. /\ access \in Context /\ job \in Jobs /\ job.at = "unlocked"
      /\ UNCHANGED <<access, codes, loaded>>
      /\ job' = [job EXCEPT !.at = "page one"]
  BY CodesTypes DEF CodesInv, CodePersistSaves
<1>2. /\ job' \in Jobs /\ job'.cmd = job.cmd /\ job'.at = "page one"
      /\ job'.todo = job.todo /\ job'.code = job.code /\ job'.failed = job.failed
      /\ job'.overtaken = job.overtaken
  BY <1>1, Zenon DEF Jobs
<1>3. job.cmd # "erase"
  BY <1>1 DEF CodesInv, ErasesInOrder
<1>4. CodesTypeOK'
  BY <1>1, <1>2, CodesTypes, CodesTypesNext DEF CodesInv
<1>5. NoDevCodes(codes)'
  BY <1>1 DEF CodesInv, NoDevCodes
<1>6. SavesLeft' /\ JobNames'
  BY <1>1, <1>2 DEF CodesInv, SavesLeft, JobNames
<1>7. ErasesInOrder' /\ ErasedSoFar'
  BY <1>2, <1>3 DEF ErasesInOrder, ErasedSoFar
<1> QED
  BY <1>4, <1>5, <1>6, <1>7 DEF CodesInv

\* `code del`.
LEMMA CodeDelStep ==
  ASSUME CodesInv, NEW id \in Ids, CodeDel(id)
  PROVE  CodesInv' /\ access' \in Context
<1> DEFINE i == FirstOf(ById(access, id))
           re == AcRevoke(access, id)
<1>1. access \in Context
  BY CodesTypes DEF CodesInv
<1>2. /\ re \in Context
      /\ \A j \in SlotIndex : re.slots[j].transient => re.slots[j] = access.slots[j]
  BY <1>1, RevokeStores
<1>3. /\ ConsoleIdle /\ ById(access, id) # {}
      /\ access' = re /\ UNCHANGED <<codes, loaded>>
      /\ IF access.slots[i].transient THEN job' = job ELSE StartsSaving("del", Once(i))
  BY DEF CodeDel
<1>4. i \in SlotIndex /\ re.slots[i] = EmptySlot
  <2>1. i \in SlotIndex
    BY <1>3, FirstIsMember DEF ById
  <2>2. re = [access EXCEPT !.slots[i] = EmptySlot]
    BY <1>3 DEF AcRevoke
  <2> HIDE DEF i, re
  <2> QED
    BY <1>1, <2>1, <2>2 DEF Context
<1> HIDE DEF i, re
<1>5. CASE access.slots[i].transient
  <2>1. job' = job /\ MutexFree /\ job.at = "idle"
    BY <1>3, <1>5 DEF ConsoleIdle, MutexFree
  <2> QED
    BY <1>2, <1>3, <2>1, TableChanges
<1>6. CASE ~access.slots[i].transient
  <2>1. job' = [NoJob EXCEPT !.cmd = "del", !.at = "page one", !.todo = Once(i)]
    BY <1>3, <1>6 DEF StartsSaving
  <2>2. /\ Once(i) \in [SlotIndex -> 0..2] /\ Once(i) # NoSaves
        /\ \A j \in SlotIndex : Once(i)[j] > 0 => j = i
    BY <1>4, OnceFacts
  <2>3. ~re.slots[i].transient
    BY <1>2, <1>4, <1>6
  <2>4. /\ job' \in Jobs /\ job'.cmd = "del" /\ job'.at = "page one"
        /\ job'.todo = Once(i) /\ job'.code = EmptySlot /\ ~job'.failed
    BY <2>1, <2>2, EmptySlotFacts DEF NoJob, Jobs
  <2>5. \A j \in SlotIndex : Once(i)[j] > 0 => access'.slots[j] = job'.code
    BY <1>3, <1>4, <2>2, <2>4
  <2> QED
    BY <1>2, <1>3, <2>2, <2>3, <2>4, <2>5, SavingStarts
<1> QED
  BY <1>5, <1>6

\* `code erase`.
LEMMA CodeEraseStep ==
  ASSUME CodesInv, NEW all \in BOOLEAN, CodeErase(all)
  PROVE  CodesInv' /\ access' \in Context
<1> DEFINE stored == {i \in SlotIndex : access.slots[i].occupied
                                          /\ ~access.slots[i].transient}
           spared == IF all THEN {}
                     ELSE {i \in stored : access.slots[i].id \in BackendIds}
           left == [i \in SlotIndex |->
                      IF i \in spared THEN access.slots[i] ELSE EmptySlot]
<1>1. access \in Context
  BY CodesTypes DEF CodesInv
<1>2. /\ ConsoleIdle /\ UNCHANGED <<codes, loaded>>
      /\ access' = [access EXCEPT !.slots = left]
      /\ IF EraseSaves(spared) = NoSaves THEN job' = job
         ELSE StartsSaving("erase", EraseSaves(spared))
  BY DEF CodeErase
<1>3. \A i \in spared : access.slots[i].occupied /\ ~access.slots[i].transient
  OBVIOUS
<1> HIDE DEF spared
<1>4. left \in [SlotIndex -> Slot]
  BY <1>1, EmptySlotFacts DEF Context
<1>5. \A i \in SlotIndex : /\ left[i].occupied <=> i \in spared
                           /\ ~left[i].transient
  BY <1>3, EmptySlotFacts
<1> HIDE DEF left
<1>6. access' \in Context /\ access'.slots = left
  BY <1>1, <1>2, <1>4 DEF Context
<1>7. /\ EraseSaves(spared) \in [SlotIndex -> 0..2]
      /\ \A i \in SlotIndex : EraseSaves(spared)[i] = IF i \in spared THEN 0 ELSE 2
  BY DEF EraseSaves
<1>8. CASE EraseSaves(spared) = NoSaves
  <2>1. job' = job /\ MutexFree /\ job.at = "idle"
    BY <1>2, <1>8 DEF ConsoleIdle, MutexFree
  <2> QED
    BY <1>2, <1>6, <2>1, TableChanges
<1>9. CASE EraseSaves(spared) # NoSaves
  <2>1. job' = [NoJob EXCEPT !.cmd = "erase", !.at = "page one",
                             !.todo = EraseSaves(spared)]
    BY <1>2, <1>9 DEF StartsSaving
  <2>2. \A i \in SlotIndex :
          IF access'.slots[i].occupied THEN EraseSaves(spared)[i] = 0
                                       ELSE EraseSaves(spared)[i] = 2
    BY <1>5, <1>6, <1>7
  <2>3. \A i \in SlotIndex : ~access'.slots[i].transient
    BY <1>5, <1>6
  <2>4. /\ job' \in Jobs /\ job'.cmd = "erase" /\ job'.at = "page one"
        /\ job'.todo = EraseSaves(spared) /\ ~job'.failed
    BY <1>7, <2>1, EmptySlotFacts DEF NoJob, Jobs
  <2> QED
    BY <1>2, <1>6, <1>7, <1>9, <2>2, <2>3, <2>4, SavingStarts
<1> QED
  BY <1>8, <1>9

\* A power cut and the boot after it.
LEMMA BootStep ==
  ASSUME CodesInv, NEW readable \in SUBSET SlotIndex, Boot(readable)
  PROVE  CodesInv'
<1>1. /\ access' \in Context /\ codes' \in Chip /\ NoDevCodes(codes)'
      /\ job' = NoJob /\ loaded' \subseteq SlotIndex
  BY BootFacts DEF Boot
<1>2. CodesTypeOK'
  BY <1>1, NoSavesFacts, CodesTypesNext
<1>3. SavesLeft' /\ ErasesInOrder' /\ ErasedSoFar' /\ JobNames'
  BY <1>1, NoSavesFacts DEF SavesLeft, ErasesInOrder, ErasedSoFar, JobNames
<1> QED
  BY <1>1, <1>2, <1>3 DEF CodesInv

\* A step that changes the table and leaves the EEPROM alone.
TableSteps ==
  \/ CodeClear
  \/ \E id \in Ids, h \in Hashes : CodeAdd(id, h) \/ CodePersist(id, h)
  \/ \E id \in Ids : CodeDel(id)
  \/ \E all \in BOOLEAN : CodeErase(all)
  \/ \E h \in Hashes : \E set \in GuestSets(h) : SyncInstalls(set)
  \/ \E id \in BackendIds, h \in Hashes : PushArrives(id, h)

\* Such a step keeps the invariant.
LEMMA TableStep ==
  ASSUME CodesInv, TableSteps
  PROVE  CodesInv' /\ access' \in Context /\ UNCHANGED <<codes, loaded>>
<1>1. access \in Context
  BY CodesTypes DEF CodesInv
<1>2. CASE CodeClear
  BY <1>1, <1>2, ClearStores, TableChanges DEF CodeClear
<1>3. ASSUME NEW id \in Ids, NEW h \in Hashes, CodeAdd(id, h)
      PROVE  CodesInv' /\ access' \in Context /\ UNCHANGED <<codes, loaded>>
  <2>1. access' \in Context
    BY <1>1, <1>3, TransientGuests DEF CodeAdd
  <2>2. MutexFree /\ job.at = "idle" /\ UNCHANGED <<codes, job, loaded>>
    BY <1>3 DEF CodeAdd, ConsoleIdle, MutexFree
  <2> QED
    BY <2>1, <2>2, TableChanges
<1>4. ASSUME NEW id \in Ids, NEW h \in Hashes, CodePersist(id, h)
      PROVE  CodesInv' /\ access' \in Context /\ UNCHANGED <<codes, loaded>>
  BY <1>4, CodePersistStep DEF CodePersist
<1>5. ASSUME NEW id \in Ids, CodeDel(id)
      PROVE  CodesInv' /\ access' \in Context /\ UNCHANGED <<codes, loaded>>
  BY <1>5, CodeDelStep DEF CodeDel
<1>6. ASSUME NEW all \in BOOLEAN, CodeErase(all)
      PROVE  CodesInv' /\ access' \in Context /\ UNCHANGED <<codes, loaded>>
  BY <1>6, CodeEraseStep DEF CodeErase
<1>7. ASSUME NEW h \in Hashes, NEW set \in GuestSets(h), SyncInstalls(set)
      PROVE  CodesInv' /\ access' \in Context /\ UNCHANGED <<codes, loaded>>
  BY <1>1, <1>7, InstallStores, TableChanges DEF SyncInstalls
<1>8. ASSUME NEW id \in BackendIds, NEW h \in Hashes, PushArrives(id, h)
      PROVE  CodesInv' /\ access' \in Context /\ UNCHANGED <<codes, loaded>>
  <2>1. id \in Ids
    BY CodeStoreAssumption
  <2>2. CASE access' = AcUpsert(access, id, h, 0, 1).ac
    BY <1>1, <1>8, <2>1, <2>2, UpsertStores, TableChanges DEF PushArrives
  <2>3. CASE access' = AcRevoke(access, id)
    BY <1>1, <1>8, <2>1, <2>3, RevokeStores, TableChanges DEF PushArrives
  <2> QED
    BY <1>8, <2>2, <2>3 DEF PushArrives
<1> QED
  BY <1>2, <1>3, <1>4, <1>5, <1>6, <1>7, <1>8 DEF TableSteps

\* The cases of a step.
LEMMA CodesNextCases ==
  CodesNext => \/ PageOne \/ PageOneFails \/ PageTwo \/ PageTwoFails
               \/ TableSteps \/ CodePersistSaves
               \/ \E readable \in SUBSET SlotIndex : Boot(readable)
BY DEF CodesNext, TableSteps

\* Every step keeps the invariant.
LEMMA CodesStep ==
  ASSUME CodesInv, [CodesNext]_codesVars
  PROVE  CodesInv'
<1>1. CASE PageOne
  BY <1>1, PageOneStep
<1>2. CASE PageOneFails
  BY <1>2, FailingStep DEF PageOneFails
<1>3. CASE PageTwo
  BY <1>3, PageTwoStep
<1>4. CASE PageTwoFails
  BY <1>4, FailingStep DEF PageTwoFails
<1>5. CASE TableSteps
  BY <1>5, TableStep
<1>6. CASE CodePersistSaves
  BY <1>6, CodePersistSavesStep
<1>7. CASE \E readable \in SUBSET SlotIndex : Boot(readable)
  BY <1>7, BootStep
<1>8. CASE UNCHANGED codesVars
  BY <1>8 DEF codesVars, CodesInv, CodesTypeOK, NoDevCodes, SavesLeft, Current,
              ErasesInOrder, ErasedSoFar, JobNames
<1> QED
  BY <1>1, <1>2, <1>3, <1>4, <1>5, <1>6, <1>7, <1>8, CodesNextCases

\* The invariant holds in every reachable state.
THEOREM CodesSafe == CodesSpec => []CodesInv
<1>1. CodesInit => CodesInv
  BY CodesStart
<1>2. CodesInv /\ [CodesNext]_codesVars => CodesInv'
  BY CodesStep
<1> QED
  BY <1>1, <1>2, PTL DEF CodesSpec

\* The types of the code slots, of the table and of the command that saves them.
THEOREM CodesTypesHold == CodesSpec => []CodesTypeOK
<1>1. CodesInv => CodesTypeOK
  BY DEF CodesInv
<1> QED
  BY <1>1, CodesSafe, PTL

-----------------------------------------------------------------------------
(* The promise of AttemptStore, slot by slot *)

\* Every slot starts as AttemptStore does.
LEMMA CellStarts ==
  ASSUME CodesInit, NEW i \in SlotIndex
  PROVE  Cell(i)!Init
<1>1. /\ access.slots[i] = EmptySlot /\ codes[i] = [b \in Buffers |-> Invalid]
      /\ i \in loaded
  BY DEF CodesInit, Trusted, AcInit
<1>2. SlotRead(codes[i]) = EmptySlot
  <2>1. codes[i] \in Image
    BY <1>1, InvalidFacts DEF Image
  <2>2. codes[i][NewestBuffer(codes[i])] = Invalid
    BY <1>1, <2>1, HalfIsOther
  <2> QED
    BY <2>2 DEF SlotRead, Invalid
<1>3. ToStore(i) = EmptySlot
  BY <1>1 DEF ToStore
<1> QED
  BY <1>1, <1>2, <1>3 DEF Cell!Init

\* The pages of a save: the slot that is being saved takes the value the table
\* has, or keeps the record it had.
LEMMA CellPages ==
  ASSUME CodesInv, job.at \in {"page one", "page two"},
         UNCHANGED <<access, loaded>>,
         codes' \in {codes, TornCode(Current), WrittenCode(Current)},
         NEW i \in SlotIndex
  PROVE  Cell(i)!Next \/ UNCHANGED Cell(i)!vars
<1>1. /\ access \in Context /\ codes \in Chip /\ NoDevCodes(codes)
      /\ Current \in SlotIndex /\ ToStore(i) \in Slot
  BY CodesTypes, CurrentFacts, ToStoreFacts DEF CodesInv
<1>2. /\ (i \in loaded)' = (i \in loaded) /\ ToStore(i)' = ToStore(i)
  BY DEF ToStore
<1>3. SlotRead(codes'[i]) = SlotRead(codes[i]) \/ SlotRead(codes'[i]) = ToStore(i)
  <2>1. CASE codes' = TornCode(Current)
    BY <1>1, <2>1, TornCodeFacts
  <2>2. CASE codes' = WrittenCode(Current)
    BY <1>1, <2>2, WrittenCodeFacts
  <2> QED
    BY <2>1, <2>2
<1>4. CASE SlotRead(codes'[i]) = SlotRead(codes[i])
  BY <1>2, <1>4 DEF Cell!vars
<1>5. CASE SlotRead(codes'[i]) = ToStore(i) /\ i \in loaded
  BY <1>2, <1>5 DEF Cell!Next, Cell!Write
<1>6. CASE SlotRead(codes'[i]) = ToStore(i) /\ i \notin loaded
  BY <1>1, <1>2, <1>6 DEF Cell!Next, Cell!WriteBlind
<1> QED
  BY <1>3, <1>4, <1>5, <1>6

\* A boot restarts every slot.
LEMMA CellRestarts ==
  ASSUME CodesInv, NEW readable \in SUBSET SlotIndex, Boot(readable),
         NEW i \in SlotIndex
  PROVE  Cell(i)!Restart
<1>1. /\ SlotRead(codes'[i]) \in {SlotRead(codes[i]), ToStore(i)}
      /\ SlotRead(codes'[i]) \in Slot /\ ~SlotRead(codes'[i]).transient
      /\ access'.slots[i] = IF i \in readable THEN SlotRead(codes'[i]) ELSE EmptySlot
      /\ loaded' = readable
  BY BootFacts DEF Boot
<1>2. ToStore(i)' = IF i \in readable THEN SlotRead(codes'[i]) ELSE EmptySlot
  BY <1>1, EmptySlotFacts DEF ToStore
<1> QED
  BY <1>1, <1>2 DEF Cell!Restart

\* Every step is a step or a stutter of every slot.
LEMMA CellStep ==
  ASSUME CodesInv, [CodesNext]_codesVars, NEW i \in SlotIndex
  PROVE  Cell(i)!Next \/ UNCHANGED Cell(i)!vars
<1>1. CASE PageOne
  BY <1>1, CellPages, FirstPage DEF PageOne
<1>2. CASE PageOneFails
  BY <1>2, CellPages DEF PageOneFails
<1>3. CASE PageTwo
  BY <1>3, CellPages DEF PageTwo
<1>4. CASE PageTwoFails
  BY <1>4, CellPages DEF PageTwoFails
<1>5. CASE TableSteps
  <2>1. access' \in Context /\ UNCHANGED <<codes, loaded>>
    BY <1>5, TableStep
  <2>2. ToStore(i)' \in Slot
    BY <2>1, EmptySlotFacts DEF ToStore, Context
  <2>3. SlotRead(codes[i])' = SlotRead(codes[i]) /\ (i \in loaded)' = (i \in loaded)
    BY <2>1
  <2> QED
    BY <2>2, <2>3 DEF Cell!Next, Cell!Change
<1>6. CASE CodePersistSaves
  BY <1>6 DEF CodePersistSaves, Cell!vars, ToStore
<1>7. CASE \E readable \in SUBSET SlotIndex : Boot(readable)
  BY <1>7, CellRestarts DEF Cell!Next
<1>8. CASE UNCHANGED codesVars
  BY <1>8 DEF codesVars, Cell!vars, ToStore
<1> QED
  BY <1>1, <1>2, <1>3, <1>4, <1>5, <1>6, <1>7, <1>8, CodesNextCases

\* Every code slot implements AttemptStore (persist_codes.h: an interrupted write
\* always leaves the previous code): whatever fails, and wherever the supply is
\* cut, a boot restores the last record saved or the one before it.
THEOREM CodesAreKept == CodesSpec => KeepsCodes
<1>1. CodesInit => \A i \in SlotIndex : Cell(i)!Init
  BY CellStarts
<1>2. CodesInv /\ [CodesNext]_codesVars
        => [\A i \in SlotIndex : Cell(i)!Next \/ UNCHANGED Cell(i)!vars]_codesVars
  BY CellStep
<1> QED
  BY <1>1, <1>2, CodesSafe, PTL DEF CodesSpec, KeepsCodes

-----------------------------------------------------------------------------
(* What the console answers *)

\* The save after which a command reports is a second page, the last one.
LEMMA LastSave ==
  ASSUME CodesInv, NEW cmds, Reports(cmds)
  PROVE  /\ PageTwo /\ Left(TRUE) = NoSaves /\ job' = NoJob
         /\ Current \in SlotIndex /\ job.cmd \in cmds /\ ~job.failed
<1>1. job.cmd \in cmds /\ job'.at = "idle" /\ ~job.failed
  BY DEF Reports
<1>2. ~PageOne
  <2> SUFFICES ASSUME PageOne PROVE FALSE
    OBVIOUS
  <2>1. job' = [job EXCEPT !.at = "page two"] /\ job \in Jobs
    BY FirstPage, CodesTypes DEF CodesInv
  <2> QED
    BY <1>1, <2>1 DEF Jobs
<1>3. PageTwo
  BY <1>2 DEF Reports
<1>4. Left(TRUE) = NoSaves /\ job' = NoJob
  <2>1. job \in Jobs /\ SaveReturns(TRUE)
    BY <1>3, CodesTypes DEF CodesInv, PageTwo
  <2>2. CASE Left(TRUE) # NoSaves
    <3>1. job' = [job EXCEPT !.todo = Left(TRUE), !.failed = job.failed \/ FALSE,
                             !.at = "page one"]
      BY <2>1, <2>2 DEF SaveReturns
    <3> QED
      BY <1>1, <2>1, <3>1 DEF Jobs
  <2> QED
    BY <2>1, <2>2 DEF SaveReturns
<1> QED
  BY <1>1, <1>3, <1>4, CurrentFacts DEF CodesInv, PageTwo

\* ReportedIsStored, in every state of the invariant.
LEMMA StoredAsReported ==
  ASSUME CodesInv
  PROVE  ReportedIsStored
<1> SUFFICES ASSUME Reports({"persist", "del"})
             PROVE  /\ SlotRead(codes'[Current]) = ToStore(Current)
                    /\ ~job.overtaken => ToStore(Current) = job.code
  BY DEF ReportedIsStored
<1>1. PageTwo /\ Current \in SlotIndex /\ job.cmd \in {"persist", "del"}
  BY LastSave
<1>2. access \in Context /\ codes \in Chip /\ NoDevCodes(codes)
  BY CodesTypes DEF CodesInv
<1>3. job.at # "idle" /\ job.todo[Current] > 0 /\ ~access.slots[Current].transient
  BY <1>1, CurrentFacts DEF CodesInv, PageTwo
<1>4. ~job.overtaken => access.slots[Current] = job.code
  BY <1>1, <1>3 DEF CodesInv, JobNames
<1>5. ToStore(Current) = access.slots[Current]
  BY <1>3 DEF ToStore
<1> QED
  BY <1>1, <1>2, <1>4, <1>5, WrittenCodeFacts DEF PageTwo

\* ErasedEverywhere, likewise.
LEMMA ErasedAsReported ==
  ASSUME CodesInv
  PROVE  ErasedEverywhere
<1> SUFFICES ASSUME Reports({"erase"}), NEW i \in SlotIndex,
                    ~access'.slots[i].occupied
             PROVE  \A b \in Buffers : codes'[i][b].ok /\ ~codes'[i][b].code.occupied
  BY DEF ErasedEverywhere
<1>1. /\ PageTwo /\ Left(TRUE) = NoSaves /\ job.cmd \in {"erase"} /\ ~job.failed
  BY LastSave
<1>2. Left(TRUE)[i] = 0 /\ ~access.slots[i].occupied /\ job.cmd = "erase"
  BY <1>1, NoSavesFacts DEF PageTwo
<1>3. \A b \in Buffers : ErasedBuffer(codes'[i][b])
  BY <1>1, <1>2, PageTwoReaches
<1> QED
  BY <1>3 DEF ErasedBuffer

\* What the console calls stored or erased (cmd_code): the code that `code
\* persist` names is what a boot would restore from that slot unless another
\* task changed the slot between the two sections; a deleted slot reads as empty;
\* and after an erase no buffer of an erased slot, not even the older one, holds
\* a code.
THEOREM CodesAnswersFit == CodesSpec => AnswersHoldUnlessOvertaken
<1>1. CodesInv => ReportedIsStored /\ ErasedEverywhere
  BY StoredAsReported, ErasedAsReported
<1> QED
  BY <1>1, CodesSafe, PTL DEF CodesSpec, AnswersHoldUnlessOvertaken
=============================================================================
