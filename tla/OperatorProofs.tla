--------------------------- MODULE OperatorProofs ---------------------------
(***************************************************************************)
(* Proofs about the operators that several models are built from: what the *)
(* comparisons of Millis decide, for every Wrap - each answers a question  *)
(* about the true times the readings were taken at, as long as these are   *)
(* not further apart than the comparison is meant for - and what the       *)
(* operations on the code table return, for every table.                   *)
(***************************************************************************)
EXTENDS GuestTable, Millis, SequenceTheorems, WellFoundedInduction, TLAPS

-----------------------------------------------------------------------------
(* Readings of the millisecond counter *)

\* A remainder is a reading.
LEMMA ModInRange ==
  ASSUME NEW a \in Int
  PROVE  a % Wrap \in Reading
BY WrapAssumption DEF Reading

\* The remainder is the only reading that differs from the number by a
\* multiple of Wrap.
LEMMA ModUnique ==
  ASSUME NEW a \in Int, NEW q \in Int, NEW r \in Reading, a = Wrap * q + r
  PROVE  a % Wrap = r
BY WrapAssumption DEF Reading

\* A number is Wrap times its quotient plus its remainder.
LEMMA ModSplit ==
  ASSUME NEW a \in Int
  PROVE  \E q \in Int : a = Wrap * q + (a % Wrap)
<1>1. a \div Wrap \in Int /\ a = Wrap * (a \div Wrap) + (a % Wrap)
  BY WrapAssumption
<1> QED
  BY <1>1

\* Numbers that differ by a multiple of Wrap have the same remainder.
LEMMA ModShift ==
  ASSUME NEW a \in Int, NEW k \in Int
  PROVE  (a + Wrap * k) % Wrap = a % Wrap
<1>1. PICK q \in Int : a = Wrap * q + (a % Wrap)
  BY ModSplit
<1>2. a % Wrap \in Reading /\ q + k \in Int /\ a + Wrap * k \in Int
  BY ModInRange, WrapAssumption
<1>3. a + Wrap * k = Wrap * (q + k) + (a % Wrap)
  BY <1>1, <1>2, WrapAssumption DEF Reading
<1> QED
  BY <1>2, <1>3, ModUnique

\* Unsigned subtraction of two readings: the difference of the times they
\* were taken at, modulo Wrap.
LEMMA ModDifference ==
  ASSUME NEW a \in Int, NEW b \in Int
  PROVE  ((a % Wrap) - (b % Wrap)) % Wrap = (a - b) % Wrap
<1>1. PICK p \in Int : a = Wrap * p + (a % Wrap)
  BY ModSplit
<1>2. PICK q \in Int : b = Wrap * q + (b % Wrap)
  BY ModSplit
<1>3. a % Wrap \in Int /\ b % Wrap \in Int
  BY WrapAssumption
<1>4. q - p \in Int /\ a - b \in Int
  OBVIOUS
<1>5. (a % Wrap) - (b % Wrap) = (a - b) + Wrap * (q - p)
  BY <1>1, <1>2, <1>3, WrapAssumption
<1> QED
  BY <1>4, <1>5, ModShift

\* A reading plus a span, wrapped: the reading at the later time.
LEMMA ModSum ==
  ASSUME NEW a \in Int, NEW d \in Int
  PROVE  ((a % Wrap) + d) % Wrap = (a + d) % Wrap
<1>1. PICK p \in Int : a = Wrap * p + (a % Wrap)
  BY ModSplit
<1>2. a % Wrap \in Int /\ -p \in Int /\ a + d \in Int
  BY WrapAssumption
<1>3. (a % Wrap) + d = (a + d) + Wrap * (-p)
  <2> DEFINE r == a % Wrap
  <2>1. a = Wrap * p + r /\ r \in Int
    BY <1>1, <1>2
  <2> HIDE DEF r
  <2>2. r + d = (a + d) + Wrap * (-p)
    BY <2>1, WrapAssumption
  <2> QED
    BY <2>2 DEF r
<1> QED
  BY <1>2, <1>3, ModShift

\* A number that is a reading is its own remainder.
LEMMA ModSmall ==
  ASSUME NEW a \in Reading
  PROVE  a % Wrap = a
BY WrapAssumption DEF Reading

\* The remainder of a negative number that is not below -Wrap.
LEMMA ModNegative ==
  ASSUME NEW a \in 1..Wrap
  PROVE  (-a) % Wrap = IF a = Wrap THEN 0 ELSE Wrap - a
BY WrapAssumption

\* One unit of time later, the time since a reading is one more, until the
\* reading comes round.
LEMMA OneUnitLater ==
  ASSUME NEW now \in Reading, NEW since \in Reading,
         ((now - since) % Wrap) + 1 < Wrap
  PROVE  (((now + 1) % Wrap) - since) % Wrap = ((now - since) % Wrap) + 1
<1>1. now \in Int /\ since \in Int /\ now + 1 \in Int /\ now - since \in Int /\ 1 \in Int
  BY WrapAssumption DEF Reading
<1>2. since % Wrap = since
  BY ModSmall
<1>3. (((now + 1) % Wrap) - (since % Wrap)) % Wrap = (now + 1 - since) % Wrap
  BY <1>1, ModDifference
<1>4. (((now - since) % Wrap) + 1) % Wrap = (now - since + 1) % Wrap
  BY <1>1, ModSum
<1>5. ((now - since) % Wrap) + 1 \in Reading
  <2>1. (now - since) % Wrap \in Reading
    BY <1>1, ModInRange
  <2> QED
    BY <2>1, WrapAssumption DEF Reading
<1>6. (((now - since) % Wrap) + 1) % Wrap = ((now - since) % Wrap) + 1
  BY <1>5, ModSmall
<1>7. now + 1 - since = now - since + 1
  BY <1>1
<1> QED
  BY <1>2, <1>3, <1>4, <1>6, <1>7

-----------------------------------------------------------------------------
\* elapsed() of lock_logic.c and of prov_logic.c is right for true times less
\* than Wrap apart: it holds exactly when the span has passed since then.
THEOREM ElapsedIsTrue ==
  ASSUME NEW now \in Int, NEW since \in Int, NEW span \in Int,
         since <= now, now - since < Wrap
  PROVE  Elapsed(now % Wrap, since % Wrap, span) <=> now - since >= span
<1>1. now - since \in Reading
  BY WrapAssumption DEF Reading
<1>2. ((now % Wrap) - (since % Wrap)) % Wrap = now - since
  BY <1>1, ModDifference, ModSmall
<1> QED
  BY <1>2 DEF Elapsed

\* The signed comparison with a deadline is right for true times at most half
\* of Wrap apart: a deadline that has passed is seen as reached.
THEOREM ReachedIsTrue ==
  ASSUME NEW now \in Int, NEW deadline \in Int,
         2 * (now - deadline) <= Wrap, 2 * (deadline - now) < Wrap
  PROVE  Reached(deadline % Wrap, now % Wrap) <=> now >= deadline
<1> DEFINE d == ((deadline % Wrap) - (now % Wrap)) % Wrap
<1>1. d = (deadline - now) % Wrap
  BY ModDifference
<1>2. CASE now < deadline
  <2>1. deadline - now \in Reading
    BY <1>2, WrapAssumption DEF Reading
  <2>2. d = deadline - now
    BY <1>1, <2>1, ModSmall
  <2> HIDE DEF d
  <2>3. ~(d = 0 \/ 2 * d >= Wrap)
    BY <1>2, <2>2, WrapAssumption
  <2> QED
    BY <1>2, <2>3 DEF Reached, d
<1>3. CASE now = deadline
  <2>1. deadline - now = 0 /\ 0 \in Reading
    BY <1>3, WrapAssumption DEF Reading
  <2>2. d = 0
    BY <1>1, <2>1, ModSmall
  <2> HIDE DEF d
  <2> QED
    BY <1>3, <2>2 DEF Reached, d
<1>4. CASE now > deadline
  <2> DEFINE a == now - deadline
  <2>1. a \in 1..Wrap /\ deadline - now = -a /\ 2 * a <= Wrap /\ a # Wrap
    BY <1>4, WrapAssumption
  <2>2. (-a) % Wrap = Wrap - a
    BY <2>1, ModNegative
  <2>3. d = Wrap - a
    BY <1>1, <2>1, <2>2
  <2> HIDE DEF d, a
  <2>4. 2 * d >= Wrap
    BY <2>1, <2>3, WrapAssumption
  <2> QED
    BY <1>4, <2>4 DEF Reached, d
<1> QED
  BY <1>2, <1>3, <1>4

-----------------------------------------------------------------------------
(* The code table *)

\* A non-empty set of natural numbers has a least element.
LEMMA LeastNatural ==
  ASSUME NEW S \in SUBSET Nat, S # {}
  PROVE  \E x \in S : \A y \in S : x <= y
<1>1. PICK x \in S : \A y \in S : <<y, x>> \notin OpToRel(<, Nat)
  BY WFMin, NatLessThanWellFounded, Zenon
<1>2. \A y \in S : ~(y < x)
  BY <1>1 DEF OpToRel
<1> QED
  BY <1>2

\* A non-empty set of slots has a first one.
LEMMA FirstIsMember ==
  ASSUME NEW S \in SUBSET SlotIndex, S # {}
  PROVE  FirstOf(S) \in S
<1>1. S \subseteq Nat
  BY TableAssumption DEF SlotIndex
<1> QED
  BY <1>1, LeastNatural DEF FirstOf

\* ... and a last one.
LEMMA LastIsMember ==
  ASSUME NEW S \in SUBSET SlotIndex, S # {}
  PROVE  LastOf(S) \in S
<1> DEFINE Above == {Slots - i : i \in S}
<1>1. /\ Slots \in Nat /\ S \subseteq Nat
      /\ \A i \in S : i \in Nat /\ i <= Slots
  BY TableAssumption DEF SlotIndex
<1>2. Above \in SUBSET Nat /\ Above # {}
  <2>1. \A i \in S : Slots - i \in Nat
    BY <1>1
  <2> QED
    BY <2>1
<1> HIDE DEF Above
<1>3. PICK m \in Above : \A n \in Above : m <= n
  BY <1>2, LeastNatural
<1>4. PICK last \in S : m = Slots - last
  BY <1>3 DEF Above
<1>5. \A j \in S : j <= last
  <2>1. \A j \in S : Slots - j \in Above
    BY DEF Above
  <2>2. \A j \in S : Slots - last <= Slots - j
    BY <1>3, <1>4, <2>1
  <2> QED
    BY <1>1, <2>2
<1> QED
  BY <1>5 DEF LastOf

\* ac_upsert, or ac_upsert_transient: it is refused for an empty window, or
\* when the table is full and does not know the id; else it writes the entry
\* over the id's slot, or over a free one if the id has none.
LEMMA UpsertCases ==
  ASSUME NEW ac \in Context, NEW id \in Ids, NEW h \in Hashes,
         NEW from \in Int, NEW until \in Int, NEW transient \in BOOLEAN
  PROVE  LET up == Upsert(ac, id, h, from, until, transient).ac
             entry == [occupied |-> TRUE, transient |-> transient, id |-> id,
                       hash |-> h, valid_from |-> from, valid_until |-> until]
         IN  /\ up \in Context
             /\ \/ /\ up = ac
                   /\ until <= from \/ (ById(ac, id) = {} /\ FreeSlots(ac) = {})
                \/ /\ ~(until <= from)
                   /\ \E idx \in SlotIndex :
                        /\ idx \in ById(ac, id)
                             \/ (ById(ac, id) = {} /\ idx \in FreeSlots(ac))
                        /\ \A i \in SlotIndex :
                             up.slots[i] = IF i = idx THEN entry ELSE ac.slots[i]
<1> DEFINE idx == TargetSlot(ac, id)
           entry == [occupied |-> TRUE, transient |-> transient, id |-> id,
                     hash |-> h, valid_from |-> from, valid_until |-> until]
           up == Upsert(ac, id, h, from, until, transient).ac
<1>1. ById(ac, id) \subseteq SlotIndex /\ FreeSlots(ac) \subseteq SlotIndex /\ 0 \notin SlotIndex
  BY DEF ById, FreeSlots, SlotIndex
<1>2. CASE until <= from \/ idx = 0
  <2>1. up = ac
    BY <1>2 DEF Upsert
  <2>2. idx = 0 => ById(ac, id) = {} /\ FreeSlots(ac) = {}
    BY <1>1, FirstIsMember DEF TargetSlot
  <2> HIDE DEF up, idx
  <2> QED
    BY <1>2, <2>1, <2>2 DEF up
<1>3. CASE ~(until <= from \/ idx = 0)
  <2>1. up = [ac EXCEPT !.slots[idx] = entry]
    BY <1>3 DEF Upsert
  <2>2. /\ idx \in SlotIndex
        /\ idx \in ById(ac, id) \/ (ById(ac, id) = {} /\ idx \in FreeSlots(ac))
    BY <1>1, <1>3, FirstIsMember DEF TargetSlot
  <2>3. entry \in Slot
    BY DEF Slot
  <2> HIDE DEF idx, entry, up
  <2>4. ac.slots \in [SlotIndex -> Slot]
    BY DEF Context
  <2>5. /\ up.slots = [ac.slots EXCEPT ![idx] = entry]
        /\ up = [ac EXCEPT !.slots = [ac.slots EXCEPT ![idx] = entry]]
    BY <2>1 DEF Context
  <2>6. [ac.slots EXCEPT ![idx] = entry] \in [SlotIndex -> Slot]
    BY <2>3, <2>4
  <2>7. up \in Context
    BY <2>5, <2>6 DEF Context
  <2>8. \A i \in SlotIndex :
          up.slots[i] = IF i = idx THEN entry ELSE ac.slots[i]
    BY <2>4, <2>5
  <2> QED
    BY <1>3, <2>2, <2>7, <2>8 DEF up, entry
<1> QED
  BY <1>2, <1>3

\* ac_upsert on a table without two slots for one id: it gives no id a second
\* slot, and every slot it does not leave alone holds the new entry.
LEMMA UpsertFacts ==
  ASSUME NEW ac \in Context, NEW id \in Ids, NEW h \in Hashes,
         NEW from \in Int, NEW until \in Int,
         \A i, j \in SlotIndex :
           ac.slots[i].occupied /\ ac.slots[j].occupied
             /\ ac.slots[i].id = ac.slots[j].id => i = j
  PROVE  LET up == AcUpsert(ac, id, h, from, until).ac
         IN  /\ up \in Context
             /\ \A i \in SlotIndex :
                  \/ up.slots[i] = ac.slots[i]
                  \/ /\ up.slots[i].occupied /\ ~up.slots[i].transient
                     /\ up.slots[i].id = id /\ up.slots[i].hash = h
             /\ \A i, j \in SlotIndex :
                  up.slots[i].occupied /\ up.slots[j].occupied
                    /\ up.slots[i].id = up.slots[j].id => i = j
<1> DEFINE entry == [occupied |-> TRUE, transient |-> FALSE, id |-> id,
                     hash |-> h, valid_from |-> from, valid_until |-> until]
           up == AcUpsert(ac, id, h, from, until).ac
<1>1. PICK no \in BOOLEAN : no = FALSE
  OBVIOUS
<1>2. /\ up \in Context
      /\ \/ up = ac
         \/ \E idx \in SlotIndex :
              /\ idx \in ById(ac, id) \/ (ById(ac, id) = {} /\ idx \in FreeSlots(ac))
              /\ \A i \in SlotIndex :
                   up.slots[i] = IF i = idx THEN entry ELSE ac.slots[i]
  <2> DEFINE one == Upsert(ac, id, h, from, until, no).ac
         new == [occupied |-> TRUE, transient |-> no, id |-> id,
                 hash |-> h, valid_from |-> from, valid_until |-> until]
  <2>1. up = one /\ entry = new
    BY <1>1 DEF AcUpsert
  <2>2. /\ one \in Context
        /\ \/ /\ one = ac
              /\ until <= from \/ (ById(ac, id) = {} /\ FreeSlots(ac) = {})
           \/ /\ ~(until <= from)
              /\ \E idx \in SlotIndex :
                   /\ idx \in ById(ac, id)
                        \/ (ById(ac, id) = {} /\ idx \in FreeSlots(ac))
                   /\ \A i \in SlotIndex :
                        one.slots[i] = IF i = idx THEN new ELSE ac.slots[i]
    BY UpsertCases
  <2> HIDE DEF up, one, entry, new
  <2> QED
    BY <2>1, <2>2
<1>3. entry.occupied /\ ~entry.transient /\ entry.id = id /\ entry.hash = h
  OBVIOUS
<1> HIDE DEF up, entry
<1>4. CASE up = ac
  BY <1>2, <1>4 DEF up
<1>5. CASE up # ac
  <2>1. PICK idx \in SlotIndex :
          /\ idx \in ById(ac, id) \/ (ById(ac, id) = {} /\ idx \in FreeSlots(ac))
          /\ \A i \in SlotIndex :
               up.slots[i] = IF i = idx THEN entry ELSE ac.slots[i]
    BY <1>2, <1>5
  <2>2. ASSUME NEW i \in SlotIndex, i # idx, ac.slots[i].occupied
        PROVE  ac.slots[i].id # id
    BY <2>1, <2>2 DEF ById, FreeSlots
  <2>3. \A i, j \in SlotIndex :
          up.slots[i].occupied /\ up.slots[j].occupied
            /\ up.slots[i].id = up.slots[j].id => i = j
    BY <1>3, <2>1, <2>2
  <2> QED
    BY <1>2, <1>3, <2>1, <2>3 DEF up
<1> QED
  BY <1>4, <1>5

\* ac_revoke empties the first slot of the id, and leaves every other alone.
LEMMA RevokeCases ==
  ASSUME NEW ac \in Context, NEW id
  PROVE  LET re == AcRevoke(ac, id)
         IN  /\ re \in Context
             /\ \/ re = ac /\ ById(ac, id) = {}
                \/ \E idx \in ById(ac, id) : \A i \in SlotIndex :
                     re.slots[i] = IF i = idx THEN EmptySlot ELSE ac.slots[i]
             /\ \A i \in SlotIndex : re.slots[i].occupied => re.slots[i] = ac.slots[i]
<1> DEFINE idx == FirstOf(ById(ac, id))
           re == AcRevoke(ac, id)
<1>1. CASE ById(ac, id) = {}
  <2>1. re = ac
    BY <1>1 DEF AcRevoke
  <2> HIDE DEF re
  <2> QED
    BY <1>1, <2>1 DEF re
<1>2. CASE ById(ac, id) # {}
  <2>1. re = [ac EXCEPT !.slots[idx] = EmptySlot]
    BY <1>2 DEF AcRevoke
  <2>2. ById(ac, id) \subseteq SlotIndex
    BY DEF ById
  <2>3. idx \in ById(ac, id)
    BY <1>2, <2>2, FirstIsMember
  <2>4. EmptySlot \in Slot /\ ~EmptySlot.occupied
    BY DEF Slot, EmptySlot
  <2> HIDE DEF idx, re
  <2>5. ac.slots \in [SlotIndex -> Slot]
    BY DEF Context
  <2>6. re = [ac EXCEPT !.slots = [ac.slots EXCEPT ![idx] = EmptySlot]]
    BY <2>1 DEF Context
  <2>7. [ac.slots EXCEPT ![idx] = EmptySlot] \in [SlotIndex -> Slot]
    BY <2>4, <2>5
  <2>8. re \in Context /\ re.slots = [ac.slots EXCEPT ![idx] = EmptySlot]
    BY <2>6, <2>7 DEF Context
  <2>9. \A i \in SlotIndex :
          re.slots[i] = IF i = idx THEN EmptySlot ELSE ac.slots[i]
    BY <2>5, <2>8
  <2> QED
    BY <2>3, <2>4, <2>8, <2>9 DEF re
<1> QED
  BY <1>1, <1>2

\* On a table without two slots for one id, the id has no slot left.
LEMMA RevokeFacts ==
  ASSUME NEW ac \in Context, NEW id,
         \A i, j \in SlotIndex :
           ac.slots[i].occupied /\ ac.slots[j].occupied
             /\ ac.slots[i].id = ac.slots[j].id => i = j
  PROVE  LET re == AcRevoke(ac, id)
         IN  /\ re \in Context
             /\ \A i \in SlotIndex : re.slots[i].occupied =>
                  re.slots[i] = ac.slots[i] /\ re.slots[i].id # id
<1> DEFINE re == AcRevoke(ac, id)
<1>1. /\ re \in Context
      /\ \/ re = ac /\ ById(ac, id) = {}
         \/ \E idx \in ById(ac, id) : \A i \in SlotIndex :
              re.slots[i] = IF i = idx THEN EmptySlot ELSE ac.slots[i]
      /\ \A i \in SlotIndex : re.slots[i].occupied => re.slots[i] = ac.slots[i]
  BY RevokeCases
<1> HIDE DEF re
<1>2. ~EmptySlot.occupied
  BY DEF EmptySlot
<1>3. ASSUME NEW i \in SlotIndex, re.slots[i].occupied PROVE re.slots[i].id # id
  <2>1. CASE ById(ac, id) = {}
    BY <1>1, <1>3, <2>1 DEF ById
  <2>2. CASE ById(ac, id) # {}
    <3>1. PICK idx \in ById(ac, id) : \A j \in SlotIndex :
            re.slots[j] = IF j = idx THEN EmptySlot ELSE ac.slots[j]
      BY <1>1, <2>2
    <3>2. i # idx /\ ac.slots[i].occupied /\ re.slots[i] = ac.slots[i]
      BY <1>2, <1>3, <3>1
    <3> QED
      BY <3>1, <3>2 DEF ById
  <2> QED
    BY <2>1, <2>2
<1> QED
  BY <1>1, <1>3 DEF re

-----------------------------------------------------------------------------
\* The loop of sync_apply: there is a function from the entries installed so
\* far to the table, each value from the one before, and Install is the last.
LEMMA InstallUnfolds ==
  ASSUME NEW ac, NEW set, Len(set) \in Nat
  PROVE  \E f : /\ f = [n \in 0..Len(set) |->
                         IF n = 0 THEN ac
                         ELSE AcUpsert(f[n - 1], set[n].id, set[n].hash,
                                       set[n].valid_from, set[n].valid_until).ac]
                /\ Install(ac, set) = f[Len(set)]
<1> DEFINE next(x, n) == AcUpsert(x, set[n].id, set[n].hash,
                                  set[n].valid_from, set[n].valid_until).ac
           Solves(f, k) == f = [n \in 0..k |-> IF n = 0 THEN ac ELSE next(f[n - 1], n)]
           T == {k \in Nat : ~\E f : Solves(f, k)}
<1>1. T = {}
  <2> SUFFICES ASSUME T # {} PROVE FALSE
    OBVIOUS
  <2>1. PICK k \in T : \A j \in T : k <= j
    BY LeastNatural
  <2> HIDE DEF next
  <2>2. CASE k = 0
    <3>1. Solves([n \in 0..0 |-> ac], 0)
      OBVIOUS
    <3> QED
      BY <2>1, <2>2, <3>1
  <2>3. CASE k # 0
    <3>1. k \in Nat /\ k - 1 \in Nat /\ ~(k <= k - 1)
      BY <2>3
    <3>2. k - 1 \notin T
      <4> HIDE DEF T
      <4> QED
        BY <2>1, <3>1
    <3>3. PICK f : Solves(f, k - 1)
      BY <3>1, <3>2
    <3> DEFINE g == [n \in 0..k |-> IF n = k THEN next(f[k - 1], k) ELSE f[n]]
    <3>4. ASSUME NEW n \in 0..k
          PROVE  g[n] = IF n = 0 THEN ac ELSE next(g[n - 1], n)
      <4>1. CASE n = k
        <5>1. g[n - 1] = f[n - 1]
          BY <3>1, <4>1
        <5> QED
          BY <2>3, <4>1, <5>1
      <4>2. CASE n # k
        <5>1. n \in 0..(k - 1) /\ g[n] = f[n] /\ (n # 0 => g[n - 1] = f[n - 1])
          BY <3>1, <4>2
        <5>2. f[n] = IF n = 0 THEN ac ELSE next(f[n - 1], n)
          BY <3>3, <5>1
        <5> QED
          BY <5>1, <5>2
      <4> QED
        BY <4>1, <4>2
    <3>5. Solves(g, k)
      BY <3>4
    <3> QED
      BY <2>1, <3>5
  <2> QED
    BY <2>2, <2>3
<1>2. \E f : Solves(f, Len(set))
  BY <1>1
<1> DEFINE h == CHOOSE f : Solves(f, Len(set))
<1>3. Solves(h, Len(set))
  BY <1>2
<1>4. Install(ac, set) = h[Len(set)]
  BY DEF Install
<1> QED
  BY <1>3, <1>4

-----------------------------------------------------------------------------
(* The guests' codes and the console's own *)

\* The fields of a slot, or of an entry, that make a guest's code.
LEMMA GuestsMember ==
  ASSUME NEW ac, NEW e
  PROVE  e \in Guests(ac) <=>
           \E i \in SlotIndex :
             /\ ac.slots[i].occupied /\ ~ac.slots[i].transient
             /\ e = [id |-> ac.slots[i].id, hash |-> ac.slots[i].hash,
                     valid_from |-> ac.slots[i].valid_from,
                     valid_until |-> ac.slots[i].valid_until]
BY DEF Guests

\* ac_upsert adds its entry to the guests' codes, at most; ac_upsert_transient
\* and ac_revoke add none.
LEMMA UpsertGuests ==
  ASSUME NEW ac \in Context, NEW id \in Ids, NEW h \in Hashes,
         NEW from \in Int, NEW until \in Int
  PROVE  LET up == AcUpsert(ac, id, h, from, until).ac
         IN  /\ up \in Context
             /\ Guests(up) \subseteq Guests(ac) \union
                  {[id |-> id, hash |-> h, valid_from |-> from, valid_until |-> until]}
             /\ \A i \in SlotIndex : up.slots[i].occupied /\ up.slots[i].transient =>
                  up.slots[i] = ac.slots[i]
<1> DEFINE up == AcUpsert(ac, id, h, from, until).ac
           e == [id |-> id, hash |-> h, valid_from |-> from, valid_until |-> until]
<1>1. PICK no \in BOOLEAN : no = FALSE
  OBVIOUS
<1> DEFINE one == Upsert(ac, id, h, from, until, no).ac
           entry == [occupied |-> TRUE, transient |-> no, id |-> id,
                     hash |-> h, valid_from |-> from, valid_until |-> until]
<1>2. /\ one \in Context
      /\ \/ /\ one = ac
            /\ until <= from \/ (ById(ac, id) = {} /\ FreeSlots(ac) = {})
         \/ /\ ~(until <= from)
            /\ \E idx \in SlotIndex :
                 /\ idx \in ById(ac, id) \/ (ById(ac, id) = {} /\ idx \in FreeSlots(ac))
                 /\ \A i \in SlotIndex :
                      one.slots[i] = IF i = idx THEN entry ELSE ac.slots[i]
  BY UpsertCases
<1>3. /\ ~entry.transient /\ entry.id = id /\ entry.hash = h
      /\ entry.valid_from = from /\ entry.valid_until = until
  BY <1>1
<1>4. up = one
  BY <1>1 DEF AcUpsert
<1> HIDE DEF up, one, entry
<1>5. \A i \in SlotIndex : up.slots[i] = ac.slots[i] \/ up.slots[i] = entry
  BY <1>2, <1>4
<1>6. ASSUME NEW g \in Guests(up) PROVE g \in Guests(ac) \union {e}
  <2>1. PICK i \in SlotIndex :
          /\ up.slots[i].occupied /\ ~up.slots[i].transient
          /\ g = [id |-> up.slots[i].id, hash |-> up.slots[i].hash,
                  valid_from |-> up.slots[i].valid_from,
                  valid_until |-> up.slots[i].valid_until]
    BY GuestsMember
  <2>2. CASE up.slots[i] = entry
    BY <1>3, <2>1, <2>2
  <2>3. CASE up.slots[i] = ac.slots[i]
    <3>1. g \in Guests(ac)
      BY <2>1, <2>3, GuestsMember
    <3> QED
      BY <3>1
  <2> QED
    BY <1>5, <2>2, <2>3
<1>7. \A i \in SlotIndex : up.slots[i].occupied /\ up.slots[i].transient =>
        up.slots[i] = ac.slots[i]
  BY <1>3, <1>5
<1> HIDE DEF e
<1> QED
  BY <1>2, <1>4, <1>6, <1>7 DEF up, e

\* ac_upsert_transient adds no guest's code: a slot it does not leave alone holds
\* a dev code of its own id.
LEMMA TransientGuests ==
  ASSUME NEW ac \in Context, NEW id \in Ids, NEW h \in Hashes,
         NEW from \in Int, NEW until \in Int
  PROVE  LET up == AcUpsertTransient(ac, id, h, from, until).ac
         IN  /\ up \in Context
             /\ Guests(up) \subseteq Guests(ac)
             /\ \A i \in SlotIndex : up.slots[i].occupied =>
                  up.slots[i] = ac.slots[i] \/ up.slots[i].id = id
<1> DEFINE up == AcUpsertTransient(ac, id, h, from, until).ac
           end == IF until > from + TransientMax THEN from + TransientMax ELSE until
<1>1. PICK yes \in BOOLEAN : yes = TRUE
  OBVIOUS
<1>2. end \in Int
  BY PolicyAssumption
<1>3. up = Upsert(ac, id, h, from, end, yes).ac
  BY <1>1 DEF AcUpsertTransient
<1> HIDE DEF end
<1> DEFINE one == Upsert(ac, id, h, from, end, yes).ac
           entry == [occupied |-> TRUE, transient |-> yes, id |-> id,
                     hash |-> h, valid_from |-> from, valid_until |-> end]
<1>4. /\ one \in Context
      /\ \/ /\ one = ac
            /\ end <= from \/ (ById(ac, id) = {} /\ FreeSlots(ac) = {})
         \/ /\ ~(end <= from)
            /\ \E idx \in SlotIndex :
                 /\ idx \in ById(ac, id) \/ (ById(ac, id) = {} /\ idx \in FreeSlots(ac))
                 /\ \A i \in SlotIndex :
                      one.slots[i] = IF i = idx THEN entry ELSE ac.slots[i]
  BY <1>2, UpsertCases
<1>5. entry.transient /\ entry.id = id /\ up = one
  BY <1>1, <1>3
<1> HIDE DEF up, one, entry
<1>6. \A i \in SlotIndex : up.slots[i] = ac.slots[i] \/ up.slots[i] = entry
  BY <1>4, <1>5
<1>7. ASSUME NEW g \in Guests(up) PROVE g \in Guests(ac)
  <2>1. PICK i \in SlotIndex :
          /\ up.slots[i].occupied /\ ~up.slots[i].transient
          /\ g = [id |-> up.slots[i].id, hash |-> up.slots[i].hash,
                  valid_from |-> up.slots[i].valid_from,
                  valid_until |-> up.slots[i].valid_until]
    BY <1>7, GuestsMember
  <2>2. up.slots[i] = ac.slots[i]
    BY <1>5, <1>6, <2>1
  <2> QED
    BY <2>1, <2>2, GuestsMember
<1> QED
  BY <1>4, <1>5, <1>6, <1>7 DEF up

\* The first half of sync_apply: no guest's code is left, and every other slot
\* is left alone.
LEMMA WithoutGuestsFacts ==
  ASSUME NEW ac \in Context
  PROVE  LET wo == WithoutGuests(ac)
         IN  /\ wo \in Context
             /\ Guests(wo) = {}
             /\ \A i \in SlotIndex :
                  IF ac.slots[i].occupied /\ ac.slots[i].transient
                  THEN wo.slots[i] = ac.slots[i] ELSE ~wo.slots[i].occupied
<1> DEFINE wo == WithoutGuests(ac)
           free == [i \in SlotIndex |->
                      IF ac.slots[i].occupied /\ ~ac.slots[i].transient
                      THEN EmptySlot ELSE ac.slots[i]]
<1>1. wo = [ac EXCEPT !.slots = free]
  BY DEF WithoutGuests
<1>2. EmptySlot \in Slot /\ ~EmptySlot.occupied
  BY DEF EmptySlot, Slot
<1>3. free \in [SlotIndex -> Slot]
  BY <1>2 DEF Context
<1>4. \A i \in SlotIndex : IF ac.slots[i].occupied /\ ~ac.slots[i].transient
                           THEN free[i] = EmptySlot ELSE free[i] = ac.slots[i]
  OBVIOUS
<1> HIDE DEF wo, free
<1>5. wo \in Context /\ wo.slots = free
  BY <1>1, <1>3 DEF Context
<1>6. \A i \in SlotIndex :
        IF ac.slots[i].occupied /\ ac.slots[i].transient
        THEN wo.slots[i] = ac.slots[i] ELSE ~wo.slots[i].occupied
  BY <1>2, <1>4, <1>5
<1>7. Guests(wo) = {}
  BY <1>6, GuestsMember
<1> QED
  BY <1>5, <1>6, <1>7 DEF wo

\* Revoking a code leaves no guest's code that was not there.
LEMMA RevokeGuests ==
  ASSUME NEW ac \in Context, NEW id
  PROVE  Guests(AcRevoke(ac, id)) \subseteq Guests(ac)
<1> DEFINE re == AcRevoke(ac, id)
<1>1. \A i \in SlotIndex : re.slots[i].occupied => re.slots[i] = ac.slots[i]
  BY RevokeCases
<1> HIDE DEF re
<1>2. ASSUME NEW g \in Guests(re) PROVE g \in Guests(ac)
  <2>1. PICK i \in SlotIndex :
          /\ re.slots[i].occupied /\ ~re.slots[i].transient
          /\ g = [id |-> re.slots[i].id, hash |-> re.slots[i].hash,
                  valid_from |-> re.slots[i].valid_from,
                  valid_until |-> re.slots[i].valid_until]
    BY <1>2, GuestsMember
  <2> QED
    BY <1>1, <2>1, GuestsMember
<1> QED
  BY <1>2 DEF re

\* What the backend's sets list.
Codes == [id : Ids, hash : Hashes, valid_from : Int, valid_until : Int]

\* Installing a set adds the set's codes at most, and leaves a dev code as it is
\* or gives its slot to a guest.
LEMMA InstallGuests ==
  ASSUME NEW ac \in Context, Guests(ac) = {}, NEW set \in Seq(Codes)
  PROVE  /\ Install(ac, set) \in Context
         /\ Guests(Install(ac, set)) \subseteq {set[k] : k \in 1..Len(set)}
         /\ \A i \in SlotIndex :
              Install(ac, set).slots[i].occupied /\ Install(ac, set).slots[i].transient
                => Install(ac, set).slots[i] = ac.slots[i]
<1>1. Len(set) \in Nat
  BY LenProperties
<1>2. PICK f : /\ f = [n \in 0..Len(set) |->
                        IF n = 0 THEN ac
                        ELSE AcUpsert(f[n - 1], set[n].id, set[n].hash,
                                      set[n].valid_from, set[n].valid_until).ac]
               /\ Install(ac, set) = f[Len(set)]
  BY <1>1, InstallUnfolds
<1> DEFINE P(n) == /\ f[n] \in Context
                   /\ Guests(f[n]) \subseteq {set[k] : k \in 1..Len(set)}
                   /\ \A i \in SlotIndex : f[n].slots[i].occupied /\ f[n].slots[i].transient
                        => f[n].slots[i] = ac.slots[i]
           T == {n \in 0..Len(set) : ~P(n)}
<1>3. P(0)
  <2>1. f[0] = ac
    BY <1>1, <1>2
  <2> QED
    BY <2>1
<1>4. ASSUME NEW n \in 1..Len(set), P(n - 1) PROVE P(n)
  <2> DEFINE e == set[n]
             up == AcUpsert(f[n - 1], e.id, e.hash, e.valid_from, e.valid_until).ac
  <2>1. e \in Codes
    BY ElementOfSeq
  <2>2. /\ e.id \in Ids /\ e.hash \in Hashes /\ e.valid_from \in Int /\ e.valid_until \in Int
        /\ e = [id |-> e.id, hash |-> e.hash, valid_from |-> e.valid_from,
                valid_until |-> e.valid_until]
    BY <2>1 DEF Codes
  <2>3. f[n] = up
    BY <1>1, <1>2
  <2>4. e \in {set[k] : k \in 1..Len(set)}
    OBVIOUS
  <2> HIDE DEF e
  <2>5. /\ up \in Context
        /\ Guests(up) \subseteq Guests(f[n - 1]) \union
             {[id |-> e.id, hash |-> e.hash, valid_from |-> e.valid_from,
               valid_until |-> e.valid_until]}
        /\ \A i \in SlotIndex : up.slots[i].occupied /\ up.slots[i].transient =>
             up.slots[i] = f[n - 1].slots[i]
    BY <1>4, <2>2, UpsertGuests
  <2> HIDE DEF up
  <2>6. Guests(f[n]) \subseteq {set[k] : k \in 1..Len(set)}
    BY <1>4, <2>2, <2>3, <2>4, <2>5
  <2> QED
    BY <1>4, <2>3, <2>5, <2>6
<1>5. T = {}
  <2> SUFFICES ASSUME T # {} PROVE FALSE
    OBVIOUS
  <2> HIDE DEF P
  <2>1. T \subseteq Nat
    BY <1>1
  <2>2. PICK n \in T : \A m \in T : n <= m
    BY <2>1, LeastNatural
  <2>3. n \in 0..Len(set) /\ ~P(n)
    BY <2>2
  <2>4. n # 0 /\ n \in 1..Len(set) /\ n - 1 \in 0..Len(set) /\ ~(n <= n - 1)
    BY <1>1, <1>3, <2>3
  <2>5. P(n - 1)
    BY <2>2, <2>4
  <2> QED
    BY <1>4, <2>3, <2>4, <2>5
<1>6. P(Len(set))
  <2>1. Len(set) \in 0..Len(set)
    BY <1>1
  <2> HIDE DEF P
  <2> QED
    BY <1>5, <2>1
<1> QED
  BY <1>2, <1>6

-----------------------------------------------------------------------------
\* ac_upsert of an id the table does not know: the code takes a free slot, if
\* there is one and its window is not empty, and every other slot stays.
LEMMA UpsertFresh ==
  ASSUME NEW ac \in Context, NEW id \in Ids, NEW h \in Hashes,
         NEW from \in Int, NEW until \in Int, ById(ac, id) = {}
  PROVE  LET up == AcUpsert(ac, id, h, from, until).ac
         IN  /\ up \in Context
             /\ \A i \in SlotIndex :
                  \/ up.slots[i] = ac.slots[i]
                  \/ /\ ~ac.slots[i].occupied
                     /\ up.slots[i].occupied /\ ~up.slots[i].transient
                     /\ up.slots[i].id = id
             /\ from < until =>
                  \/ [id |-> id, hash |-> h, valid_from |-> from,
                      valid_until |-> until] \in Guests(up)
                  \/ FreeSlots(up) = {}
<1> DEFINE up == AcUpsert(ac, id, h, from, until).ac
           e == [id |-> id, hash |-> h, valid_from |-> from, valid_until |-> until]
<1>1. PICK no \in BOOLEAN : no = FALSE
  OBVIOUS
<1> DEFINE one == Upsert(ac, id, h, from, until, no).ac
           entry == [occupied |-> TRUE, transient |-> no, id |-> id,
                     hash |-> h, valid_from |-> from, valid_until |-> until]
<1>2. /\ one \in Context
      /\ \/ /\ one = ac
            /\ until <= from \/ (ById(ac, id) = {} /\ FreeSlots(ac) = {})
         \/ /\ ~(until <= from)
            /\ \E idx \in SlotIndex :
                 /\ idx \in ById(ac, id) \/ (ById(ac, id) = {} /\ idx \in FreeSlots(ac))
                 /\ \A i \in SlotIndex :
                      one.slots[i] = IF i = idx THEN entry ELSE ac.slots[i]
  BY UpsertCases
<1>3. /\ entry.occupied /\ ~entry.transient /\ entry.id = id
      /\ e = [id |-> entry.id, hash |-> entry.hash,
              valid_from |-> entry.valid_from, valid_until |-> entry.valid_until]
  BY <1>1
<1>4. up = one
  BY <1>1 DEF AcUpsert
<1>5. from < until => ~(until <= from)
  OBVIOUS
<1> HIDE DEF up, one, entry, e
<1>6. CASE up = ac /\ (until <= from \/ FreeSlots(ac) = {})
  BY <1>2, <1>4, <1>5, <1>6 DEF up
<1>7. CASE \E idx \in FreeSlots(ac) : \A i \in SlotIndex :
             up.slots[i] = IF i = idx THEN entry ELSE ac.slots[i]
  <2>1. PICK idx \in FreeSlots(ac) : \A i \in SlotIndex :
          up.slots[i] = IF i = idx THEN entry ELSE ac.slots[i]
    BY <1>7
  <2>2. idx \in SlotIndex /\ ~ac.slots[idx].occupied
    BY DEF FreeSlots
  <2>3. up.slots[idx] = entry
    BY <2>1, <2>2
  <2>4. e \in Guests(up)
    BY <1>3, <2>2, <2>3, GuestsMember
  <2>5. \A i \in SlotIndex :
          \/ up.slots[i] = ac.slots[i]
          \/ /\ ~ac.slots[i].occupied
             /\ up.slots[i].occupied /\ ~up.slots[i].transient
             /\ up.slots[i].id = id
    BY <1>3, <2>1, <2>2
  <2> QED
    BY <1>2, <1>4, <2>4, <2>5 DEF up, e
<1> QED
  BY <1>2, <1>4, <1>6, <1>7

\* A set that names an id once, installed in a table without guests that knows
\* none of its ids: what was there stays as it was, everything new is a guest's,
\* and every entry with a window is in the table unless the table is full.
LEMMA InstallIsWhole ==
  ASSUME NEW ac \in Context, NEW set \in Seq(Codes),
         \A k \in 1..Len(set) : ById(ac, set[k].id) = {},
         \A j, k \in 1..Len(set) : set[j].id = set[k].id => j = k
  PROVE  /\ \A i \in SlotIndex :
              IF ac.slots[i].occupied
              THEN Install(ac, set).slots[i] = ac.slots[i]
              ELSE Install(ac, set).slots[i].occupied =>
                     ~Install(ac, set).slots[i].transient
         /\ \A k \in 1..Len(set) : set[k].valid_from < set[k].valid_until =>
              set[k] \in Guests(Install(ac, set)) \/ FreeSlots(Install(ac, set)) = {}
<1>1. Len(set) \in Nat
  BY LenProperties
<1>2. PICK f : /\ f = [n \in 0..Len(set) |->
                        IF n = 0 THEN ac
                        ELSE AcUpsert(f[n - 1], set[n].id, set[n].hash,
                                      set[n].valid_from, set[n].valid_until).ac]
               /\ Install(ac, set) = f[Len(set)]
  BY <1>1, InstallUnfolds
<1> DEFINE Kept(t, n) ==
             \A i \in SlotIndex :
               IF ac.slots[i].occupied
               THEN t.slots[i] = ac.slots[i]
               ELSE t.slots[i].occupied =>
                      /\ ~t.slots[i].transient
                      /\ \E k \in 1..n : t.slots[i].id = set[k].id
           Holds(t, n) ==
             \A k \in 1..n : set[k].valid_from < set[k].valid_until =>
               set[k] \in Guests(t) \/ FreeSlots(t) = {}
           P(n) == f[n] \in Context /\ Kept(f[n], n) /\ Holds(f[n], n)
           T == {n \in 0..Len(set) : ~P(n)}
<1>3. P(0)
  <2>1. f[0] = ac
    BY <1>1, <1>2
  <2> QED
    BY <2>1
<1>4. ASSUME NEW n \in 1..Len(set), P(n - 1) PROVE P(n)
  <2> DEFINE e == set[n]
             t == f[n - 1]
             up == AcUpsert(t, e.id, e.hash, e.valid_from, e.valid_until).ac
  <2>1. e \in Codes
    BY ElementOfSeq
  <2>2. /\ e.id \in Ids /\ e.hash \in Hashes /\ e.valid_from \in Int /\ e.valid_until \in Int
        /\ e = [id |-> e.id, hash |-> e.hash, valid_from |-> e.valid_from,
                valid_until |-> e.valid_until]
    BY <2>1 DEF Codes
  <2>3. f[n] = up
    BY <1>1, <1>2
  <2>4. /\ n \in Int /\ n \in 1..n
        /\ \A k \in 1..(n - 1) : k \in 1..n /\ k \in 1..Len(set) /\ k # n
        /\ \A k \in 1..n : k = n \/ k \in 1..(n - 1)
    BY <1>1
  <2>5. ById(t, e.id) = {}
    <3> SUFFICES ASSUME NEW i \in SlotIndex, t.slots[i].occupied, t.slots[i].id = e.id
                 PROVE  FALSE
      BY DEF ById
    <3>1. CASE ac.slots[i].occupied
      BY <1>4, <3>1 DEF ById
    <3>2. CASE ~ac.slots[i].occupied
      <4>1. PICK k \in 1..(n - 1) : t.slots[i].id = set[k].id
        BY <1>4, <3>2
      <4> QED
        BY <2>4, <4>1
    <3> QED
      BY <3>1, <3>2
  <2>6. t \in Context
    BY <1>4
  <2>7. Kept(t, n - 1) /\ Holds(t, n - 1)
    BY <1>4
  <2> HIDE DEF t, e
  <2>8. /\ up \in Context
        /\ \A i \in SlotIndex :
             \/ up.slots[i] = t.slots[i]
             \/ /\ ~t.slots[i].occupied
                /\ up.slots[i].occupied /\ ~up.slots[i].transient
                /\ up.slots[i].id = e.id
        /\ e.valid_from < e.valid_until =>
             \/ [id |-> e.id, hash |-> e.hash, valid_from |-> e.valid_from,
                 valid_until |-> e.valid_until] \in Guests(up)
             \/ FreeSlots(up) = {}
    BY <2>2, <2>5, <2>6, UpsertFresh, SMTT(30)
  <2> HIDE DEF up
  <2>9. Kept(up, n)
    <3> SUFFICES ASSUME NEW i \in SlotIndex
                 PROVE  IF ac.slots[i].occupied
                        THEN up.slots[i] = ac.slots[i]
                        ELSE up.slots[i].occupied =>
                               /\ ~up.slots[i].transient
                               /\ \E k \in 1..n : up.slots[i].id = set[k].id
      OBVIOUS
    <3>1. CASE up.slots[i] = t.slots[i]
      BY <2>4, <2>7, <3>1
    <3>2. CASE up.slots[i] # t.slots[i]
      <4>1. /\ ~t.slots[i].occupied /\ ~up.slots[i].transient
            /\ up.slots[i].id = set[n].id
        BY <2>8, <3>2 DEF e
      <4>2. ~ac.slots[i].occupied
        BY <2>7, <4>1
      <4> QED
        BY <2>4, <4>1, <4>2
    <3> QED
      BY <3>1, <3>2
  <2>10. Guests(t) \subseteq Guests(up)
    <3> SUFFICES ASSUME NEW g \in Guests(t) PROVE g \in Guests(up)
      OBVIOUS
    <3>1. PICK i \in SlotIndex :
            /\ t.slots[i].occupied /\ ~t.slots[i].transient
            /\ g = [id |-> t.slots[i].id, hash |-> t.slots[i].hash,
                    valid_from |-> t.slots[i].valid_from,
                    valid_until |-> t.slots[i].valid_until]
      BY GuestsMember
    <3>2. up.slots[i] = t.slots[i]
      BY <2>8, <3>1
    <3> QED
      BY <3>1, <3>2, GuestsMember
  <2>11. FreeSlots(up) \subseteq FreeSlots(t)
    BY <2>8 DEF FreeSlots
  <2>12. Holds(up, n)
    <3> SUFFICES ASSUME NEW k \in 1..n, set[k].valid_from < set[k].valid_until
                 PROVE  set[k] \in Guests(up) \/ FreeSlots(up) = {}
      OBVIOUS
    <3>1. CASE k = n
      <4>1. set[k] = e
        BY <3>1 DEF e
      <4> QED
        BY <2>2, <2>8, <4>1
    <3>2. CASE k \in 1..(n - 1)
      BY <2>7, <2>10, <2>11, <3>2
    <3> QED
      BY <2>4, <3>1, <3>2
  <2> HIDE DEF Kept, Holds
  <2> QED
    BY <2>3, <2>8, <2>9, <2>12
<1>5. T = {}
  <2> SUFFICES ASSUME T # {} PROVE FALSE
    OBVIOUS
  <2> HIDE DEF P
  <2>1. T \subseteq Nat
    BY <1>1
  <2>2. PICK n \in T : \A m \in T : n <= m
    BY <2>1, LeastNatural
  <2>3. n \in 0..Len(set) /\ ~P(n)
    BY <2>2
  <2>4. n # 0 /\ n \in 1..Len(set) /\ n - 1 \in 0..Len(set) /\ ~(n <= n - 1)
    BY <1>1, <1>3, <2>3
  <2>5. P(n - 1)
    BY <2>2, <2>4
  <2> QED
    BY <1>4, <2>3, <2>4, <2>5
<1>6. P(Len(set))
  <2>1. Len(set) \in 0..Len(set)
    BY <1>1
  <2> HIDE DEF P
  <2> QED
    BY <1>5, <2>1
<1> QED
  BY <1>2, <1>6
=============================================================================
