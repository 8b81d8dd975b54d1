------------------------------- MODULE Keypad -------------------------------
(****************************************************************************)
(* keypad: the task that scans the matrix, kp_logic that makes key events   *)
(* of what it reads, and the queue the main loop empties once an iteration. *)
(* A diode-less matrix shows phantom keys when several are held, so kp_logic*)
(* takes a reading of one key or of none and waits for all to be let go     *)
(* otherwise.                                                               *)
(*                                                                          *)
(* A reading is the set of keys it shows.  Once ghosts are filtered it is   *)
(* one key or none, and so are `stable' and `candidate'.  The readings of   *)
(* the clock that kp_logic keeps are ages here: it looks at neither after   *)
(* it has fired, and fires long before 2^32 ms.  Of the queue only the      *)
(* length is kept: nothing here depends on what the events say.             *)
(****************************************************************************)
EXTENDS Integers, Sequences, SequencesExt

CONSTANTS
  Keys, NoKey,
  Debounce,    \* KP_DEBOUNCE_MS, in scan periods: 3
  LongPress,   \* KP_LONGPRESS_MS: 300 scan periods
  QueueDepth,  \* keypad_config_t.queue_depth: 8
  MaxGap       \* bound: scan periods from one scan to the next

ASSUME KeypadAssumption ==
  /\ NoKey \notin Keys
  /\ {Debounce, LongPress, QueueDepth, MaxGap} \subseteq Nat \ {0}
  /\ LongPress >= 2 * Debounce

VARIABLES
  logic,   \* kp_logic_t
  events,  \* what the last scan's kp_logic_update put out
  queued,  \* the events in the queue
  dropped, \* whether the last scan found the queue full
  hist     \* history of readings and of the loop, see History

keypadVars == <<logic, events, queued, dropped, hist>>

Key == Keys \union {NoKey}
Readings == SUBSET Keys
Event == [type : {"PRESS", "LONG_PRESS"}, key : Keys]

KpLogic == [stable : Key, candidate : Key, candidate_age : 0..Debounce,
            candidate_pending : BOOLEAN, press_age : 0..LongPress,
            held : Key, long_fired : BOOLEAN, ghost_blocked : BOOLEAN]

KpLogicInit ==
  [stable |-> NoKey, candidate |-> NoKey, candidate_age |-> 0,
   candidate_pending |-> FALSE, press_age |-> 0, held |-> NoKey,
   long_fired |-> FALSE, ghost_blocked |-> FALSE]

\* No longer than the spans anything is compared with.
UpTo(limit, age) == IF age > limit THEN limit ELSE age

-----------------------------------------------------------------------------
(* kp_logic_update                                                          *)

\* More than one key blocks, none at all unblocks.
Blocked(st, raw) ==
  raw # {} /\ (st.ghost_blocked \/ \E j, k \in raw : j # k)

Seen(st, raw) ==
  IF raw = {} \/ Blocked(st, raw) THEN NoKey ELSE CHOOSE key \in raw : TRUE

Aged(st, gap) ==
  [st EXCEPT !.candidate_age = UpTo(Debounce, @ + gap),
             !.press_age = UpTo(LongPress, @ + gap)]

\* Mutant of Awaits: a candidate waits on when another is read.
AwaitsAny(st, key) == st.candidate_pending

Awaits(st, key) == st.candidate_pending /\ key = st.candidate

\* Mutant of Accepted: when the press began is not noted.
AcceptedKeepsAge(st) ==
  [st EXCEPT !.stable = st.candidate, !.candidate_pending = FALSE,
             !.held = st.candidate, !.long_fired = FALSE]

\* The candidate becomes stable: a key that goes down is pressed, and held.  (Of
\* no key the age means nothing.)
Accepted(st) ==
  [st EXCEPT !.stable = st.candidate, !.candidate_pending = FALSE,
             !.held = st.candidate, !.press_age = 0, !.long_fired = FALSE]

\* Mutant of Debounced: the first reading is enough.
DebouncedAtOnce(st, key) ==
  IF key = st.stable THEN st ELSE Accepted([st EXCEPT !.candidate = key])

\* A reading must last to be taken.
Debounced(st, key) ==
  IF key = st.stable THEN [st EXCEPT !.candidate_pending = FALSE]
  ELSE IF ~Awaits(st, key)
       THEN [st EXCEPT !.candidate = key, !.candidate_age = 0,
                       !.candidate_pending = TRUE]
  ELSE IF st.candidate_age >= Debounce THEN Accepted(st)
  ELSE st

LongFires(st) == st.held # NoKey /\ ~st.long_fired /\ st.press_age >= LongPress

KpLogicUpdate(st, raw, gap) ==
  LET old  == [Aged(st, gap) EXCEPT !.ghost_blocked = Blocked(st, raw)]
      new  == Debounced(old, Seen(st, raw))
      down == new.stable # old.stable /\ new.stable # NoKey
      long == LongFires(new)
  IN  [logic  |-> [new EXCEPT !.long_fired = @ \/ long],
       events |->
         (IF down THEN <<[type |-> "PRESS", key |-> new.stable]>> ELSE <<>>)
         \o (IF long THEN <<[type |-> "LONG_PRESS", key |-> new.held]>> ELSE <<>>)]

-----------------------------------------------------------------------------
(* What the properties remember of the readings:                            *)
(*   raw, steady    the last reading, and for how long it has been the same *)
(*   last           the key of the last PRESS; NoKey before the first       *)
(*   off            for how long no reading showed that key alone, -1 if    *)
(*                  the last one did                                        *)
(*   let_go         whether that key was let go since: off for a debounce,  *)
(*                  or everything was, after a reading of several keys      *)
(*   ghosted        whether there was such a reading since                  *)
(*   since, long    for how long, and whether a LONG_PRESS came since       *)
(*   away           for how long the main loop has not emptied the queue    *)
(* An event counts from the scan after it, so that it can be seen next to   *)
(* what led to it.                                                          *)
AwayEnough == (QueueDepth - 1) * Debounce

History ==
  [raw : Readings, steady : 0..Debounce, last : Key, off : -1..Debounce,
   let_go : BOOLEAN, ghosted : BOOLEAN, since : 0..LongPress, long : BOOLEAN,
   away : 0..AwayEnough]

NoHistory ==
  [raw |-> {}, steady |-> 0, last |-> NoKey, off |-> -1, let_go |-> FALSE,
   ghosted |-> FALSE, since |-> 0, long |-> FALSE, away |-> 0]

Presses == {e.key : e \in {x \in ToSet(events) : x.type = "PRESS"}}
LongPresses == {e.key : e \in {x \in ToSet(events) : x.type = "LONG_PRESS"}}

AfterEvents ==
  IF Presses # {}
  THEN [hist EXCEPT !.last = CHOOSE key \in Presses : TRUE, !.off = -1,
                    !.let_go = FALSE, !.ghosted = FALSE, !.since = 0, !.long = FALSE]
  ELSE [hist EXCEPT !.long = @ \/ LongPresses # {}]

Remember(raw, gap) ==
  LET h    == AfterEvents
      off  == IF raw = {h.last} THEN -1
              ELSE IF h.off = -1 THEN 0
              ELSE UpTo(Debounce, h.off + gap)
  IN  [h EXCEPT !.raw = raw,
                !.steady = IF raw = hist.raw THEN UpTo(Debounce, @ + gap) ELSE 0,
                !.off = off,
                !.ghosted = @ \/ \E j, k \in raw : j # k,
                !.let_go = @ \/ off >= Debounce \/ (h.ghosted /\ raw = {}),
                !.since = UpTo(LongPress, @ + gap),
                !.away = UpTo(AwayEnough, @ + gap)]

KeypadTypeOK ==
  /\ logic \in KpLogic
  /\ events \in Seq(Event) /\ Len(events) <= 1
  /\ queued \in 0..QueueDepth
  /\ dropped \in BOOLEAN
  /\ hist \in History

-----------------------------------------------------------------------------

KeypadInit ==
  /\ logic = KpLogicInit
  /\ events = <<>>
  /\ queued = 0
  /\ dropped = FALSE
  /\ hist = NoHistory

\* One round of keypad_task: what does not fit in the queue is dropped.
KeypadScan(raw, gap) ==
  LET r == KpLogicUpdate(logic, raw, gap)
  IN  /\ logic' = r.logic
      /\ events' = r.events
      /\ queued' = UpTo(QueueDepth, queued + Len(r.events))
      /\ dropped' = (queued + Len(r.events) > QueueDepth)
      /\ hist' = Remember(raw, gap)

\* The main loop takes every event there is, once per iteration.
TakeKeys ==
  /\ queued' = 0
  /\ dropped' = FALSE
  /\ hist' = [hist EXCEPT !.away = 0]
  /\ UNCHANGED <<logic, events>>

KeypadNext ==
  \/ \E raw \in Readings, gap \in 1..MaxGap : KeypadScan(raw, gap)
  \/ TakeKeys

KeypadSpec == KeypadInit /\ [][KeypadNext]_keypadVars

-----------------------------------------------------------------------------
\* A key event is somebody's doing, whatever the contacts and the matrix show in
\* between: a PRESS follows readings of that key alone for a debounce, and a second
\* one of the same key only after it was let go; a LONG_PRESS, which clears the
\* entry, is of the key pressed last, that long ago, and comes once (kp_logic_update).
KeysAreReal ==
  /\ \A key \in Presses :
       /\ hist.raw = {key} /\ hist.steady >= Debounce
       /\ key = hist.last => hist.let_go
  /\ \A key \in LongPresses :
       key = hist.last /\ hist.since >= LongPress /\ ~hist.long

\* No key is lost unless the main loop stayed away for as many debounces as fit
\* between the events of a full queue - 105 ms, far more than a record's write to the
\* EEPROM takes.  (A LONG_PRESS may come right before a PRESS, so that one interval
\* does not count.)
LosesOnlyWhenAway == dropped => hist.away >= AwayEnough

============================================================================
