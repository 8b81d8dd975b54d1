--------------------------------- MODULE Ui ---------------------------------
(***************************************************************************)
(* components/ui: what the panel shows.  As in the C code, every operation *)
(* is a function of the ui_ctx_t, of the access context it reads, and of   *)
(* the pair of clocks `now` (ms since boot, wall clock) its caller took.   *)
(* The guest's characters are not here: the ui counts them, gate_ctrl      *)
(* keeps them.                                                             *)
(***************************************************************************)
EXTENDS AccessCore, Millis

CONSTANTS
  CodeLen,       \* UI_CODE_LEN
  EntryTimeout,  \* UI_ENTRY_TIMEOUT_MS
  NoticeSpan     \* [screen |-> UI_GRANTED_MS, UI_DENIED_MS or UI_INFO_MS]

Notices == {"GRANTED", "DENIED", "NOT_YET", "EXPIRED", "NO_CLOCK"}

Screens == Notices \union {"IDLE", "ENTRY"}

\* The signed comparison needs spans below half the counter's range.
ASSUME UiAssumption ==
  /\ CodeLen \in Nat \ {0, 1}
  /\ EntryTimeout \in Nat \ {0}
  /\ NoticeSpan \in [Notices -> Nat \ {0}]
  /\ 2 * EntryTimeout < Wrap
  /\ \A n \in Notices : 2 * NoticeSpan[n] < Wrap

UiContext == [screen : Screens, entry_len : 0..CodeLen,
              entry_deadline_ms : Reading, screen_until_ms : Reading,
              clock_trusted : BOOLEAN]

Now == [ms : Reading, epoch : Int]

\* Mutant of Add: the sum does not wrap.
AddWide(ms, span) == ms + span

Add(ms, span) == (ms + span) % Wrap

\* ui_init
UiInit == [screen |-> "IDLE", entry_len |-> 0, entry_deadline_ms |-> 0,
           screen_until_ms |-> 0, clock_trusted |-> FALSE]

GoIdle(ui) == [ui EXCEPT !.screen = "IDLE", !.entry_len = 0,
                         !.entry_deadline_ms = 0, !.screen_until_ms = 0]

\* A notice leaves entry_len to its caller.
Notice(ui, screen, now) ==
  [ui EXCEPT !.screen = screen, !.entry_len = 0,
             !.screen_until_ms = Add(now.ms, NoticeSpan[screen])]

UiSetClockTrusted(ui, trusted) ==
  LET set == [ui EXCEPT !.clock_trusted = trusted]
  IN  IF trusted THEN set ELSE GoIdle(set)

Locked(ui, ac, now) == ui.clock_trusted /\ AcIsLockedOut(ac, now.epoch)

\* Mutants of UiOnKey: the lockout is not asked; submission one key late.
UiOnKeyDeaf(ui, ac, now) ==
  IF ~ui.clock_trusted
  THEN [ui |-> Notice(ui, "NO_CLOCK", now), submit |-> FALSE]
  ELSE LET n == IF ui.screen = "ENTRY" THEN ui.entry_len + 1 ELSE 1
       IN  [ui |-> [ui EXCEPT !.screen = "ENTRY", !.entry_len = n,
                              !.entry_deadline_ms = Add(now.ms, EntryTimeout)],
            submit |-> n >= CodeLen]

UiOnKeyLate(ui, ac, now) ==
  IF ~ui.clock_trusted
  THEN [ui |-> Notice(ui, "NO_CLOCK", now), submit |-> FALSE]
  ELSE IF AcIsLockedOut(ac, now.epoch) THEN [ui |-> ui, submit |-> FALSE]
  ELSE LET n == IF ui.screen = "ENTRY" THEN ui.entry_len + 1 ELSE 1
       IN  [ui |-> [ui EXCEPT !.screen = "ENTRY", !.entry_len = n,
                              !.entry_deadline_ms = Add(now.ms, EntryTimeout)],
            submit |-> n > CodeLen]

UiOnKey(ui, ac, now) ==
  IF ~ui.clock_trusted
  THEN [ui |-> Notice(ui, "NO_CLOCK", now), submit |-> FALSE]
  ELSE IF AcIsLockedOut(ac, now.epoch) THEN [ui |-> ui, submit |-> FALSE]
  ELSE LET n == IF ui.screen = "ENTRY" THEN ui.entry_len + 1 ELSE 1
       IN  [ui |-> [ui EXCEPT !.screen = "ENTRY", !.entry_len = n,
                              !.entry_deadline_ms = Add(now.ms, EntryTimeout)],
            submit |-> n >= CodeLen]

UiOnLongPress(ui, ac, now) ==
  IF Locked(ui, ac, now) THEN [ui |-> ui, clear |-> FALSE]
                         ELSE [ui |-> GoIdle(ui), clear |-> TRUE]

\* A wrong code that armed the lockout leaves the panel to the countdown.
UiOnResult(ui, ac, result, now) ==
  IF result \in {"GRANTED", "NOT_YET", "EXPIRED", "NO_CLOCK"}
  THEN Notice(ui, result, now)
  ELSE IF AcIsLockedOut(ac, now.epoch) THEN GoIdle(ui)
  ELSE Notice(ui, "DENIED", now)

\* screen_until_ms = 0 means that no notice is up.
UiTick(ui, ac, now) ==
  LET entry == ui.screen = "ENTRY"
      over  == IF entry THEN Reached(ui.entry_deadline_ms, now.ms)
               ELSE ui.screen_until_ms # 0 /\ Reached(ui.screen_until_ms, now.ms)
  IN  IF Locked(ui, ac, now)
      THEN [ui |-> [ui EXCEPT !.entry_len = 0], clear |-> FALSE]
      ELSE [ui |-> IF over THEN GoIdle(ui) ELSE ui, clear |-> entry /\ over]

\* ui_render().panel_on
PanelOn(ui, ac, now) == Locked(ui, ac, now) \/ ui.screen # "IDLE"
=============================================================================
