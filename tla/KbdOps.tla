-------------------------------- MODULE KbdOps --------------------------------
(***************************************************************************)
(* The keyboard backlight as the power manager keeps it: the level it      *)
(* believes the hardware shows (now), the level a toggle will restore      *)
(* (old), and the level to go back to when the session stops being idle    *)
(* (pre_dim).  Every operator is one helper of gsd-power-manager.c as a    *)
(* function from the old record to the new one; ok says whether UPower     *)
(* accepts the SetBrightness call the helper makes.                        *)
(***************************************************************************)
EXTENDS GpmCommon

CONSTANTS
  HasKbd,       \* upower_kbd_proxy is connected
  KbdMax,       \* kbd_brightness_max
  KbdIdle       \* the "idle-brightness" setting, a percentage

ASSUME KbdAssumption ==
  /\ HasKbd \in BOOLEAN
  /\ KbdMax \in Nat \ {0}
  /\ KbdIdle \in 0..100

\* old and pre_dim when there is nothing to restore.
NoLevel == -1

KbdLevels == 0..KbdMax

KbdRecords ==
  [now : KbdLevels, old : KbdLevels \cup {NoLevel}, pre_dim : KbdLevels \cup {NoLevel}]

\* upower_kbd_set_brightness: nothing to do counts as a success, a failed
\* call leaves the level as it was.
KbdSetSucceeds(k, value, ok) == k.now = value \/ ~HasKbd \/ ok

KbdSet(k, value, ok) == IF HasKbd /\ ok THEN [k EXCEPT !.now = value] ELSE k

\* upower_kbd_toggle: off remembers the level, on restores it.
KbdToggle(k, ok) ==
  IF k.old # NoLevel
  THEN IF KbdSetSucceeds(k, k.old, ok)
       THEN [KbdSet(k, k.old, ok) EXCEPT !.old = NoLevel]
       ELSE k
  ELSE IF KbdSetSucceeds(k, 0, ok)
       THEN [KbdSet(k, 0, ok) EXCEPT !.old = k.now]
       ELSE k

\* Mistake: the level to come back to is not kept.
KbdDimForgets(k, ok) ==
  LET idle == PercentageToAbs(0, KbdMax, KbdIdle)
  IN IF HasKbd /\ idle <= k.now THEN KbdSet(k, idle, ok) ELSE k

\* kbd_backlight_dim: never brighter than it already is.
KbdDim(k, ok) ==
  LET idle == PercentageToAbs(0, KbdMax, KbdIdle)
  IN IF HasKbd /\ idle <= k.now /\ KbdSetSucceeds(k, idle, ok)
     THEN [KbdSet(k, idle, ok) EXCEPT !.pre_dim = k.now]
     ELSE k

\* The keyboard part of idle_set_mode (BLANK): off unless already toggled.
KbdBlank(k, ok) == IF HasKbd /\ k.old = NoLevel THEN KbdToggle(k, ok) ELSE k

\* Mistake: "no level" is restored like a level.
KbdWakeUnguarded(k, toggleOk, setOk) ==
  LET t == IF HasKbd /\ k.old # NoLevel THEN KbdToggle(k, toggleOk) ELSE k
  IN [KbdSet(t, t.pre_dim, setOk) EXCEPT !.pre_dim = NoLevel]

\* The keyboard part of idle_set_mode (NORMAL): toggle back, then undim; the
\* level to restore is forgotten even when restoring it failed.
KbdWake(k, toggleOk, setOk) ==
  LET t == IF HasKbd /\ k.old # NoLevel THEN KbdToggle(k, toggleOk) ELSE k
  IN IF t.pre_dim # NoLevel
     THEN [KbdSet(t, t.pre_dim, setOk) EXCEPT !.pre_dim = NoLevel]
     ELSE t
===============================================================================
