---------------------------- MODULE PowerWarnings ----------------------------
(***************************************************************************)
(* What gsd-power tells the user about batteries (gsd-power-manager.c):    *)
(* the warning level UPower gives each device becomes a notification, a    *)
(* sound loop for the machine's own battery or UPS, and the flag           *)
(* battery_is_low that the rest of the daemon works with.                  *)
(***************************************************************************)
EXTENDS PowerDevices

CONSTANT
  MaxTimers     \* bound: critical-action timers running at a time

VARIABLES
  battery_is_low,  \* battery low, or UPS discharging
  warn             \* the devices, the notifications, the sound

wvars == <<battery_is_low, warn>>

Warns == [level : [Devices -> Levels], present : SUBSET Peripherals,
          notified : [Serialized -> Levels],
          low : Devices \cup {Nobody}, ups : BOOLEAN,
          alarm : BOOLEAN, timers : 0..MaxTimers]

WarnTypeOK == battery_is_low \in BOOLEAN /\ warn \in Warns

\* engine_device_debounce_warn: a peripheral that can be told from others is
\* not warned about at a level it already reached.
Debounced(w, d, level) == d \in Serialized /\ w.notified[d] >= level

Remember(w, d, level) ==
  IF d \in Serialized /\ level \notin {UNKNOWN, NONE}
  THEN [w EXCEPT !.notified[d] = level]
  ELSE w

\* engine_ups_discharging, engine_charge_low, engine_charge_critical and
\* engine_charge_action: each replaces the notification of its class.
UpsDischarging(w, d) == [w EXCEPT !.ups = @ \/ (d = Main /\ MainKind = "ups")]

ChargeLow(w, d) == [w EXCEPT !.low = d]

\* Mistake: a mouse sounds the alarm of the machine.
AnyChargeCritical(w, d) == [w EXCEPT !.low = d, !.alarm = TRUE]

ChargeCritical(w, d) == [w EXCEPT !.low = d, !.alarm = @ \/ d = Main]

ChargeAction(w, d) == IF d = Main THEN [w EXCEPT !.low = d, !.timers = @ + 1] ELSE w


\* "fully charged or charging, hiding notifications if any": those of the
\* device's kind, whichever device they are about.
Charged(w, d) ==
  IF d = Main /\ MainKind = "ups"
  THEN [w EXCEPT !.alarm = FALSE, !.ups = FALSE]
  ELSE [w EXCEPT !.alarm = FALSE, !.low = Nobody]

\* engine_device_warning_changed_cb, but for battery_is_low.
WarningChanged(w, d, level) ==
  LET r == Remember(w, d, level)
  IN CASE Debounced(w, d, level)                          -> r
       [] ~Debounced(w, d, level) /\ level = UNKNOWN      -> r
       [] ~Debounced(w, d, level) /\ level = NONE         -> Charged(r, d)
       [] ~Debounced(w, d, level) /\ level = DISCHARGING  -> UpsDischarging(r, d)
       [] ~Debounced(w, d, level) /\ level = LOW          -> ChargeLow(r, d)
       [] ~Debounced(w, d, level) /\ level = CRITICAL     -> ChargeCritical(r, d)
       [] ~Debounced(w, d, level) /\ level = UP_ACTION       -> ChargeAction(r, d)

\* gsd_power_manager_startup: the composite device is only watched; the level
\* it has by then is not looked at.
WarnInit ==
  /\ battery_is_low = FALSE
  /\ \E level \in Levels :
       warn = [level |-> [d \in Devices |-> IF d = Main THEN level ELSE NONE],
               present |-> {}, notified |-> [d \in Serialized |-> UNKNOWN],
               low |-> Nobody, ups |-> FALSE, alarm |-> FALSE, timers |-> 0]

MainWarning ==
  \E level \in Levels \ {warn.level[Main]} :
    /\ level = UP_ACTION => warn.timers < MaxTimers
    /\ warn' = WarningChanged([warn EXCEPT !.level[Main] = level], Main, level)
    /\ battery_is_low' = (level # NONE)

PeripheralWarning ==
  \E d \in warn.present, level \in Levels :
    /\ level # warn.level[d]
    /\ warn' = WarningChanged([warn EXCEPT !.level[d] = level], d, level)
    /\ UNCHANGED battery_is_low

\* engine_device_added_cb, or the coldplug: what UPower says already counts.
DeviceAdded ==
  \E d \in Peripherals \ warn.present, level \in Levels :
    /\ warn' = WarningChanged([warn EXCEPT !.level[d] = level,
                                           !.present = @ \cup {d}], d, level)
    /\ UNCHANGED battery_is_low

DeviceRemoved ==
  \E d \in warn.present :
    /\ warn' = [warn EXCEPT !.present = @ \ {d}, !.level[d] = NONE]
    /\ UNCHANGED battery_is_low

\* manager_critical_action_stop_sound_cb, GSD_STOP_SOUND_DELAY after UP_DEVICE_LEVEL_ACTION,
\* whatever happened since.
StopSound ==
  /\ warn.timers > 0
  /\ warn' = [warn EXCEPT !.timers = @ - 1, !.alarm = FALSE]
  /\ UNCHANGED battery_is_low

\* on_notification_closed: the user dismissed one, or it expired.
WarningDismissed ==
  /\ \/ warn.low # Nobody /\ warn' = [warn EXCEPT !.low = Nobody]
     \/ warn.ups /\ warn' = [warn EXCEPT !.ups = FALSE]
  /\ UNCHANGED battery_is_low

WarnNext ==
  \/ MainWarning \/ PeripheralWarning
  \/ DeviceAdded \/ DeviceRemoved
  \/ StopSound \/ WarningDismissed

WarnSpec == WarnInit /\ [][WarnNext]_wvars

-------------------------------------------------------------------------------
(* Properties.                                                             *)

\* The alarm never outlasts its reason: the sound loop plays only while the
\* machine's battery is low, and once the critical action is due there is
\* always a timer that will stop it ("wait 20 seconds for user-panic").
AlarmEnds ==
  warn.alarm => /\ warn.level[Main] # NONE /\ battery_is_low
                /\ warn.level[Main] = UP_ACTION => warn.timers > 0

\* A device that cannot be told from another of its kind, or the battery, does
\* not keep a warning on the screen once UPower says it is charged, however
\* devices come, go and share the one notification.  (One that is unplugged
\* keeps it: nothing looks at the notifications then.)
ChargedIsQuiet ==
  \A d \in ({Main} \cup warn.present) \ Serialized :
    warn.low = d /\ (d = Main => MainKind = "battery") => warn.level[d] # NONE

\* The comment in engine_device_warning_changed_cb: "fully charged or charging,
\* hiding notifications if any".  A UPS shows its low charge in the
\* notification that only other devices close, and a peripheral that was warned
\* about is debounced before it gets there.
ChargingHidesWarnings ==
  \A d \in {Main} \cup warn.present : warn.low = d => warn.level[d] # NONE
==============================================================================
