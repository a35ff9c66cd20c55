---------------------------- MODULE MediaKeyActions ----------------------------
(***************************************************************************)
(* What gsd-media-keys does when a grabbed key is pressed                  *)
(* (gsd-media-keys-manager.c): the volume of PulseAudio's streams, the     *)
(* power keys with their suppression around a suspend, airplane mode,      *)
(* accessibility settings, the dialog that asks what was plugged in.       *)
(***************************************************************************)
EXTENDS Integers, Sequences, FiniteSets, FiniteSetsExt

CONSTANTS
  MaWorlds,       \* bound: in a behaviour, keys and happenings of one of these sets
  Outputs,        \* PulseAudio sinks that may exist
  Inputs,         \* PulseAudio sources that may exist
  Devnodes,       \* devices with volume and microphone keys
  UsbOf,          \* the streams with the same USB parent as a device
  VolumeNorm,     \* PA_VOLUME_NORM
  VolumeUiMax,    \* PA_VOLUME_UI_MAX
  VolumeStep      \* the step of a volume key, in units of VolumeNorm

VARIABLE ma

Streams  == Outputs \cup Inputs
None     == "none"       \* no stream; in the cache, (guint) -1
Unknown  == "unknown"    \* not in the cache
HighContrast == "HighContrast"
Themes   == {"Adwaita", "Other", HighContrast}
NoTheme  == "NULL"
Toggles  == {"screen-magnifier", "screen-reader", "screen-keyboard", "touchpad", "orientation-lock"}
PowerActions == {"suspend", "hibernate", "interactive", "nothing"}

\* do_action: keys that only start a program or a call of somebody else.
Launches == {"home", "email", "help", "www", "media", "calculator", "control-center", "custom"}
Requests == {"logout", "reboot", "shutdown", "search", "screensaver", "battery"}
PlayerKeys == {"Play", "Pause", "Stop", "Previous", "Next", "Rewind", "FastForward",
               "Repeat", "Shuffle"}

Outcomes == {"none", "launch", "osd", "player", "unavailable", "eject", "suspend", "hibernate",
             "interactive", "poweroff", "rfkill", "hardware", "keyboard"} \cup Requests

MaTypeOK ==
  /\ ma.may \in MaWorlds /\ ma.out \in Outcomes
  /\ ma.sleeping \in BOOLEAN /\ ma.power_button_disabled \in BOOLEAN /\ ma.timer \in BOOLEAN
  /\ ma.inhibit_suspend_fd \in BOOLEAN /\ ma.inhibit_suspend_taken \in BOOLEAN
  /\ ma.asked \in BOOLEAN
  /\ ma.live \subseteq Streams /\ ma.volume \in [Streams -> 0..VolumeUiMax]
  /\ ma.muted \subseteq Streams /\ ma.max_volume \in {VolumeNorm, VolumeUiMax}
  /\ ma.sink \in Outputs \cup {None} /\ ma.source \in Inputs \cup {None}
  /\ ma.streams \in [Devnodes -> Streams \cup {None, Unknown}]
  /\ ma.gtk \in Themes /\ ma.icon \in Themes
  /\ ma.gtk_theme \in Themes \cup {NoTheme} /\ ma.icon_theme \in Themes
  /\ ma.on \subseteq Toggles /\ ma.text \in 3..6 /\ ma.mag \in Int /\ ma.has_accel \in BOOLEAN
  /\ ma.rfkill_proxy \in BOOLEAN /\ ma.recent \in BOOLEAN /\ ma.airplane \in BOOLEAN
  /\ ma.setting \in {"no", "on", "off"}
  /\ ma.conn \in BOOLEAN /\ ma.requested \in BOOLEAN /\ ma.device \in 0..2
  /\ ma.dialog \in 0..2 /\ ma.port \in 0..2

Does(s, what) == [s EXCEPT !.out = what]

-------------------------------------------------------------------------------
(* Volume.                                                                 *)

\* get_stream_for_device_node: the first stream with the device's USB parent.
\* What was found, or not found, is remembered for the device, whether an
\* output or an input was asked for.
StreamsForNode(s, node, is_output) ==
  LET near == UsbOf[node] \cap s.live \cap (IF is_output THEN Outputs ELSE Inputs)
  IN CASE s.streams[node] # Unknown -> {s.streams[node]}
       [] s.streams[node] = Unknown /\ near # {} -> near
       [] OTHER -> {None}

\* do_sound_action on a stream; the volume is pushed when it changed.
SoundAction(s, stream, type) ==
  LET old_vol   == s.volume[stream]
      old_muted == stream \in s.muted
      new_vol   == CASE type = "down" -> IF old_vol <= VolumeStep THEN 0 ELSE old_vol - VolumeStep
                     [] type = "up" /\ (~old_muted \/ old_vol = 0) ->
                          Min({old_vol + VolumeStep, s.max_volume})
                     [] OTHER -> old_vol
      new_muted == CASE type = "mute" -> ~old_muted
                     [] type = "down" -> old_muted \/ old_vol <= VolumeStep
                     [] type = "up" -> FALSE
  IN Does([s EXCEPT !.volume[stream] = new_vol,
                    !.muted = IF new_muted THEN @ \cup {stream} ELSE @ \ {stream}], "osd")

SoundKeys == {"mute", "down", "up"}

OnStream(s, stream, type) == IF stream = None THEN Does(s, "none") ELSE SoundAction(s, stream, type)

\* do_sound_action: the stream of the device the key is on, else the default
\* one.  A key may come without a device, and a device udev does not know is
\* not remembered.
SoundKey(s, node, is_output, type) ==
  LET default == IF is_output THEN s.sink ELSE s.source
      With(own) == OnStream([s EXCEPT !.streams[node] = own],
                            IF own # None THEN own ELSE default, type)
  IN {OnStream(s, default, type)} \cup
     IF node = None THEN {} ELSE {With(own) : own \in StreamsForNode(s, node, is_output)}

\* allow_volume_above_100_percent_changed_cb
AllowAbove100(s) ==
  LET max == IF s.max_volume = VolumeNorm THEN VolumeUiMax ELSE VolumeNorm
      t   == [s EXCEPT !.max_volume = max]
  IN IF s.sink # None /\ s.volume[s.sink] > max THEN [t EXCEPT !.volume[s.sink] = max] ELSE t

\* Mistake: the keyboard's stream is remembered after it is gone.
StreamRemovedFromDefaults(s, id) ==
  [s EXCEPT !.live = @ \ {id},
            !.sink = IF @ = id THEN None ELSE @, !.source = IF @ = id THEN None ELSE @]

\* on_control_stream_removed
StreamRemoved(s, id) ==
  [s EXCEPT !.live = @ \ {id},
            !.sink = IF @ = id THEN None ELSE @, !.source = IF @ = id THEN None ELSE @,
            !.streams = [n \in Devnodes |-> IF @[n] = id THEN Unknown ELSE @[n]]]

-------------------------------------------------------------------------------
(* Power keys.                                                             *)

\* do_config_power_action: no dialog over the lock screen.
ConfigPowerAction(s, action, in_lock_screen) ==
  IF action = "interactive" /\ in_lock_screen THEN Does(s, "none") ELSE Does(s, action)

\* do_config_power_button_action
PowerButton(s, setting, vm, supported, in_lock_screen) ==
  CASE s.power_button_disabled \/ setting = "nothing" -> Does(s, "none")
    [] ~s.power_button_disabled /\ setting # "nothing" /\ vm -> Does(s, "poweroff")
    [] OTHER -> ConfigPowerAction(s, IF supported THEN setting ELSE "interactive", in_lock_screen)

\* inhibit_suspend
InhibitSuspend(s) ==
  IF s.inhibit_suspend_taken THEN s
  ELSE [s EXCEPT !.inhibit_suspend_taken = TRUE, !.asked = TRUE]

\* uninhibit_suspend
UninhibitSuspend(s) ==
  IF ~s.inhibit_suspend_fd THEN s
  ELSE [s EXCEPT !.inhibit_suspend_fd = FALSE, !.inhibit_suspend_taken = FALSE]

\* Mistake: the timer of the previous resume goes on.
AboutToSuspendTimerRuns(s) ==
  UninhibitSuspend([s EXCEPT !.sleeping = TRUE, !.power_button_disabled = TRUE])

\* logind_proxy_signal_cb
AboutToSuspend(s) ==
  UninhibitSuspend([s EXCEPT !.sleeping = TRUE, !.power_button_disabled = TRUE, !.timer = FALSE])

Resumed(s) == [InhibitSuspend([s EXCEPT !.sleeping = FALSE]) EXCEPT !.timer = TRUE]

-------------------------------------------------------------------------------
(* Settings, airplane mode, the audio dialog.                              *)

\* update_theme_settings, for both themes.
ThemesChanged(s, gtk, icon) ==
  [s EXCEPT !.gtk = gtk, !.icon = icon,
            !.gtk_theme = IF gtk \in {HighContrast, s.gtk} THEN @ ELSE gtk,
            !.icon_theme = IF icon \in {HighContrast, s.icon} THEN @ ELSE icon]

\* do_toggle_contrast_action: g_settings_set takes the name of a theme for a
\* format string, finds it is none and sets nothing.  Only the reset, without a
\* theme to go back to, has an effect.
ToggleContrast(s) ==
  IF s.gtk = HighContrast /\ s.gtk_theme = NoTheme THEN ThemesChanged(s, "Adwaita", s.icon) ELSE s

Flip(s, key) == [s EXCEPT !.on = IF key \in @ THEN @ \ {key} ELSE @ \cup {key}]

\* do_toggle_accessibility_key, do_touchpad_action and do_video_rotate_lock_action
ToggleKey(s, key) ==
  CASE key = "orientation-lock" /\ ~s.has_accel -> Does(s, "none")
    [] key \in {"touchpad", "orientation-lock"} /\ (key = "touchpad" \/ s.has_accel) ->
         Does(Flip(s, key), "osd")
    [] OTHER -> Does(Flip(s, key), "none")

\* Mistake: there is no size to stop at.
TextSizeUnbounded(s, up) == [s EXCEPT !.text = IF up THEN @ + 1 ELSE @ - 1]

\* do_text_size_action, in quarters: the nearest of 0.75, 1.0, 1.25 and 1.5.
TextSize(s, up) == [s EXCEPT !.text = Max({3, Min({6, IF up THEN @ + 1 ELSE @ - 1})})]

\* do_rfkill_action: events within a second of the previous one are ignored.
RfkillKey(s, has, hardware) ==
  CASE ~s.rfkill_proxy \/ s.recent -> s
    [] s.rfkill_proxy /\ ~s.recent /\ ~has -> [s EXCEPT !.recent = TRUE]
    [] s.rfkill_proxy /\ ~s.recent /\ has /\ hardware ->
         Does([s EXCEPT !.recent = TRUE], "hardware")
    [] OTHER -> Does([s EXCEPT !.recent = TRUE, !.setting = IF s.airplane THEN "off" ELSE "on"],
                     "rfkill")

\* audio_selection_needed: a dialog that is still open is closed first.
SelectionNeeded(s, id, show_dialog) ==
  LET closed == IF s.requested THEN [s EXCEPT !.requested = FALSE, !.dialog = 0] ELSE s
  IN IF ~s.conn THEN s
     ELSE IF ~show_dialog THEN closed
     ELSE [closed EXCEPT !.requested = TRUE, !.device = id, !.dialog = id]

\* audio_selection_done
SelectionDone(s) ==
  IF ~s.requested THEN s ELSE [s EXCEPT !.port = s.device, !.requested = FALSE]

-------------------------------------------------------------------------------
MaInit ==
  \E may \in MaWorlds, gtk, icon \in {"Adwaita", HighContrast} :
    /\ HighContrast \in {gtk, icon} => "settings" \in may
    /\ ma = [may |-> may, out |-> "none", sleeping |-> FALSE, power_button_disabled |-> FALSE,
             timer |-> FALSE, inhibit_suspend_fd |-> FALSE, inhibit_suspend_taken |-> TRUE,
             asked |-> TRUE, live |-> {}, volume |-> [x \in Streams |-> 0], muted |-> {},
             max_volume |-> VolumeNorm, sink |-> None, source |-> None,
             streams |-> [n \in Devnodes |-> Unknown], gtk |-> gtk, icon |-> icon,
             gtk_theme |-> IF gtk = HighContrast THEN NoTheme ELSE gtk, icon_theme |-> icon,
             on |-> {}, text |-> 4, mag |-> 2,
             has_accel |-> FALSE, rfkill_proxy |-> FALSE, recent |-> FALSE, airplane |-> FALSE,
             setting |-> "no", conn |-> FALSE, requested |-> FALSE, device |-> 0, dialog |-> 0,
             port |-> 0]

May(what) == what \in ma.may

\* on_accelerator_activated and do_action: of the microphone, the mute key only.
VolumeKey ==
  /\ May("sound")
  /\ \E node \in Devnodes \cup {None}, is_output \in BOOLEAN, type \in SoundKeys :
       /\ is_output \/ type = "mute"
       /\ ma' \in SoundKey(ma, node, is_output, type)

PowerKey ==
  /\ May("power")
  /\ \E locked, vm, supported \in BOOLEAN, setting \in PowerActions :
       ma' = PowerButton(ma, setting, vm, supported, locked)

SuspendKey ==
  /\ May("power")
  /\ \E action \in {"suspend", "hibernate"}, locked \in BOOLEAN :
       ma' = ConfigPowerAction(ma, action, locked)

RequestKey ==
  /\ May("keys")
  /\ \E key \in Requests \cup Launches :
       ma' = Does(ma, IF key \in Launches THEN "launch" ELSE key)

\* do_brightness_action, and do_eject_action with its choice of a drive.
DeviceKey == May("keys") /\ \E what \in {"keyboard", "osd", "eject"} : ma' = Does(ma, what)

\* do_multimedia_player_action, with and without a player that takes the key.
PlayerKey == May("keys") /\ \E active \in BOOLEAN :
               ma' = Does(ma, IF active THEN "player" ELSE "unavailable")

SettingKey ==
  /\ May("settings")
  /\ \/ ma' = ToggleContrast(ma)
     \/ \E key \in Toggles : ma' = ToggleKey(ma, key)
     \/ \E up \in BOOLEAN : ma' = TextSize(ma, up)
     \* do_magnifier_zoom_action; 1..3 stands for the range the schema admits.
     \/ \E offset \in {-1, 1} : ma.mag + offset \in 1..3 /\ ma' = [ma EXCEPT !.mag = @ + offset]

AirplaneKey ==
  /\ May("rfkill")
  /\ \E has, hardware \in BOOLEAN : ma' = RfkillKey(ma, has, hardware)

\* PulseAudio: streams come and go, the default changes, another program sets a volume.
StreamAppears ==
  May("sound") /\ \E x \in Streams \ ma.live : ma' = [ma EXCEPT !.live = @ \cup {x}]

StreamDisappears ==
  \E x \in ma.live : ma' = StreamRemoved(ma, x)

\* update_default_sink and update_default_source
DefaultChanged ==
  \/ \E x \in (ma.live \cap Outputs) \cup {None} : x # ma.sink /\ ma' = [ma EXCEPT !.sink = x]
  \/ \E x \in (ma.live \cap Inputs) \cup {None} : x # ma.source /\ ma' = [ma EXCEPT !.source = x]

VolumeChanged ==
  \E x \in ma.live, v \in {0, VolumeNorm, VolumeUiMax} : ma' = [ma EXCEPT !.volume[x] = v]

SoundSettingChanged == May("sound") /\ ma' = AllowAbove100(ma)

PrepareForSleep == May("power") /\ ma' = IF ma.sleeping THEN Resumed(ma) ELSE AboutToSuspend(ma)

\* inhibit_suspend_done: the flag stays when logind refuses.
InhibitDone ==
  /\ ma.asked
  /\ \E granted \in BOOLEAN : ma' = [ma EXCEPT !.asked = FALSE, !.inhibit_suspend_fd = granted]

\* reenable_power_button_timer_cb
ReenablePowerButton ==
  ma.timer /\ ma' = [ma EXCEPT !.timer = FALSE, !.power_button_disabled = FALSE]

ThemeSettingChanged ==
  May("settings") /\ \E gtk, icon \in Themes : ma' = ThemesChanged(ma, gtk, icon)

\* sensor_properties_changed, iio_sensor_appeared_cb and iio_sensor_disappeared_cb
SensorChanged == May("settings") /\ ma' = [ma EXCEPT !.has_accel = ~@]

\* on_rfkill_proxy_ready, set_rfkill_complete, and the second that passes.
RfkillAppears == May("rfkill") /\ ~ma.rfkill_proxy /\ ma' = [ma EXCEPT !.rfkill_proxy = TRUE]

SetRfkillComplete ==
  /\ ma.setting # "no"
  /\ \/ ma' = Does([ma EXCEPT !.airplane = (ma.setting = "on"), !.setting = "no"], "osd")
     \/ ma' = [ma EXCEPT !.setting = "no"]

SecondPasses == ma.recent /\ ma' = [ma EXCEPT !.recent = FALSE]

AirplaneChanged == ma.rfkill_proxy /\ ma' = [ma EXCEPT !.airplane = ~@]

\* audio_selection_appeared and audio_selection_vanished: the request stays.
ShellDialogs == May("audio") /\ ma' = [ma EXCEPT !.conn = ~@, !.dialog = 0]

HeadsetPlugged ==
  May("audio") /\ \E id \in 1..2, show \in BOOLEAN : ma' = SelectionNeeded(ma, id, show)

DeviceSelected ==
  /\ ma.conn /\ ma.dialog # 0
  /\ \E chosen \in BOOLEAN :
       ma' = IF chosen THEN SelectionDone([ma EXCEPT !.dialog = 0]) ELSE [ma EXCEPT !.dialog = 0]

MaNext ==
  \/ VolumeKey \/ PowerKey \/ SuspendKey \/ RequestKey \/ DeviceKey \/ PlayerKey \/ SettingKey
  \/ AirplaneKey \/ StreamAppears \/ StreamDisappears \/ DefaultChanged \/ VolumeChanged
  \/ SoundSettingChanged \/ PrepareForSleep \/ InhibitDone \/ ReenablePowerButton
  \/ ThemeSettingChanged \/ SensorChanged \/ RfkillAppears \/ SetRfkillComplete \/ SecondPasses
  \/ AirplaneChanged \/ ShellDialogs \/ HeadsetPlugged \/ DeviceSelected

-------------------------------------------------------------------------------
\* From the signal that the machine will suspend until the timer started by
\* its resume has run out, the power button that woke the machine does
\* nothing; and there is always such a timer, or the button would be lost.
PowerButtonIsSuppressed == ma.power_button_disabled = (ma.sleeping \/ ma.timer)

\* No key acts on a stream that PulseAudio has removed.
StreamsAreLive ==
  {ma.sink, ma.source} \cup {ma.streams[n] : n \in Devnodes} \subseteq
    ma.live \cup {None, Unknown}
==============================================================================
