------------------------------- MODULE Session -------------------------------
(***************************************************************************)
(* The daemons of a session other than gsd-power and the grabs of           *)
(* gsd-media-keys.  They are processes that share no state: each talks to    *)
(* services of its own.  A behaviour is therefore one of a single daemon,    *)
(* with what surrounds it: daemon says which, st is its state, and Daemons   *)
(* which may be chosen.  The constants are those of the daemons.             *)
(***************************************************************************)
EXTENDS Integers, Sequences, FiniteSets

CONSTANTS
  Radios, RadioType, RfWorlds, MaxRfEvents, MaxRfWrites,  \* Rfkill
  Players, MaxProxies,  \* MprisPlayers
  MaWorlds, Outputs, Inputs, Devnodes, UsbOf, VolumeNorm, VolumeUiMax, VolumeStep,  \* MediaKeyActions
  UpWorlds, MaxUpCalls,  \* UsbProtection
  Services, Networks, CarrierType, ShWorlds,  \* Sharing
  Day, Full, MaxSmear, MaxNow, Schedules, SunAt, NlWorlds,  \* NightLight
  MaxClock,  \* DatetimeSource
  ColorDevices,  \* ColorCalibrate
  Clients, MaxCookies, MaxQueued,  \* ScreensaverProxy
  MaxAyCalls, HaveSystemd,  \* A11ySettings
  Fstab, IgnoredKinds, FullSpace, FreePercentNotify, FreePercentNotifyAgain, MinNotifyPeriod, MaxMinutes, DkWorlds,  \* DiskSpace
  Tree, TempRoot, TrashRoot, PurgeAfter, MaxDays, MaxPurges, PuWorlds, Systemd,  \* TrashPurge
  Thumbs, MaxAges, MaxSizes, IntHalf, Year, MaxTime, HkWorlds,  \* Housekeeping
  Modems, MaxUnlocks, MaxCodes, WwWorlds,  \* WwanUnlock
  Slots, Cards, LoginCard, ErrorLimit, MaxMoves, ScWorlds,  \* Smartcard
  Printers, Jobs, PrinterOf, Troubles, RenewInterval, SubscriptionDuration, MaxPrintEvents, MaxTests, PnWorlds,  \* PrintNotifications
  Sessions, Devices, MaxQueues, MaxStatuses, PsWorlds,  \* PrinterSetup
  TzDb, WeatherCities, CountryOf, MaxTravels, TzWorlds,  \* TimezoneMonitor
  GtkModules, CondModules, MaxXsChanges, XsWorlds,  \* XSettings
  LocaledAnswers, OldLayouts, OldOptions, MaxLogins, MaxKbCalls, KbWorlds,  \* KeyboardSetup
  Samples, Directories, MaxSoundEvents, SoWorlds,  \* SoundCache
  Daemons  \* those of a behaviour

VARIABLES daemon, st

vars == <<daemon, st>>

Rf == INSTANCE Rfkill WITH rf <- st
Mp == INSTANCE MprisPlayers WITH mp <- st
Ma == INSTANCE MediaKeyActions WITH ma <- st
Up == INSTANCE UsbProtection WITH up <- st
Sh == INSTANCE Sharing WITH sh <- st
Nl == INSTANCE NightLight WITH nl <- st
Ds == INSTANCE DatetimeSource WITH ds <- st
Cc == INSTANCE ColorCalibrate WITH cc <- st
Sp == INSTANCE ScreensaverProxy WITH sp <- st
Ay == INSTANCE A11ySettings WITH ay <- st
Dk == INSTANCE DiskSpace WITH dk <- st
Pu == INSTANCE TrashPurge WITH pu <- st
Hk == INSTANCE Housekeeping WITH hk <- st
Ww == INSTANCE WwanUnlock WITH ww <- st
Sc == INSTANCE Smartcard WITH sc <- st
Pn == INSTANCE PrintNotifications WITH pn <- st
Ps == INSTANCE PrinterSetup WITH ps <- st
Tz == INSTANCE TimezoneMonitor WITH tz <- st
Xs == INSTANCE XSettings WITH xs <- st
Kb == INSTANCE KeyboardSetup WITH kb <- st
So == INSTANCE SoundCache WITH so <- st

\* What the theorems about the daemons take the constants to be; those that
\* need more of theirs have an assumption of their own.
ASSUME SessionAssumption ==
  /\ Sh!Handover \notin Services
  /\ MaxClock \in Nat /\ MaxClock >= 6
  /\ MaxCookies \in Nat /\ MaxQueued \in Nat
  /\ Pu!TreeIsATree /\ PurgeAfter \in Nat /\ MaxDays \in Nat /\ MaxPurges \in Nat \ {0}
  /\ Systemd \subseteq BOOLEAN
  /\ MaxSoundEvents \in Nat
  /\ HaveSystemd \subseteq BOOLEAN
  /\ MaxUnlocks \in Nat /\ MaxCodes \in Nat /\ Ww!NoModem \notin Modems

ASSUME NightAssumption ==
  /\ Day \in Nat \ {0} /\ MaxSmear \in Nat /\ Schedules \subseteq [from : 0 .. Day - 1, to : 0 .. Day - 1]
  /\ \A place \in Nl!Places :  \* the sun sets after it has risen, and within a day of it
       /\ SunAt[place] \in [from : Int, to : Int]
       /\ SunAt[place].to <= SunAt[place].from /\ SunAt[place].from <= SunAt[place].to + Day

ASSUME DiskAssumption ==
  /\ Fstab \in Seq(Dk!Volumes) /\ "none" \notin Dk!Volumes
  /\ FullSpace \in Nat /\ MinNotifyPeriod \in Nat

ASSUME ThumbsAssumption ==
  /\ IsFiniteSet(DOMAIN Thumbs) /\ Thumbs \in [DOMAIN Thumbs -> Nat]
  /\ MaxAges \subseteq Int /\ MaxSizes \subseteq Int

ASSUME HardwareAssumption == IsFiniteSet(Radios) /\ IsFiniteSet(Slots)

ASSUME PrintAssumption ==
  RenewInterval \in Nat /\ SubscriptionDuration \in Nat /\ RenewInterval <= SubscriptionDuration

ASSUME PlayersAssumption == MaxProxies \in Nat

SessionInit ==
  /\ daemon \in Daemons
  /\ \/ daemon = "rfkill" /\ Rf!RfInit
     \/ daemon = "players" /\ Mp!MpInit
     \/ daemon = "media_keys" /\ Ma!MaInit
     \/ daemon = "usb" /\ Up!UpInit
     \/ daemon = "sharing" /\ Sh!ShInit
     \/ daemon = "night_light" /\ Nl!NlInit
     \/ daemon = "clock" /\ Ds!DsInit
     \/ daemon = "calibration" /\ Cc!CcInit
     \/ daemon = "screensaver" /\ Sp!SpInit
     \/ daemon = "a11y" /\ Ay!AyInit
     \/ daemon = "disk" /\ Dk!DkInit
     \/ daemon = "purge" /\ Pu!PuInit
     \/ daemon = "housekeeping" /\ Hk!HkInit
     \/ daemon = "wwan" /\ Ww!WwInit
     \/ daemon = "smartcard" /\ Sc!ScInit
     \/ daemon = "print" /\ Pn!PnInit
     \/ daemon = "printer" /\ Ps!PsInit
     \/ daemon = "datetime" /\ Tz!TzInit
     \/ daemon = "xsettings" /\ Xs!XsInit
     \/ daemon = "keyboard" /\ Kb!KbInit
     \/ daemon = "sound" /\ So!SoInit

Of(d) == daemon = d /\ UNCHANGED daemon

SessionNext ==
  \/ Of("rfkill") /\ Rf!RfNext
  \/ Of("players") /\ Mp!MpNext
  \/ Of("media_keys") /\ Ma!MaNext
  \/ Of("usb") /\ Up!UpNext
  \/ Of("sharing") /\ Sh!ShNext
  \/ Of("night_light") /\ Nl!NlNext
  \/ Of("clock") /\ Ds!DsNext
  \/ Of("calibration") /\ Cc!CcNext
  \/ Of("screensaver") /\ Sp!SpNext
  \/ Of("a11y") /\ Ay!AyNext
  \/ Of("disk") /\ Dk!DkNext
  \/ Of("purge") /\ Pu!PuNext
  \/ Of("housekeeping") /\ Hk!HkNext
  \/ Of("wwan") /\ Ww!WwNext
  \/ Of("smartcard") /\ Sc!ScNext
  \/ Of("print") /\ Pn!PnNext
  \/ Of("printer") /\ Ps!PsNext
  \/ Of("datetime") /\ Tz!TzNext
  \/ Of("xsettings") /\ Xs!XsNext
  \/ Of("keyboard") /\ Kb!KbNext
  \/ Of("sound") /\ So!SoNext

SessionSpec == SessionInit /\ [][SessionNext]_vars

-------------------------------------------------------------------------------
(* Properties: those of the daemons' modules.                              *)

\* The state of every daemon has its type.
SessionTypeOK ==
  /\ daemon \in Daemons
  /\ daemon = "rfkill" => Rf!RfTypeOK
  /\ daemon = "players" => Mp!MpTypeOK
  /\ daemon = "media_keys" => Ma!MaTypeOK
  /\ daemon = "usb" => Up!UpTypeOK
  /\ daemon = "sharing" => Sh!ShTypeOK
  /\ daemon = "night_light" => Nl!NlTypeOK
  /\ daemon = "clock" => Ds!DsTypeOK
  /\ daemon = "calibration" => Cc!CcTypeOK
  /\ daemon = "screensaver" => Sp!SpTypeOK
  /\ daemon = "a11y" => Ay!AyTypeOK
  /\ daemon = "disk" => Dk!DkTypeOK
  /\ daemon = "purge" => Pu!PuTypeOK
  /\ daemon = "housekeeping" => Hk!HkTypeOK
  /\ daemon = "wwan" => Ww!WwTypeOK
  /\ daemon = "smartcard" => Sc!ScTypeOK
  /\ daemon = "print" => Pn!PnTypeOK
  /\ daemon = "printer" => Ps!PsTypeOK
  /\ daemon = "datetime" => Tz!TzTypeOK
  /\ daemon = "xsettings" => Xs!XsTypeOK
  /\ daemon = "keyboard" => Kb!KbTypeOK
  /\ daemon = "sound" => So!SoTypeOK

\* gsd-rfkill: a Bluetooth unblock that waits has its timer and its task, and
\* airplane mode is on only when nothing radiates.
KillSwitchesFollow ==
  daemon = "rfkill" => Rf!TimerHasTask /\ Rf!AirplaneModeIsOff

\* gsd-media-keys: no player that runs is missed, each is listed once, and the
\* keys go to one that is there, or to one that left while its proxy was made;
\* the sound keys act on streams that exist, and the power button is suppressed
\* around a suspend and no longer.
MediaKeysReach ==
  /\ daemon = "players" =>
       Mp!PlayersAreListedOnce /\ Mp!NoPlayerIsMissed /\ Mp!KeysReachAPlayer
  /\ daemon = "media_keys" => Ma!PowerButtonIsSuppressed /\ Ma!StreamsAreLive

\* gsd-usb-protection: USBGuard ends with the policy of the settings and the lock.
UsbPolicyFollows == daemon = "usb" => Up!UsbGuardFollows

\* gsd-sharing: a unit runs where its network is, and nowhere else, but for a
\* handover that an earlier daemon left.
UnitsFollowNetwork == daemon = "sharing" => Sh!UnitsFollowNetwork

\* gsd-color: the temperature heads for what the schedule and the clients
\* want, unless the sun is late, and a night light put off until tomorrow is on
\* again by then.
NightLightFollows ==
  daemon = "night_light" => Nl!NightLightFollows /\ Nl!DisabledEndsAtSunrise

\* gsd-color: the clock source night light waits with calls back in time; a clock
\* set back by seconds while it is made is not missed.
CallbackInTime == daemon = "clock" => Ds!CallbackInTime

\* gsd-screensaver-proxy: what inhibits the screen belongs to somebody watched.
InhibitorsHaveOwners == daemon = "screensaver" => Sp!InhibitorsHaveOwners

\* gsd-a11y-settings: Orca is started without systemd only while it is wanted.
FallbackOnlyWhenWanted == daemon = "a11y" => Ay!FallbackOnlyWhenWanted

\* gsd-housekeeping: of a volume that stays low, the next warning is a period later.
DiskWarningsWait == [][daemon = "disk" => Dk!RepeatsWait]_vars

\* gsd-housekeeping: only what is old, and the user's, is purged.
PurgeSpares == daemon = "purge" => Pu!PurgeSpares

\* gsd-housekeeping: with an age to go by, cleaned thumbnails are within limits.
AgedMeansWithinLimits == daemon = "housekeeping" => Hk!AgedMeansWithinLimits

\* gsd-wwan: the user is asked for one SIM at a time, unless ModemManager has
\* left a task behind, and every modem waits in one of the two lists.
OnePromptAtATime == daemon = "wwan" => Ww!OnePromptAtATime /\ Ww!ListsArePartition

\* gsd-smartcard: what is exported of a slot is the card that is in it, unless it
\* could not be read or was moved again before it was dealt with.
ExportedStateFollows == daemon = "smartcard" => Sc!ExportedStateFollows

\* gsd-print-notifications: the subscription is renewed while it is used, and
\* the note that a printer is being connected goes when it answers; an object
\* of gsd-printer is there only with its name, or until the loss is heard of.
PrintersAreServed ==
  /\ daemon = "print" => Pn!SubscriptionIsKept /\ Pn!ConnectingIsWithdrawn
  /\ daemon = "printer" => Ps!ObjectsHaveNames

\* gsd-datetime: the zone is that of the place once nothing is under way.
ZoneFollowsPlace == daemon = "datetime" => Tz!ZoneFollowsPlace

\* gsd-xsettings: fonts that the monitors tell of get loaded, and clients get told.
FontsAreFollowed == daemon = "xsettings" => Xs!FontsAreFollowed

\* gsd-xsettings: a client sees by the serials which settings changed.
SerialsTellChanges == [][daemon = "xsettings" => Xs!SerialsTellChanges]_vars

\* gsd-keyboard: input sources, options and the module the user chose are kept.
ChoicesAreKept == [][daemon = "keyboard" => Kb!ChoicesAreKept]_vars

\* gsd-sound: sounds of an earlier theme are flushed.
OldSoundsAreFlushed == daemon = "sound" => So!OldSoundsAreFlushed

\* Violated: gsd-xsettings, "GsdXsettingsGtk will handle it".
ModulesFollowLists == daemon = "xsettings" => Xs!ModulesFollowLists
=============================================================================
