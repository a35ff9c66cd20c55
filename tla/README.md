# TLA+ models of gnome-settings-daemon

gnome-settings-daemon is a set of session daemons, one per plugin under `src/plugins/`. Each is a
GApplication with one GMainLoop: D-Bus signals, D-Bus replies, timers, GSettings changes and idle
watches run as callbacks, one at a time, in an order nobody controls. There is next to no shared memory
between threads (the smart-card daemon is the exception). What is hard in this code is therefore
*interleaving of callbacks*: state that one callback caches and another one changes, replies that arrive
after the reason for the call has gone, timers that fire late, services that leave the bus and come back.

This directory models the daemons as TLA+ state machines (one action per callback), checks them with
TLC, and proves the most important invariants with TLAPS.

## 1. Inventory

### 1.1 Components and their state

| component (`src/plugins/…`) | state it keeps | operations: who calls in, what it calls out |
|---|---|---|
| **power** `gsd-power-manager.c` (idle part) | idle mode and the mode before it, temporary unidle, up to four idle watches, the sleep action and its warning, keyboard light with the level to restore, light-sensor claim, lid, session activity | idle monitor (watch fires, user active), settings, screensaver, session manager (inhibited actions, session active), UPower (on battery, lid, keyboard light), logind, iio-sensor-proxy; calls mutter (power save mode), session manager (suspend, log out), UPower |
| **power**, logind inhibitors | lid-switch and sleep descriptors, a `taken` flag each, the 8 s lid timer | external monitor, session active, PrepareForSleep; Inhibit is asynchronous and may be refused |
| **power**, power profiles | cookie of the hold, presence of power-profiles-daemon | low battery, the setting, ProfileReleased; HoldProfile and ReleaseProfile are asynchronous |
| **power**, device warnings | composite device and peripherals, last warning level, debounced serial numbers, one notification per kind, the looping alarm, the critical-action timer | UPower (added, removed, warning level), the user closing a notification |
| **media-keys** `gsd-media-keys-manager.c` (grabs) | key list, keys to sync, accelerator ids, the operation under way, the retry timer, settings of custom paths | GSettings, the shell's name, replies to UngrabAccelerators and GrabAccelerators |
| **media-keys** (actions) | volume streams, disabled power button and its timer, suspend inhibitor, rotation lock, player | an accelerator is activated; calls PulseAudio, logind, rfkill, power, the player, the shell's OSD |
| **media-keys** `mpris-controller.c` | current player and the other players | names `org.mpris.MediaPlayer2.*` come and go, PlaybackStatus changes |
| **rfkill** | soft and hard state per device, ModemManager's and NetworkManager's wwan state, queue of writes to `/dev/rfkill` | kernel events, property setters (airplane mode, Bluetooth airplane mode), the 500 ms second write of a Bluetooth unblock |
| **sharing** | network status and current network, services and their networks, assigned services with a stop timer | NetworkManager, D-Bus methods, systemd units |
| **usb-protection** | protection level, lock state, USBGuard's parameters and rules | settings, screensaver, USBGuard signals and replies, notifications |
| **screensaver-proxy** | cookies per client | Inhibit and UnInhibit of the old interface, clients that leave the bus, replies of the session manager |
| **color** `gsd-night-light.c` | schedule, temperature, smooth transition, disabled until tomorrow, forced | clock, geoclue, settings, D-Bus |
| **housekeeping** `gsd-disk-space.c` | per mount: last free space and time of the last warning, the notification; purges under way | a periodic check, mounts, settings, asynchronous file calls |
| **wwan** | devices, the unlock queue, the prompt shown | ModemManager, password prompts |
| **smartcard** | tokens inserted at login, drivers, worker threads | NSS threads, screensaver, session manager on removal |
| **print-notifications** | CUPS subscription id and renewal timer, held jobs, notifications shown | CUPS notifications, avahi, timers |
| **datetime** | location, time zone being set | geoclue, timedated |
| **xsettings** | settings with serials and overrides, the window property, GTK modules found and wanted, the font monitor with its thread | GSettings, Mutter (scale), the shell (animations), the module and font directories |
| **keyboard** | stamp files of what was migrated, input sources and options | localed, the user, several logins |
| **sound** | pending flush, monitored theme directories, PulseAudio's cache | GSettings, file monitors |
| **a11y-settings** | the screen-reader call under way and its cancellable, an Orca started by the daemon | GSettings, systemd |
| **housekeeping** (thumbnails, OOM, donations), **color** (calibration notices, wall-clock source) | timers, one asynchronous chain per event | GSettings, systemd's JobRemoved, colord, the kernel clock |
| common (`gsd-application.c`, `gnome-settings-bus.c`, ...) | one application per process, cached proxies | start, session end |

### 1.2 How they interact

The daemons do not call each other's code. media-keys talks to rfkill and to power over D-Bus (properties
and methods, as any client would); power and media-keys both hold logind inhibitors; power,
usb-protection and smartcard watch the same screensaver. Inside a daemon the parts interact through
the fields of one manager object and through handlers that act for several parts: in gsd-power the session becoming active
moves the idle machine *and* the lid inhibitor, a low battery moves idle dimming, power profiles and the
warnings. `PowerManager` is the composition that models these handlers.

### 1.3 What is hard, and what makes each component correct

| component | hard behaviour | correct when |
|---|---|---|
| idle machine | a temporary unidle ends after the user came back, settings change between a warning and its action, a suspend between two modes | the way back is always armed; the sleep watch exists exactly when sleeping is wanted; a warning names the action that follows; it implements the idle ladder; left alone it sleeps |
| inhibitors | an answer arrives after its reason is gone, the timer looks at stale state | held while wanted, given back when not, an awake machine can delay its suspend |
| power profiles | the battery recovers before the cookie arrives | a low battery has its hold, and only a low battery |
| warnings | one alarm and one notification for several devices | the alarm ends with its reason, a charged device has no warning |
| accelerator grabs | keys change while grabs are under way, the shell restarts or is replaced, calls are unknown at first | what is grabbed in the end is what the settings say, no grab without a key, one operation at a time, it ends |
| MPRIS players | players start, pause and leave in any order, before and after their proxy is made | no player that runs is missed, none listed twice; the keys go to one that is there, or whose leaving nothing told |
| rfkill | two-step Bluetooth unblock cancelled half-way, a stale wwan state | every setter is answered; airplane mode is on iff every radio is blocked |
| sharing | a restart races the stop timer, the network changes under running services, an earlier daemon left units | a service runs only on a network it is enabled for |
| usb-protection | answers and signals that cross a lock of the screen | locked and protected means new devices are blocked |
| screensaver-proxy | a client leaves while its Inhibit call is answered | every cookie of a client that left is given back |
| night light | midnight, smear, forced mode | disabled until tomorrow ends tomorrow; leaving the forced mode restores the schedule's temperature |
| disk space, purging | rate limits, a walk over files that change | no repeated warning of a volume that stays low; only what is old and the user's is deleted |
| wwan | a prompt with a main loop of its own, in which ModemManager leaves or comes back | one prompt at a time |
| smartcard | a thread and the main loop look at a slot at different times, cards are moved meanwhile, or cannot be read | what is exported is the card that is in the slot |
| printing | what is asked about a printer is newer than the event; names taken by another session | subscription renewed, warnings withdrawn, an object only with its name |
| time zone | three asynchronous calls per place | the zone is that of the place |
| xsettings, keyboard, sound, a11y-settings | changes while a thread, a call or a timer is under way | fonts loaded and told, serials tell changes; the user's choices kept; old sounds flushed; Orca only while wanted |

`PROJECT.json` lists each hazard at its source line with the property that covers it or the reason why none does.

## 2. The modules

| module | models | reads or composes |
|---|---|---|
| `GpmCommon` | backlight arithmetic of `gpm-common.c` (percent to device units and back, step size) | |
| `KbdOps` | the keyboard light: set, toggle, dim, blank, wake, with calls that may fail | `GpmCommon` |
| `PowerIdle` | the idle machine of `gsd-power-manager.c` | `KbdOps`, `IdleLadder` (abstract) |
| `IdleLadder` | abstract specification: what an idle session promises, without watches, settings or devices | |
| `PowerInhibitors` | logind's lid-switch and sleep inhibitors | |
| `PowerProfiles` | the power-saver hold at power-profiles-daemon | |
| `PowerDevices`, `PowerWarnings` | UPower devices, warning notifications, the critical alarm | |
| `PowerManager` | the daemon: the four parts composed, with the callbacks that act for several of them | all of the above |
| `MCPowerIdle`, `MCPowerManager` | settings and scenarios of the runs | |
| `PowerProofs` | theorems about the idle machine (types and the way back; the abstract ladder, devices and wake-ups; watches and the sleep warning), and about gsd-power as a whole and its other parts (the composition, the inhibitors, warnings, power profiles, types) | `PowerManager` |
| `SessionProofs` | theorems about sharing, purging, the screensaver proxy, the sound cache, the clock source and night light | |
| `DaemonProofs` | theorems about a11y-settings and wwan | |
| `SettingsProofs` | theorems about datetime, keyboard, xsettings and usb-protection | |
| `HardwareProofs` | theorems about smart cards, rfkill and disk space; lemmas about sequences and sets of numbers | |
| `PrintProofs`, `MediaProofs` | theorems about print-notifications and printers; about players, media keys and thumbnails | `HardwareProofs`, for its lemmas |
| `KeySync` | the accelerator grabs of gsd-media-keys | |
| `KeySyncProofs` | theorems about them | `KeySync` |
| `MediaKeyActions`, `MprisPlayers` | what a pressed key does; which player the keys go to | |
| `Rfkill` | airplane mode, `/dev/rfkill` | |
| `UsbProtection`, `Sharing`, `ScreensaverProxy` | USBGuard, sharing services, the old screensaver interface | |
| `NightLight`, `DatetimeSource`, `ColorCalibrate` | gsd-color: temperature, its clock source, calibration notices | |
| `DiskSpace`, `TrashPurge`, `Housekeeping` | gsd-housekeeping: space warnings, purging, thumbnails with OOM notices and donations | |
| `WwanUnlock`, `Smartcard` | SIM unlocking, smart cards | |
| `PrintNotifications`, `PrinterSetup` | gsd-print-notifications and gsd-printer | |
| `TimezoneMonitor`, `XSettings`, `KeyboardSetup`, `SoundCache`, `A11ySettings` | the daemons of those names | |
| `Session` | one of the daemons per behaviour, with what surrounds it | all of the above from `MediaKeyActions` on |
| `MCSession` | constants of the runs of `Session` | |

### PowerIdle

`pm` is the part of `GsdPowerManager` the idle logic uses (mode, previous mode, temporary unidle, the three
idle watches and what they were set up for, the user-active watch, the sleep warning, the keyboard light,
the light claim, the lid, the session); `env` is the world outside: settings, inhibited actions, whether
the session has been idle long enough for a watch, pending activity, screen dimming at mutter, the
suspend in progress. Every handler is one action and is written as the code is: a handler computes the
next `pm` and `env` with the operators that stand for the functions it calls (`IdleConfigure`,
`IdleSetMode`, `SetTemporaryUnidle`, ...) in the order it calls them.

Time is not counted. GNOME's idle monitor fires each idle watch once per idle period, when the time since
the last activity passes its deadline. The model lets any armed watch fire at any time, in any order (a
watch added after its deadline has passed fires at once, whatever its neighbours do), and re-arms
the watches on activity. Only the deadlines themselves keep their value, because properties compare
them with the settings. They are computed modulo `GuintRange`, as the `guint` milliseconds of the code are.

`Scenarios` is a bound on the *environment*: in a behaviour, only the happenings of one scenario (a set of
names such as "session", "power", "lid", "settings") occur. Every handler and every pair of handlers that share state meets
in some scenario of some run; all of them together are too many states for TLC. The proofs have no such
bound: they hold for every set of scenarios, the one with everything included.

### The other parts of gsd-power

`PowerInhibitors` keeps for each inhibitor the descriptor, the `taken` flag and whether an Inhibit call is
unanswered. logind may refuse a call; `inh.prompt` says whether in this behaviour it answers before the
8-second safety timer. `PowerProfiles` keeps HoldProfile and ReleaseProfile messages in transit as
sequences and the cookies power-profiles-daemon has given out. `PowerWarnings` keeps the last warning level of the main
device and of peripherals, which notification is on screen, for which device, the looping alarm
and the pending action timers. `PowerManager` says how they share the session, the suspend, the low battery and the
profile daemon: its variables `pm` and `env` are substituted for theirs with `INSTANCE ... WITH`, and
the property `PartsInStep` checks that every step of the daemon is a step of each part.

### KeySync

`mk` holds the fields of `GsdMediaKeysManager` the grabs use and the `MediaKey` objects (identified by
number, freed when nobody refers to them); `calls` are the D-Bus calls to a shell that wait for an answer, with their `GrabUngrabData`;
`world` is the shells and the settings. A callback is written as a chain of functions on a record of the three
(`KeysSyncQueue`, `KeysSyncContinue`, `GrabComplete`, `UpdateCustomBindings`, ...), each named for the C function it stands for, and `Done` at its end frees what lost its last reference.
The loops over the paths of the custom bindings are one step on the set of paths (`UpdateCustomBindings` stands for all the calls of `update_custom_binding` a change of the list makes):
each call replaces the key of its own path and looks at no other, so their order does not matter.
A call made without a proxy is not sent and leaves `keys_sync_data` behind (`stuck`), as in the code.
The shell is external: it may own its name before its object exists ("unknown method"), exit (every call to it fails),
restart, or be replaced by another one. `Happenings` admits the three cases in which the code keeps less than it
promises: "busy" (a shell is replaced while it owes an answer or its proxy is being made), "away" (custom bindings change while there is no
shell) and "unlisted" (a path that is not in the list is given a binding). The passing runs are about behaviours without them,
`found_sync_twice` is about "busy".

### The daemons of the session

The daemons other than gsd-power and the grabs are modelled alike, one module each. A module has one variable, a record of
three sorts of fields: the fields of the daemon's C structures under their names; what is in transit
(calls, answers, signals, idle sources and timers, each in the order its channel keeps); and the world outside (a
kernel, a service, files, what the user wants). A callback of the C code is one action, and a function that several callbacks call is
an operator on the record. A call that blocks is part of the action; an asynchronous one is two, and an operation is cancelled the way
GCancellable does it: the answer arrives as a failure, or as the success that was already under way.

`may` is the set of happenings of the behaviour. It is chosen at the start from the module's `...Worlds` constant, a set of sets, which
is a bound: with `PnWorlds = {{"jobs"}, {"time", "outage"}}`, say, either jobs are printed or time passes and the server goes down, and
not both. What always happens (callbacks of the daemon, answers) is not subject to it. Some happenings admit the cases in which the code
keeps less than it promises; a property names the ones it excludes and its comment says why.

* `Rfkill`: the kernel's table and the daemon's, events and writes in transit, the 500 ms timer of the two-step Bluetooth unblock. Bounds: one Bluetooth and
  one wwan radio, three events, two writes.
* `MprisPlayers`: proxies in the stages being made, ready, finished. Bounds: two players, three proxies (a player that comes back while its old proxy lives). An `orphan` is a proxy
  that became ready after its player had left.
* `MediaKeyActions`: `Outcomes` gives what each key does; streams of PulseAudio, the power button around a suspend, the audio device dialog. Every sound key, that of the microphone
  too, goes through the cache of streams by device node (`StreamsForNode`). One headset with an output and a microphone, and a sound card.
* `UsbProtection`: calls to USBGuard answered in order, its change signals, and the setting and the lock screen that move between. Bound: two calls.
* `Sharing`: units at systemd with their pending jobs; any of them, the handover too, may be running when the daemon starts, left by one that crashed. Bounds: two services, one network of each of three carriers.
* `ScreensaverProxy`: calls in the queue of the bus, departures, cookies. Bounds: two clients, three cookies, two messages.
* `NightLight`: hours in twelfths of a day, temperatures 0..2, schedules over midnight, within a day and around the clock; a place with sun, one without, and one so far west in its zone that the sun
  sets after midnight: the code computes hours of one day's sun, which may be above 24 (`gsd-night-light-common.c:97`).
  `DatetimeSource` is its clock: wall clock and monotonic clock in half seconds, of which the code keeps whole seconds (`UnixTime`), with and without a timerfd. `ColorCalibrate`: one device and the chain behind it.
* `DiskSpace`: three mounts of which one is never warned about, free space 0..3, period one minute. `TrashPurge`: a small tree with a file system
  of its own, a symbolic link of somebody else, a directory in the trash; two purges. `Housekeeping`: two thumbnails, the `int` that truncates times has four values.
* `WwanUnlock`: a stack of nested main loops, each with the unlock it was begun for. Any callback may run within a loop, ModemManager's leaving and coming back included ("restarts"). Bounds: two modems, three unlocks,
  two wrong codes; "removals" with "locks", "restarts", settings and the missing prompt are worlds of their own.
* `Smartcard`: the thread's table and the sources it queued, apart from what is exported. A card may be moved at any time; one that is there may be one that cannot be read (no flags, no token info), and an error may take the event of a slot
  with it. `unread` and `overtaken` are history: the slots where that happened, or where the card was moved again before thread and main loop were done. Bounds: two slots, two cards, two moves, two errors in a row (ten in the code);
  modules that poll and modules that fail are worlds of their own (both together are covered by the theorem).
* `PrintNotifications`: the server's log of events and the number the daemon has read up to; a lease counted in units of which the subscription has
  four and the renewal interval three. A printer event may come without its reasons, which closes the notifications of every printer. Bounds: one printer, one job, four events. `PrinterSetup`: two sessions, the bus's queue of owners of each name, the signals that tell of it.
* `TimezoneMonitor`: places on a line, three zones; calls to the geocoder and timedated in transit. Bound: three travels.
* `XSettings`: the table, the property as clients see it, modules, and the font monitor as a state machine beside its thread; its file monitors start in an idle source and are made anew after each update that is told
  (`RestartMonitors`). Bound: three changes.
* `KeyboardSetup`: what is on disk outlives the daemon: two logins. `SoundCache`: two samples, two directories, four changes. `A11ySettings`: three calls.

`Session` composes them. They are processes that share nothing, so a behaviour of the session is a behaviour of one daemon, and `Session` lets it be any of
them: its state is the sum of theirs instead of the product. The interactions that do exist (media keys that set airplane mode,
units at systemd, the lock screen) are in the modules as calls and answers. Its properties are those of its daemons.

## 3. Runs

| run | asks | states | result |
|---|---|---|---|
| `power_idle` | does the idle machine of a laptop keep its watches and its way back under everything that reconfigures it, and implement `IdleLadder`? | 570 000 | holds |
| `power_devices` | do the keyboard light, the light sensor and the screen follow the modes, with failing calls, keys, blank and log-out actions? | 280 000 | holds |
| `power_live` | does activity wake the machine, and does it sleep when left alone? | 90 000 | holds |
| `power_manager` | do the parts of gsd-power stay in step? | 160 000 | holds |
| `key_sync` | is what is grabbed what the settings say, one operation at a time? | 115 000 | holds |
| `key_settles` | do ungrab, grab and retry end? | 3 400 | holds |
| `session` | does each of the other daemons keep what it is there for? | 3 180 000 | holds |
| `found_never_sleeps`, `found_profile_held`, `found_ups_warning`, `found_sync_twice`, `found_gtk_modules` | section 5 | | violated |

The properties are stated in words above their definitions. In short: `IdleIsEscapable` - an idle, black or temporarily lit screen and a
sleep warning have their user-active watch; `WatchesAreWanted` - a sleep or a dim watch that is armed is wanted now, with
its present deadline, whatever was reconfigured since it was added; `WarningNamesTheAction` - the warning is about the action that will be
taken; `DevicesFollowMode` - a session that counts as not idle is neither dimmed nor black and keeps no keyboard level put away, one that counts as dim is dimmed, as blank is black (a resume apart), and iio-sensor-proxy holds a claim only for an active session with a lit screen and the setting on, and, where neither it nor
the shell's control of the brightness comes and goes, whenever the readings are of use; `ScreenWakesForAReason` - a dark screen is lit by
the user, a resume, a session switch, an idle inhibitor or a temporary unidle, and by nothing else; `IdleKeepsKbdLevel` - no road through the modes changes the level that waking restores;
`InhibitorsHold` - the inhibitors are held while wanted and given back after;
`HeldWhileLow` - a low battery has its profile hold; `WarningsEnd` - the alarm and the
warnings end with their reason; `SettledMeansGrabbed`, `NoLostGrab` - the grabs and the settings agree and no grab is forgotten;
`AssertionsHold` - no grab without a key, one operation at a time, every custom key has its settings.

The properties of `session`: `KillSwitchesFollow` - the timer of a Bluetooth unblock has its task, and airplane mode is announced only when nothing
radiates; `MediaKeysReach` - no player that runs is missed, each is listed once, and keys reach one that is there, or one that left while its proxy was being made; volume keys act on streams that exist, the power button is suppressed
around a suspend and no longer; `UsbPolicyFollows` - USBGuard ends with the policy of the settings and the lock;
`UnitsFollowNetwork` - a service runs exactly where it is enabled, the handover with its system service or as an earlier daemon left it; `NightLightFollows` - the temperature heads for what clock, schedule and user ask for, computed
independently of the code's arithmetic (`Reference`), a night light put off until tomorrow is on again by then; `CallbackInTime` - the clock source calls back at most a second late, also when the clock went back to an earlier second before it was armed;
`InhibitorsHaveOwners` - no inhibitor without a client that is watched; `FallbackOnlyWhenWanted` - no Orca from a cancelled call; `DiskWarningsWait` - a volume
that stays low is not warned about before the period is over; `PurgeSpares` - only old files of the user are purged, whatever changed during the walk;
`AgedMeansWithinLimits` - with an age to go by, cleaned thumbnails are within limits; `OnePromptAtATime` - where a prompt can be had there is one at a time, as long as no task is under way that ModemManager has left behind, and every modem is in one of the daemon's two lists, once, and waits only while it is locked; `ExportedStateFollows` - bus, thread and reader agree about each slot when all are idle, unless the card could not be read or
was moved again before both were done; `PrintersAreServed` - the
subscription is kept, the note that a printer is connecting is withdrawn, a printer object is there only with its name; `ZoneFollowsPlace`; `FontsAreFollowed` - fonts the monitors tell of are loaded, and clients told of them; `SerialsTellChanges` - no
setting changes its value under the same serial; `ChoicesAreKept` - no login replaces what the user chose; `OldSoundsAreFlushed`.

Deadlock is not checked in `session`: a daemon whose counters have reached their bounds, and one that has left with the session, stop.

Bounds: two peripherals of which one is debounced by serial number, two HoldProfile calls (the second is
the one that may overtake the answer to the first), one critical-action timer, a keyboard with levels 0..2
(off, the dimmed level, full), settings that cover timeout 0 and not 0 on each power source and each action type.

Mutants: for each property there is an operator marked `Mistake:` that changes one definition the way a
plausible bug would; with it the property fails under the run's own configuration.

### Fairness

Two runs are fair. In `power_live` the fairness is on `WatchFires`, `IdleBecameActive` and `TemporaryUnidleDone`: these
are callbacks of the main loop whose source is ready (the idle monitor's watch has passed, the
15-second timer has run out), and a GMainLoop dispatches a ready source eventually. Weak fairness says that and no more.
Nothing is assumed of users, settings or daemons. `LeftAloneSleeps` speaks of a session that from
some time on is active, keeps a sleep watch and is not woken; settings, the power source, the lid, suspends, session switches and temporary unidles come before that,
and may come still. It also asks that no sleep trigger was lost on the way (`SleepComesLast`), and the code loses one in three places: during a temporary unidle the trigger is only
remembered, and the trigger of dimming or blanking that comes after it takes its place (`previous_idle_mode`, line 2635); a lid that was closed
meanwhile makes the end of the unidle light nothing and go nowhere; and an inactive session drops the trigger. The watch has fired by then, so that nothing sleeps until the user has been back.

`key_settles` assumes weak fairness of the sync timer, of proxies being made, of replies arriving and of a running shell
exporting its object. The first three are the main loop and the bus; the last is what the retry loop waits for. Users may change settings for ever:
`SettlesDown` speaks of behaviours in which shell and settings stop changing.

Bounds of `KeySync`: one key of the schema and one custom path (the two kinds of key), bindings 0 (none) and 1,
two shells (one to come after another), six objects: the keys of both names, the ones they replaced and are still to be
ungrabbed, and room for the next. One binding per key: several bindings of one key are grabbed and ungrabbed in the same
calls. Deadlock is not checked in `key_settles`, where the last shell may have exited and nothing more can happen.

The invariants of `session` that speak of a moment when nothing is under way need no fairness.

## 4. Theorems

| theorem | says | module |
|---|---|---|
| `TypeCorrect` | `Spec => []TypeOK` | `PowerProofs` |
| `EscapeCorrect` | `Spec => []IdleIsEscapable` | `PowerProofs` |
| `LadderCorrect` | `Spec => ImplementsLadder` (a refinement, with initial states and steps) | `PowerProofs` |
| `DevicesCorrect` | `Spec => []DevicesFollowMode` | `PowerProofs` |
| `WakesCorrect` | `Spec => ScreenWakesForAReason` (an action property) | `PowerProofs` |
| `LevelCorrect` | `Spec => IdleKeepsKbdLevel` (an action property) | `PowerProofs` |
| `WatchesCorrect` | `Spec => []WatchesAreWanted` | `PowerProofs` |
| `WarningCorrect` | `Spec => []WarningNamesTheAction` | `PowerProofs` |
| `PartsCorrect` | `ManagerSpec => PartsInStep` (a refinement) | `PowerProofs` |
| `InhibitorsCorrect` | `ManagerSpec => []InhibitorsHold` | `PowerProofs` |
| `WarningsCorrect` | `ManagerSpec => []WarningsEnd` | `PowerProofs` |
| `HoldCorrect` | `ManagerSpec => []HeldWhileLow` | `PowerProofs` |
| `ManagerTypeCorrect` | `ManagerSpec => []ManagerTypeOK` | `PowerProofs` |
| `KeysTypeCorrect` | `KeysSpec => []KeysTypeOK` | `KeySyncProofs` |
| `AssertionsCorrect` | `KeysSpec => []AssertionsHold`, without "busy" | `KeySyncProofs` |
| `NoLostGrabCorrect` | `KeysSpec => []NoLostGrab`, without "busy" | `KeySyncProofs` |
| `GrabbedCorrect` | `KeysSpec => []SettledMeansGrabbed`, without "busy", "away" and "unlisted" | `KeySyncProofs` |
| `PurgeCorrect` | `SessionSpec => []PurgeSpares` | `SessionProofs` |
| `UnitsCorrect` | `SessionSpec => []UnitsFollowNetwork` | `SessionProofs` |
| `OwnersCorrect` | `SessionSpec => []InhibitorsHaveOwners` | `SessionProofs` |
| `FlushCorrect` | `SessionSpec => []OldSoundsAreFlushed` | `SessionProofs` |
| `CallbackCorrect` | `SessionSpec => []CallbackInTime` | `SessionProofs` |
| `NightCorrect` | `SessionSpec => []NightLightFollows` | `SessionProofs` |
| `FallbackCorrect` | `SessionSpec => []FallbackOnlyWhenWanted` | `DaemonProofs` |
| `OnePromptCorrect` | `SessionSpec => []OnePromptAtATime` | `DaemonProofs` |
| `ZoneCorrect` | `SessionSpec => []ZoneFollowsPlace` | `SettingsProofs` |
| `ChoicesCorrect` | `SessionSpec => ChoicesAreKept` (an action property) | `SettingsProofs` |
| `FontsCorrect` | `SessionSpec => []FontsAreFollowed` | `SettingsProofs` |
| `SerialsCorrect` | `SessionSpec => SerialsTellChanges` (an action property) | `SettingsProofs` |
| `PolicyCorrect` | `SessionSpec => []UsbPolicyFollows` | `SettingsProofs` |
| `ExportedCorrect` | `SessionSpec => []ExportedStateFollows` | `HardwareProofs` |
| `KillSwitchesCorrect` | `SessionSpec => []KillSwitchesFollow` | `HardwareProofs` |
| `DiskCorrect` | `SessionSpec => DiskWarningsWait` (an action property) | `HardwareProofs` |
| `ThumbsCorrect` | `SessionSpec => []AgedMeansWithinLimits` | `MediaProofs` |
| `PrintersCorrect` | `SessionSpec => []PrintersAreServed` | `PrintProofs` |
| `MediaKeysCorrect` | `SessionSpec => []MediaKeysReach` | `MediaProofs` |

All are proved for every value of the constants that satisfies the named assumptions; in particular for every set of scenarios or
worlds, and of keys, paths, shells and objects. The assumptions are sets of settings of the right shape, a keyboard with at least one level, natural bounds, finitely
many names of keys and at least one, and that "nobody" and "no modem" are not names of devices. Three theorems about the grabs also assume what `Happenings` leaves out (below). TLC evaluates them in every run.

### The idle machine

*TypeCorrect.* The type invariant is inductive. The work is in one lemma per function of the daemon
(`IdleConfigure`, `IdleSetMode`, `SetTemporaryUnidle`, `ClearTemporaryUnidle`, ...) that says it keeps `pm` and `env` typed; the step lemma has one
case per action and cites them.

*EscapeCorrect.* Given the types, `IdleIsEscapable` is inductive, but not between the functions of one handler: user activity uses up its watch before the
mode is back at the top, and an idle trigger sets the mode before or after the watch is armed. `Safe(s)` states the property of the state between two such
functions, and there is one lemma per function that says under which condition it keeps (or establishes) `Safe`; `NextSafe` has one case per action.

*LadderCorrect, DevicesCorrect, WakesCorrect, LevelCorrect* share one invariant, `IdleInv`, of four parts. `Lit`: in mode NORMAL the screen is not dimmed, not black unless
the machine is suspending, and no keyboard level is put away. `LightFollows`: a claim that iio-sensor-proxy serves is one the daemon would make now, as far as it has been told (`Wanted`, `Served`); while the sensor's proxy is there and neither it nor the shell's control of the brightness comes and goes, the flag says
exactly whether a claim is of use. (A sensor daemon that was restarted is not asked again before the next blanking, and the control is looked at only when something else asks for it: both are in section 5.) `Lit` also says that a mode DIM is dimmed and a mode BLANK is black, but for the resume that lights the panel. `Remembers`: a temporary
unidle has a mode to return to that is not NORMAL - without it the end of a temporary unidle would be a step the ladder does not have. `Informed`: an active session is a known one, and activity
that is about to be reported has its watch. A state is seen through four views (`Around`, `Watching`, `Standing`, `Looks`); a
function of the daemon keeps the views it does not work on, which is one equation per function, so that each lemma speaks of one view only. The two action properties are proved of
each function along the chain that a handler is: a step that lights the screen or changes the stored level is traced to the one function that may do so.

*WatchesCorrect, WarningCorrect.* The two properties are inductive together with one fact (`Tended`): before the session manager is known nothing is
watched. `idle_configure` establishes them from any state; every other function keeps what they read (`Reads`), or calls `idle_configure` at
its end - which is the point of these properties: a handler that changes one of the twelve inputs and forgets the call has no proof.

### gsd-power as a whole

*PartsCorrect.* Each handler that acts for several parts is matched with an action of each of them, or with a step that leaves the part alone. The
parts share four fields of the idle machine (whether the session is active, whether the battery is low, whether the machine is suspending, whether power-profiles-daemon runs), so
the lemmas on `Keeps` say of each function of the idle machine that it leaves those alone. This is what carries a theorem about a part to the daemon.

*InhibitorsCorrect.* Proved of `InhSpec`, and carried to `ManagerSpec` by `PartsCorrect`. The properties alone are not inductive: they say nothing of the `taken` flag by which the code decides whether to call. `IInv` adds
`Honest` for each descriptor: what is held or asked for is flagged, never both at once, and what is flagged is held, asked for or was refused.

*WarningsCorrect.* Proved of `WarnSpec` and carried over. With the types, `WarningsEnd` is inductive; one lemma (`WarningOps`) says what a warning of any device at any level does to
the alarm, the notification of a low battery and the timers.

*HoldCorrect.* Proved of `ProfSpec` and carried over. A low battery is owed its hold (`HoldComes`): the last call that waits asks for it, or no call waits and the last answer brings the cookie
that was issued last and is still held, or the daemon has that cookie. `Counted` says that no more holds are issued or asked for than were made, which is what makes the cookies of two answers differ.

*ManagerTypeCorrect* puts the types of the parts together.

### The grabs of media-keys

A callback changes half of the daemon's state before its last function puts things right again, so the theorems are proved along the chain of functions a
callback is: a state between two of them is a record of the three variables (`States`), one lemma per function says what it does to the parts of the invariant,
and the step lemma puts the functions of each action together. `Done` is last: it frees the objects nobody refers to, forgets their ids and gives
their numbers back, so it also has to be shown that no call, list or queue names an object it frees.

*KeysTypeCorrect* needs no more than the types, for all happenings.

*AssertionsCorrect, NoLostGrabCorrect* share `SyncInv`: the types, `One` and `Kept`. `One` is what "one operation at a time" means with shells that come and go: the name belongs to the newest shell
while that runs, the daemon's proxy is for that shell, at most one call is under way, and a timer and a call (or a call that was never sent) exclude each other. `Kept`
says of the call under way what its answer will rely on: keys to be grabbed hold no ids, keys to be ungrabbed hold exactly what the call gives up, and what either speaks of is still
in one of the two tables. From that alone follows that an accelerator grabbed at the shell has a key that knows its id. The happening left out, a shell replaced while it
owes an answer, is the one in which `One` really fails (`found_sync_twice`); every other one is in.

*GrabbedCorrect* adds `Between` and `Freed`. Keys have ids of their own binding, no two keys share one, and there is one key for each name of the settings (`IdsNamed`, `IdsApart`, `OneKeyEach`). While
the daemon's proxy is for the shell that owns the name: a queue that is not empty has a timer or a call that will see it (`QueueSeen`); a key that is not queued has the ids of its binding, or
waits for the answer that brings them, and what it has is grabbed there (`KeysInStep`); a grab asks for what nobody holds (`ItemsInStep`). An ungrab is followed by a grab of the rest of the
queue, and it is `IdsApart` that makes giving up the old key's accelerators harmless to the new one. `Freed` says that a number that is not in use carries no ids over to its next object; it holds at the end of a callback only.
The two further happenings left out are those in which the code keeps less: custom bindings that change while there is no shell, and a binding given to a path that is not listed.

### The daemons of the session

The theorems are about `SessionSpec`, the composition that `session` checks, and the same formulas. One daemon runs in a behaviour, so
the invariant is "if it is this daemon, then ...": the actions of the others leave its premise false, and those of this one keep its conclusion.
What the theorems take the constants to be is `SessionAssumption` of `Session` and, for night light, disks, thumbnails, the hardware, printing and players, an assumption of their own next to it: natural bounds, a configurable service that is not the handover service, a clock of at least six half seconds, a tree of files in which every file is
below the top it is said to be below (`TreeIsATree`), finitely many kill switches, card slots and thumbnails, thumbnails of natural sizes with integer limits, an `/etc/fstab` that is a list without a volume "none", a day of at least one unit with schedules at hours of one day (an end at 24 would be told apart from one at 0), a sun that sets after it rises and less than a day later - also after midnight, as `gsd-night-light-common.c` computes it for some places, and a print subscription that lasts no shorter
than the interval in which it is renewed (the code has an hour and half an hour). Those of `SettingsProofs` assume nothing. What each needs of its daemon's types is part of its inductive invariant, which adds:

* `PurgeCorrect`: the age of an item of the trash is looked at once and what is in it is deleted much later. `Licensed` says that every call that is under
  way in the trash is below an item that is still old enough for it, that one among the temporary files is on the file system of the directory, and that one past its first
  answer is not at an X11 socket. Deletions change the time of directories, but none in the trash.
* `UnitsCorrect`: `Follows` says that a pending job of a unit goes the right way, not only what holds when there is none; `Untouched` that before
  there is a session bus nothing was asked, no system service is followed and every unit is as the daemon before left it; `OneOfThem` that a system service is there or is waited for, and only if one was assigned.
* `OwnersCorrect`: an inhibitor has an entry *and every entry a watch* (`TablesAgree`): with the first alone, a watch that goes could leave an entry behind.
* `FlushCorrect`: only sounds of a theme go stale, and PulseAudio has nothing cached when it is away; else a flush would leave something, or reach nobody.
* `CallbackCorrect`: the code compares clocks in whole seconds, so that what it can notice between reading and arming is a clock that went back to an earlier second; the seconds of a clock that goes on are monotonic (`SecondsGoOn`). With a timerfd, what is owed is ready to be dispatched at that very time, so that the clock does not go on; without, the
  look at the clock is a second after arming and is not put off (`LookIsNear`) - unless other sources keep waking the loop, which is the case the property leaves out.
* `NightCorrect` (`NlInv`): the code asks three times whether the time of day is between two others, before and after midnight; `Reference` counts from the start of the first ramp. That they agree, for every length of the day, of the smear and every
  schedule whose ramps do not cross midnight (`CrossesMidnight`) is `RampsOps` - but not after midnight while a sunset of the day before is still to come (`SunIsLate`), where the code does something else (section 5); the division is by constants, so quotient and remainder are taken by their uniqueness (`ModUnique`). A night light that is not active is not told again when it is to be dark: it has to be dark
  already (`OffIsDark`). "Disabled until tomorrow" is looked at before the temperature, so what a recheck leaves disabled has seen no sunrise (`NoSunrise`) - also when the clock was set, which the property had left out before.
* `FallbackCorrect` (`AyInv`): of the calls and answers in transit only the newest counts, the others are cancelled (`NewestCounts`); what counts asks for what the
  setting says (`Agrees`); an answer that failed to start the unit has left it stopped (`AnswersAreLast`); and an Orca the daemon started itself is alone, with no call
  under way that would start another (`Alone`). Any number of calls, where the run has three.
* `OnePromptCorrect` (`WwInv`): every modem is in one list, once, and one that waits is locked or the one being unlocked (`Listed`); a nested main loop belongs to a task that asks (`LoopsAsk`). Both hold whatever ModemManager does. While a prompt can be had and ModemManager has not left
  a task behind (`Calm`), at most one task is under way, for the modem in `unlocking_device` (`OneTask`), so that a task that begins does ask and keeps the next one from beginning. Outside of it none of this holds: a task whose prompt failed, or was dropped when ModemManager left, is still to
  return when the next begins, and with a third two prompts nest. The property leaves those cases out, the partition of the lists does not.
* `ZoneCorrect` (`TzInv`): while there is a monitor, the last call to timedated under way is about the zone the monitor wants (`Sets`), the last question to the geocoder is about the
  country of the place (`Locates`), the notification is about the zone that is set or about to be (`Told`); without a monitor nobody asks (`Quiet`). Answers that overtake each other
  are excluded by the property, as are failing calls and other programs that set the zone.
* `ChoicesCorrect`: a property of steps that needs of the state no more than which fields it has (`BoardFields`): each migration is guarded by what it would override.
* `SerialsCorrect` (`Serials`): what is set has a serial no later than the next write's, what is written an earlier one, and a value that differs from the written one has a serial later than
  the written one. Every function that sets, overrides or drops a value is shown to change the serial exactly when the value changes (`TierKept`).
* `FontsCorrect` (`FontsInv`): the thread is there exactly while the state machine says so; fonts that are loaded and not told of are those of a thread that is done, or of the notification that
  follows; files newer than the fonts loaded have an event, a pending or repeated update, or a thread that has not looked yet - or their event was lost with the monitors that `update_done` restarts, which is recorded (`missed`) and left out.
* `PolicyCorrect` (`UpInv`): the *last* of the calls under way that sets a policy sets the wanted one, or there is none and the policy is that (`Ends`); the allow rule is there or something asked for
  ends with it (`Allows`); the last signal of the screensaver is about the screen as it is (`Hears`); and the proxy that sets comes before the ones that list and append (`Begins`). Any number of calls, where the run has two.

* `ExportedCorrect` (`ScInv`): where the thread's table is wrong about a slot, the slot has an event or the thread is busy with it, unless the card could not be read (`TableFollows`); a source of the main loop that brings an object up to date has one (`SourcesAreSound`), and comes after
  the thread's look at the slot (`SourcesAreFresh`); an object that is to come has a source (`ObjectComes`), and one that is wrong has a source or will get one when the thread is done (`ObjectFollows`), unless a second
  move of the card overtook the thread and the sources of the first (`ObjectSettles`).
* `KillSwitchesCorrect` (`RfInv`): what is shown is what the getters compute from the daemon's tables; the tables with the events that are still to be read put in are the kernel's (`EventsFollow`, by the order of the events); of the writes under way only
  the last may be uncancelled, and it is for the task (`LastWriteCounts`) - so that a timer has its task (`TimerIsForTask`).
* `DiskCorrect` (`DkInv`): the entry of a volume that was warned of is no older than the warning. An entry is replaced in three ways: with a warning that is shown, with one that is lost because another is on the screen
  (the entry is then younger than the last warning that was shown, which only lengthens the wait), and because it is too soon, and then with the time of the entry before.
* `ThumbsCorrect` (`HkInv`): the sizes of the files are summed once, and that of each file deleted is taken off, so it has to be shown that what is taken off is what the rest sums to, whatever the order in which the sum takes the files (`SizeWithout`).
* `PrintersCorrect`: `PnInv` counts: a printer has as many warnings that it is not connected as answers of it wait, and one more if it was last seen connecting; and while the machine is awake and CUPS answers, the lease lasts at least for what is left of the wait and
  the difference between the two intervals. `PsInv`: the session of an object is at the head of the line for its name, or the loss of the name is in its inbox.
* `MediaKeysCorrect`: `MpInv` says that a name the daemon was told of has a proxy or is asked for (`Noticed`), that a proxy is current or listed once and under its own name, and that only the proxies a signal of the bus is still to reach, and those whose player left while they were made, may have no owner (`OwnedBut`) - an induction along the row of proxies a signal reaches.
  `MaInv` says that the power button is disabled exactly while the machine goes to sleep or the timer of the resume runs, *and* that the timer is not there while it goes to sleep; without the latter a resume could leave two timers, of which one would enable the button too early. Streams that the table of device nodes remembers are streams of the mixer (`StreamsLive`).

The induction theorems of the library take an operator as a parameter, which the provers cannot instantiate. Two of the proofs need an induction over data nevertheless: the recursive functions `InTurn` (a signal that reaches
one proxy after the other) and the sum of a fold. `NumbersInduction` (a set of numbers with 0 and all successors is `Nat`) is proved from the library's fact that strict inclusion is well-founded on finite subsets, and takes a *set* as its
parameter; from it follows that the recursive functions exist, and what they yield for every argument.

### What is only model-checked, and why

* *Liveness*: `SettlesDown`, `ActivityWakes`, `LeftAloneSleeps`. Temporal reasoning from fairness needs ENABLED, which the prover does not have.
* *Not done yet*: `SessionTypeOK`, the types of all daemons of the session, of which the theorems above prove what they need.

## 5. Where the code and its documentation disagree

* **never_sleeps** (`found_never_sleeps`): the schema says of the sleep timeout "A value of 0 means never."
  A trigger that was remembered during a temporary unidle is carried out when the unidle ends, and
  a trigger already reported is acted on, whatever the timeout has become.
* **profile_held** (`found_profile_held`): `disable_power_saver` does nothing while the answer
  to HoldProfile is on its way; the cookie that arrives then is never released, and the power-saver profile is held with a
  battery that is not low any more.
* **ups_warning** (`found_ups_warning`): "fully charged or charging, hiding notifications if any" - for a UPS the
  code closes only the notification about discharging; the low and critical ones, which live in
  `notification_low`, stay.
* **sync_twice** (`found_sync_twice`): `keys_sync_start` asserts that no operation is active, and a retry "abort[s] the currently
  running operation". When the shell is replaced while a grab waits for its answer, the old operation is cancelled and a sync is queued; the
  failure of the old call then calls `keys_sync_continue` without looking at `cancelled`, and an
  operation is active when the timer of the queued sync runs out.

* **gtk_modules** (`found_gtk_modules`): a change of the lists of GTK modules is left to the other object by a comment of the manager
  ("Do nothing, as GsdXsettingsGtk will handle it"), and that object listens to the module directory only.

Statements of the repository that do not hold either are kept as predicates in their modules, without a run. TLC refutes each when `Session` states it as an invariant or property with the bounds of
`session.cfg` (the first needs `MaxUpCalls = 3`, the second a schedule that begins or ends at midnight):

| predicate | what the repository says | what the code does |
|---|---|---|
| `UsbProtection!GivenUpForOthers` | protection is given up when somebody else changed the policy (`gsd-usb-protection-manager.c:368`) | our own signal, late, counts as somebody else's |
| `NightLight!SmearBeforeLimits` | smearing goes "before the set limits" (`gsd-night-light.c:347`) | of a ramp that crosses midnight the part before it is left out |
| `ColorCalibrate!OldCalibrationsOnly` | "has not been recalibrated in a while" (`gsd-color-calibrate.c:186`) | the comparison is the other way round |
| `DiskSpace!WarningsKeepPeriod` | not more often than `min-notify-period` (schema) | a volume forgotten in between is warned about at once |
| `Housekeeping!CleanedMeansWithinLimits` | only if both limits are -1 there is nothing to do (`gsd-housekeeping-manager.c:270`) | with no age limit the size is never summed |
| `WwanUnlock!NextIsUnlocked` | "Unlock the next device" (`gsd-wwan-manager.c:380`) | the next one goes through `wwan_manager_unlock_required_cb`, which acts only on a device that is not in the list yet |
| `Smartcard!RemovalIsActedOn` | "The action will get performed when the smartcard used for log in is removed" (`data/org.gnome.settings-daemon.peripherals.gschema.xml.in:11`) | a slot keeps the name of the card it was first registered with: where another card was in the slot before, the login card can be taken out and nothing happens |
| `PrinterSetup!OwnersHaveObjects` | an owner of the names serves printers | a name that comes back (`gsd-printer.c:1158`) gets no objects |
| `XSettings!WrongTypesAreIgnored` | overrides of other types "will be ignored" (`README.xsettings`) | an earlier override of that name stays in force (`xsettings_manager_set_overrides`) |

Further peculiarities of these daemons, in the models as they are: a modem that asks while the task of one for which no prompt could be had is still to return finds that task's cancellable, against `g_warn_if_fail (!self->cancellable)` (`gsd-wwan-manager.c:495`); ToggleContrast passes a theme name as a format of
`g_settings_set` and sets nothing (`gsd-media-keys-manager.c:1996`); `get_stream_for_device_node` remembers "none" for ever; an answer of the audio dialog may be applied to a later
device; `wwan_enabled` is kept when NetworkManager leaves; the level of USB protection is applied without a look at the lock screen when a setting changes (lines 332, 798); a first
synchronisation of gsd-sharing without a bus is lost; a polar place keeps its old sunrise; a warning of a volume is lost while another
is shown, though it counts as given (`gsd-disk-space.c:634`); privacy settings are read at each purge and never watched; a card replaced faster than the main loop runs is missed;
a unit of the handover service that a crashed daemon left running is stopped only once a system service has come and gone, or with the service assigned to the session (`on_system_bus_name_vanished` returns at line 677);
of a schedule whose sunset is after midnight, a recheck after midnight computes a factor above 1 and, where it subtracts, one of -1 that becomes a guint (`gsd-night-light.c:369`); when ModemManager leaves while a prompt is up, the next prompt is begun beside it, the return of the first
clears what belongs to the second (prompt, cancellable, `unlocking_device`, the code), and the second task may never return; the cache of `get_stream_for_device_node` is keyed by the node only, for inputs and outputs: whichever key of a headset comes first decides which stream both act on, and a "none" stays when the stream appears later;
a player that leaves while its proxy is being made leaves a proxy nothing removes until the player has been back; a font installed after the thread has looked, whose event is not yet delivered when `update_done` restarts the monitors, or one installed before the monitors start, is stale until the next change;
a clock set forward, or back within the same second, between reading it and arming a timerfd is not noticed (`gsd-datetime-source.c:203`, against the comment at 233-236); a card that cannot be read when its slot is registered leaves the daemon without token info to look at;
a forgotten print subscription is renewed in vain (`gsd-print-notifications-manager.c:1300`); a printer that is removed and back, or a server that is, before the event about its connection is handled is warned of twice; answers of the geocoder are applied in the order they come;
a `gtk-im-module` that changes is not written until something else is; the `gtk-im-module` stamp, where it cannot be written, resets the module at each login; sound directories made later are not watched.

Other peculiarities met while modelling, modelled as they are and not claimed as bugs: the keyboard toggle returns 0
when it restores a level; a keyboard light switched off by the user is switched on by waking up; a failed
Inhibit leaves its flag set; ProfileReleased forgets whichever cookie is stored; iio-sensor-proxy is not asked again after it
restarts, until the next blanking or waking; the shell's control of the brightness is looked at when the mode changes and not when the control does; a low warning of an unplugged peripheral stays; `timeout * 1000` wraps above 49 days; after a resume
the mode may be SLEEP with the screen on until the next activity.

## 6. Not modelled

* *Time* as such: deadlines are compared, never waited for. Anything that depends on two timers being in
  a ratio is modelled as both orders.
* *Wording, icons and sounds* of notifications, except which notification is on the screen and whether the alarm rings.
* The D-Bus getters, properties forwarded to mutter (screen brightness) and the shutdown of the daemons (including media-keys' last ungrab).
* In media-keys: the search for the application a key starts, its command line, and several bindings of one key.
* In gsd-power: D-Bus getters and shutdown (above); they read the state the models keep.
* In gsd-xsettings: the bytes of the property, the button layout and font strings, X resources, the start-up scripts of Xwayland: conversions without control.
* In printing: authentication of held jobs, the texts of notifications, driver installation beyond its order, the filter of local destinations.
* `cc-wwan-device.c` beyond what gsd-wwan calls (it is a copy of the settings panel's file); string conversion in `gsd-smartcard-utils.c`; the tables
  `tz.c` parses; the astronomy of `gsd-night-light-common.c`, of which the models keep sunrise, sunset, or neither.
* `gsd-application.c`, `gsd-main-helper.c`, `gnome-settings-bus.c`, `gnome-settings-profile.c`, `gnome-settings-plugin-info.c`: start, stop and cached proxies of a process, with no state of their own. `subprojects/`, `po/` and the tests.
* The services around the daemons (logind, UPower, power-profiles-daemon, gnome-shell, the session manager) are environment: they
  do what the code in `src/` expects of them or fail where it handles failure.

## 7. Plan

Modules come in the order of what matters most to a session; each has a type invariant, its hazards' properties, a run and mutants.

1. **Done**: the power daemon (`GpmCommon`, `KbdOps`, `IdleLadder`, `PowerIdle`, `PowerInhibitors`, `PowerProfiles`,
   `PowerWarnings`, `PowerManager`), and the grabs of media-keys (`KeySync`).
2. **Done**: the breadth: every other daemon has its module, and `Session` checks them together.
3. **Done**: every safety property, action property and refinement of gsd-power is a theorem (section 4), so is every safety property of the grabs of media-keys, and that of every other daemon (of calibration, the type invariant is all there is).
4. **Theorems to come**: `SessionTypeOK`.
5. **Abstract specifications**: airplane mode as a function of the radios (`Rfkill` implements it when no write is pending); "a
   cookie lives as long as its client" (`ScreensaverProxy`); the temperature as a function of the hour and the switches (`NightLight`, whose `Reference` is its start); "grabbed = configured" for `KeySync`, whose
   refinement would replace `SettledMeansGrabbed`.
6. **Liveness** of the session's daemons under weak fairness of their main loop: a flush that is due happens, a locked modem is asked for, a font that was installed is told of.
