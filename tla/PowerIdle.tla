------------------------------ MODULE PowerIdle -------------------------------
(***************************************************************************)
(* The idle state machine of gsd-power (gsd-power-manager.c): what the     *)
(* session being idle does to the screen, the keyboard light and the       *)
(* machine, and which watches the daemon keeps at the idle monitor so that *)
(* it goes one way and comes back.                                         *)
(*                                                                         *)
(* pm is the daemon: the fields of GsdPowerManager that these handlers     *)
(* read and write.  env is what the daemon reads elsewhere: cached D-Bus   *)
(* properties, GSettings, and the services' own view.  A handler is an     *)
(* action; the helpers it calls are functions of pm (p) and env (e), so    *)
(* that an action composes them in the order of the code.                  *)
(***************************************************************************)
EXTENDS KbdOps

CONSTANTS
  Settings,        \* the GSettings states considered
  Inhibitors,      \* the InhibitedActions flags gnome-session may show
  Scenarios,       \* sets of outside events: a behaviour sees those of one set
  GuintRange,      \* 2^32 in the code: a guint wraps there
  IsVirtualMachine, UnderGdm, ShowSleepWarnings, HasIio

Sources == {"ac", "battery"}

ActionTypes ==
  {"blank", "suspend", "shutdown", "hibernate", "interactive", "nothing", "logout"}

\* What a change of a setting is told apart by: the keys the daemon reads.
SettingRecords ==
  [type : [Sources -> ActionTypes], timeout : [Sources -> Int],
   idle_dim : BOOLEAN, idle_delay : Nat, ambient : BOOLEAN]

ASSUME IdleAssumption ==
  /\ Settings \subseteq SettingRecords
  /\ Inhibitors \subseteq {"idle", "suspend", "logout"}
  /\ GuintRange \in Nat \ {0}
  /\ {IsVirtualMachine, UnderGdm, ShowSleepWarnings, HasIio} \subseteq BOOLEAN

VARIABLES pm, env

vars == <<pm, env>>

-------------------------------------------------------------------------------
(* Types.                                                                  *)

\* GsdPowerIdleMode, compared with <= in the code.
NORMAL == 0
DIM    == 1
BLANK  == 2
SLEEP  == 3
IdleModes == NORMAL..SLEEP

\* gsd-power-constants.h, in seconds.
SCREENSAVER_TIMEOUT_BLANK   == 30
IDLE_DIM_BLANK_DISABLED_MIN == 60
MINIMUM_IDLE_DIM_DELAY      == 10

\* The idle watches; a watch that fired stays set until it is cleared, and
\* fires again only after user activity.
Watches == {"dim", "blank", "sleep", "warning"}
WatchStates == {"none", "armed", "fired"}

Managers ==
  [session_is_active : BOOLEAN, screensaver_active : BOOLEAN,
   lid_is_closed : BOOLEAN, battery_is_low : BOOLEAN, power_saver_enabled : BOOLEAN,
   current_idle_mode : IdleModes, previous_idle_mode : IdleModes,
   temporary_unidle : BOOLEAN,
   watch : [Watches -> WatchStates], after : [Watches -> Nat],
   user_active_id : BOOLEAN,
   notification : BOOLEAN, sleep_action_type : ActionTypes,
   screen_blanked : BOOLEAN, light_claimed : BOOLEAN, kbd : KbdRecords]

Environments ==
  [session_known : BOOLEAN, inhibited : SUBSET Inhibitors, source : Sources,
   settings : Settings, ppd_running : BOOLEAN,
   shell_control : BOOLEAN, iio_proxy : BOOLEAN, sensor_claimed : BOOLEAN,
   dimming : BOOLEAN, sleeping : BOOLEAN, activity : BOOLEAN,
   events : Scenarios]

\* The kinds of outside events of this behaviour.
Happens(kind) == kind \in env.events

\* The two SetBrightness replies one handler can need.
Accepted == [toggle |-> TRUE, set |-> TRUE]
Replies == IF Happens("kbdfail") THEN [toggle : BOOLEAN, set : BOOLEAN] ELSE {Accepted}

TypeOK == pm \in Managers /\ env \in Environments

-------------------------------------------------------------------------------
(* What the handlers read.                                                 *)

\* The flag that stops an action "in addition to idle".
InhibitorFor(action) ==
  CASE action \in {"blank", "shutdown", "interactive"} -> {"idle"}
    [] action \in {"hibernate", "suspend"}             -> {"suspend"}
    [] action = "logout"                               -> {"logout"}
    [] OTHER                                           -> {}

ActionInhibited(e, action) ==
  e.session_known /\ InhibitorFor(action) \cap e.inhibited # {}

SleepType(e) == e.settings.type[e.source]

\* The sleep timeout idle_configure works with; 0 is never.
SleepTimeout(e) ==
  IF \/ ActionInhibited(e, SleepType(e))
     \/ IsVirtualMachine /\ SleepType(e) \in {"suspend", "hibernate"}
     \/ UnderGdm /\ SleepType(e) = "logout"
     \/ e.settings.timeout[e.source] < 0
  THEN 0
  ELSE e.settings.timeout[e.source]

PowerSaveActive(p, e) ==
  IF e.ppd_running THEN p.power_saver_enabled ELSE p.battery_is_low

DimTimeout(p, e) ==
  LET delay == e.settings.idle_delay
  IN CASE p.screensaver_active                        -> 0
       [] ~p.screensaver_active /\ PowerSaveActive(p, e) -> SCREENSAVER_TIMEOUT_BLANK
       [] ~p.screensaver_active /\ ~PowerSaveActive(p, e) ->
            IF ~e.settings.idle_dim THEN 0
            ELSE IF delay = 0 THEN IDLE_DIM_BLANK_DISABLED_MIN
            ELSE IF delay \div 2 < MINIMUM_IDLE_DIM_DELAY THEN 0
            ELSE delay \div 2

\* timeout * 1000 as a guint of milliseconds.
Msec(seconds) == (seconds * 1000) % GuintRange

\* timeout_sleep_warning_msec: half the timeout, and 1 when that is nothing.
\* The conversion of the double and the product compared with 10 wrap as well.
WarningMsec(seconds) ==
  LET msec == (seconds * 500) % GuintRange
  IN IF (msec * 1000) % GuintRange < MINIMUM_IDLE_DIM_DELAY THEN 1 ELSE msec

\* iio_proxy_should_claim_light: the shell has brightness control, and so on.
ShouldClaimLight(p, e) ==
  e.shell_control /\ p.session_is_active /\ ~p.screen_blanked /\ e.settings.ambient

-------------------------------------------------------------------------------
(* The helpers: pm and env before to pm and env after, as [p, e] records.  *)

State == [p : Managers, e : Environments]

\* iio_proxy_claim_light(iio_proxy_should_claim_light()): without a proxy, or
\* when the flag already agrees, nothing is sent.
MaybeClaimLight(s) ==
  IF ~s.e.iio_proxy \/ s.p.light_claimed = ShouldClaimLight(s.p, s.e)
  THEN s
  ELSE [s EXCEPT !.p.light_claimed = ~@,
                 !.e.sensor_claimed = ShouldClaimLight(s.p, s.e)]

EnableMonitors(s) == MaybeClaimLight([s EXCEPT !.p.screen_blanked = FALSE])

DisableMonitors(s) == MaybeClaimLight([s EXCEPT !.p.screen_blanked = TRUE])

\* The power action of the SLEEP mode; every other one is a request to logind
\* or gnome-session, whose answer is PrepareForSleep or the end of the session.
DoPowerAction(s) == IF SleepType(s.e) = "blank" THEN DisableMonitors(s) ELSE s

EnterMode(s, mode, r) ==
  CASE mode = DIM    -> [s EXCEPT !.p.kbd = KbdDim(@, r.set), !.e.dimming = TRUE]
    [] mode = BLANK  -> [DisableMonitors(s) EXCEPT !.p.kbd = KbdBlank(@, r.toggle)]
    [] mode = SLEEP  -> DoPowerAction(s)
    [] mode = NORMAL -> [EnableMonitors(s) EXCEPT !.e.dimming = FALSE,
                                                  !.p.kbd = KbdWake(@, r.toggle, r.set)]

\* Mistake: the guard against going up forgets that NORMAL is meant to.
IdleSetModeNeverUp(s, mode, r) ==
  IF mode <= s.p.current_idle_mode \/ ~s.p.session_is_active
  THEN s
  ELSE [EnterMode([s EXCEPT !.p.user_active_id = TRUE], mode, r)
          EXCEPT !.p.current_idle_mode = mode]

\* Mistake: a session that is idle already goes no further.
IdleSetModeOnce(s, mode, r) ==
  IF \/ s.p.current_idle_mode # NORMAL /\ mode # NORMAL
     \/ ~s.p.session_is_active
  THEN s
  ELSE [EnterMode([s EXCEPT !.p.user_active_id = @ \/ mode # NORMAL], mode, r)
          EXCEPT !.p.current_idle_mode = mode]

\* idle_set_mode.
IdleSetMode(s, mode, r) ==
  IF \/ mode <= s.p.current_idle_mode /\ mode # NORMAL
     \/ ~s.p.session_is_active
  THEN s
  ELSE LET watched == [s EXCEPT !.p.user_active_id = @ \/ mode # NORMAL]
       IN IF mode = SLEEP /\ ActionInhibited(s.e, SleepType(s.e))
          THEN watched
          ELSE [EnterMode(watched, mode, r) EXCEPT !.p.current_idle_mode = mode]

\* idle_set_mode_no_temp: a trigger during a temporary unidle waits for its end.
IdleSetModeNoTemp(s, mode, r) ==
  IF s.p.temporary_unidle
  THEN [s EXCEPT !.p.previous_idle_mode = mode]
  ELSE IdleSetMode(s, mode, r)

\* Mistake: a second temporary unidle remembers the NORMAL of the first.
SetTemporaryUnidleAgain(s, enable, r) ==
  IF ~enable
  THEN [s EXCEPT !.p.temporary_unidle = FALSE]
  ELSE [IdleSetMode([s EXCEPT !.p.previous_idle_mode = s.p.current_idle_mode], NORMAL, r)
          EXCEPT !.p.temporary_unidle = TRUE]

SetTemporaryUnidle(s, enable, r) ==
  IF ~enable
  THEN [s EXCEPT !.p.temporary_unidle = FALSE]
  ELSE IF s.p.temporary_unidle
  THEN s
  ELSE [IdleSetMode([s EXCEPT !.p.previous_idle_mode = s.p.current_idle_mode], NORMAL, r)
          EXCEPT !.p.temporary_unidle = TRUE]

\* Mistake: the lid is not looked at.
ShouldSetTemporaryUnidleAnyLid(p) ==
  p.session_is_active /\ (p.temporary_unidle \/ p.current_idle_mode \in {DIM, BLANK})

ShouldSetTemporaryUnidle(p) ==
  /\ ~p.lid_is_closed
  /\ p.session_is_active
  /\ p.temporary_unidle \/ p.current_idle_mode \in {DIM, BLANK}

\* A watch that is wanted is set anew, and one that is not is removed.
SetWatch(s, w, wanted, msec) ==
  [s EXCEPT !.p.watch[w] = IF wanted THEN "armed" ELSE "none",
            !.p.after[w] = IF wanted THEN msec ELSE 0]

\* Mistake: the session stands down and the sleep watch stays.
StandDownStillSleeps(s, r) ==
  LET n == IdleSetMode(s, NORMAL, r)
      c == SetWatch(SetWatch(n, "dim", FALSE, 0), "warning", FALSE, 0)
  IN SetTemporaryUnidle([c EXCEPT !.p.notification = FALSE], FALSE, r)

\* The branch of idle_configure for a session that may not go idle.
StandDown(s, r) ==
  LET n == IdleSetMode(s, NORMAL, r)
      c == SetWatch(SetWatch(SetWatch(n, "sleep", FALSE, 0), "dim", FALSE, 0),
                    "warning", FALSE, 0)
  IN SetTemporaryUnidle([c EXCEPT !.p.notification = FALSE], FALSE, r)

\* Mistake: the action is recorded when a warning is first wanted, and not
\* when the one wanted is for another action.
ConfigureSleepOnce(s) ==
  LET action  == SleepType(s.e)
      timeout == SleepTimeout(s.e)
      warn    == timeout # 0 /\ action \in {"logout", "suspend", "hibernate"}
      sleep   == SetWatch(s, "sleep", timeout # 0 /\ action # "nothing", Msec(timeout))
  IN [SetWatch(sleep, "warning", warn, WarningMsec(timeout)) EXCEPT
        !.p.sleep_action_type = IF warn /\ s.p.watch["warning"] = "none" THEN action ELSE @,
        !.p.notification = @ /\ warn]

ConfigureSleep(s) ==
  LET action  == SleepType(s.e)
      timeout == SleepTimeout(s.e)
      warn    == timeout # 0 /\ action \in {"logout", "suspend", "hibernate"}
      sleep   == SetWatch(s, "sleep", timeout # 0 /\ action # "nothing", Msec(timeout))
  IN [SetWatch(sleep, "warning", warn, WarningMsec(timeout)) EXCEPT
        !.p.sleep_action_type = IF warn THEN action ELSE @,
        !.p.notification = @ /\ warn]

ConfigureDim(s) ==
  SetWatch(s, "dim", DimTimeout(s.p, s.e) # 0, Msec(DimTimeout(s.p, s.e)))

\* idle_configure: every watch follows the session, the settings, the power
\* source and the screensaver.
IdleConfigure(s, r) ==
  IF ~s.e.session_known
  THEN s
  ELSE LET b == SetWatch(s, "blank", s.p.screensaver_active,
                         Msec(SCREENSAVER_TIMEOUT_BLANK))
       IN IF \/ ~s.p.session_is_active
             \/ "idle" \in s.e.inhibited /\ ~s.p.screensaver_active
          THEN StandDown(b, r)
          ELSE ConfigureDim(ConfigureSleep(b))

-------------------------------------------------------------------------------
(* The actions.  Step commits the state a handler computed.                *)

Here == [p |-> pm, e |-> env]

Step(s) == pm' = s.p /\ env' = s.e

\* gsd_power_manager_startup: the handlers are connected, idle_configure runs
\* once and the monitors are turned on; power-profiles-daemon and the sensor
\* proxy have not answered yet.
Startup(e, active, lid, level) ==
  LET p == [session_is_active |-> active, screensaver_active |-> FALSE,
            lid_is_closed |-> lid, battery_is_low |-> FALSE,
            power_saver_enabled |-> FALSE,
            current_idle_mode |-> NORMAL, previous_idle_mode |-> NORMAL,
            temporary_unidle |-> FALSE,
            watch |-> [w \in Watches |-> "none"], after |-> [w \in Watches |-> 0],
            user_active_id |-> FALSE,
            notification |-> FALSE, sleep_action_type |-> "blank",
            screen_blanked |-> FALSE, light_claimed |-> FALSE,
            kbd |-> [now |-> level, old |-> NoLevel, pre_dim |-> NoLevel]]
  IN EnableMonitors(IdleConfigure([p |-> p, e |-> e], Accepted))

Init ==
  \E known \in BOOLEAN, active \in BOOLEAN, lid \in BOOLEAN, level \in KbdLevels,
     inhibited \in SUBSET Inhibitors, source \in Sources, settings \in Settings,
     control \in BOOLEAN, events \in Scenarios :
    /\ active => known
    /\ lid => "lid" \in events
    /\ ~control => "shell" \in events
    /\ source = "battery" => "power" \in events
    /\ HasKbd \/ level = 0
    /\ LET e == [session_known |-> known, inhibited |-> IF known THEN inhibited ELSE {},
                 source |-> source, settings |-> settings, ppd_running |-> FALSE,
                 shell_control |-> control, iio_proxy |-> FALSE, sensor_claimed |-> FALSE,
                 dimming |-> FALSE, sleeping |-> FALSE, activity |-> FALSE,
                 events |-> events]
           s == Startup(e, active, lid, level)
       IN pm = s.p /\ env = s.e

\* Mutter tells of an idle watch; its signals arrive in order, so none
\* overtakes the news of user activity.
WatchFires(w) ==
  /\ pm.watch[w] = "armed"
  /\ ~env.activity
  /\ \E r \in Replies :
       LET s == [Here EXCEPT !.p.watch[w] = "fired"]
       IN Step(CASE w = "dim"     -> IdleSetModeNoTemp(s, DIM, r)
                 [] w = "blank"   -> IdleSetModeNoTemp(s, BLANK, r)
                 [] w = "sleep"   -> IdleSetModeNoTemp(s, SLEEP, r)
                 [] w = "warning" ->
                      [s EXCEPT !.p.notification = ShowSleepWarnings,
                                !.p.user_active_id = TRUE])

\* The user does something: watches that fired are armed again, and a user
\* active watch is on its way to the daemon.
UserActivity ==
  /\ Step([Here EXCEPT
             !.p.watch = [w \in Watches |-> IF @[w] = "fired" THEN "armed" ELSE @[w]],
             !.e.activity = @ \/ pm.user_active_id])

\* Mistake: the temporary unidle goes on, though nobody watches for the user.
IdleBecameActiveInUnidle ==
  /\ env.activity
  /\ \E r \in Replies :
       LET n == IdleSetMode([Here EXCEPT !.e.activity = FALSE, !.p.notification = FALSE],
                            NORMAL, r)
       IN Step([n EXCEPT !.p.user_active_id = FALSE])

IdleBecameActive ==
  /\ env.activity
  /\ \E r \in Replies :
       LET t == SetTemporaryUnidle([Here EXCEPT !.e.activity = FALSE], FALSE, r)
           n == IdleSetMode([t EXCEPT !.p.notification = FALSE], NORMAL, r)
       IN Step([n EXCEPT !.p.user_active_id = FALSE])

\* The timeout of the temporary unidle.
TemporaryUnidleDone ==
  /\ pm.temporary_unidle
  /\ \E r \in Replies :
       Step([IdleSetMode(Here, pm.previous_idle_mode, r) EXCEPT !.p.temporary_unidle = FALSE])

ScreensaverActiveChanged ==
  /\ Happens("screensaver")
  /\ \E r \in Replies :
       LET active == ~pm.screensaver_active
           s == IdleConfigure([Here EXCEPT !.p.screensaver_active = active], r)
       IN Step(IF active THEN IdleSetMode(s, BLANK, r) ELSE s)

UpdateTemporaryUnidle(s, r) ==
  SetTemporaryUnidle(s, ShouldSetTemporaryUnidle(s.p), r)

WakeUpScreen ==
  /\ Happens("wakeup")
  /\ \E r \in Replies : Step(UpdateTemporaryUnidle(Here, r))

OnBatteryChanged ==
  /\ Happens("power")
  /\ \E r \in Replies, source \in Sources \ {env.source} :
       Step(UpdateTemporaryUnidle(
              IdleConfigure([Here EXCEPT !.e.source = source], r), r))

\* logind_proxy_changed_cb.  A lid closed while suspending is inhibited locks the
\* screen (do_lid_closed_action); the screensaver tells of it as of any other
\* lock, with ScreensaverActiveChanged.
LidChanged ==
  /\ Happens("lid")
  /\ Step([Here EXCEPT !.p.lid_is_closed = ~@])

\* engine_session_properties_changed_cb: the cached properties are new before
\* the handler runs, and one signal may carry both.
SessionActiveChanged(s, active, r) ==
  LET a == [s EXCEPT !.p.session_is_active = active]
  IN MaybeClaimLight(IF active THEN IdleSetMode(a, NORMAL, r) ELSE a)

SessionPropertiesChanged ==
  /\ Happens("session")
  /\ \E active \in BOOLEAN, inhibited \in SUBSET Inhibitors, r \in Replies :
       LET s == [Here EXCEPT !.e.session_known = TRUE, !.e.inhibited = inhibited]
           a == IF active = pm.session_is_active /\ env.session_known
                THEN s ELSE SessionActiveChanged(s, active, r)
       IN Step(IF inhibited = env.inhibited /\ env.session_known
               THEN a ELSE IdleConfigure(a, r))

\* Whether two settings differ in what idle_configure reads, or only in the
\* ambient-enabled key.
SameIdleKeys(s, t) == s = [t EXCEPT !.ambient = s.ambient]

SettingChanged ==
  /\ Happens("settings")
  /\ \E settings \in Settings \ {env.settings}, r \in Replies :
       LET s == [Here EXCEPT !.e.settings = settings]
       IN /\ SameIdleKeys(settings, env.settings) \/ settings.ambient = env.settings.ambient
          /\ Step(IF SameIdleKeys(settings, env.settings)
                  THEN MaybeClaimLight(s) ELSE IdleConfigure(s, r))


\* main_battery_or_ups_low_changed.
BatteryLowChanged ==
  /\ Happens("low")
  /\ \E r \in Replies :
       Step(IdleConfigure([Here EXCEPT !.p.battery_is_low = ~@], r))

\* update_active_power_profile, when the daemon shows a profile.
PowerProfileShown ==
  /\ Happens("ppd")
  /\ \E saver \in BOOLEAN, r \in Replies :
       LET s == [Here EXCEPT !.e.ppd_running = TRUE]
       IN /\ ~env.ppd_running \/ saver # pm.power_saver_enabled
          /\ Step(IF saver = pm.power_saver_enabled
                  THEN s
                  ELSE IdleConfigure([s EXCEPT !.p.power_saver_enabled = saver], r))

\* ... and when the proxy has no property to show: it left the bus, or was
\* not there when the proxy was made.
PowerProfilesVanished ==
  /\ Happens("ppd")
  /\ \E r \in Replies : Step(IdleConfigure([Here EXCEPT !.e.ppd_running = FALSE], r))

PrepareForSleep ==
  /\ Happens("sleep")
  /\ ~env.sleeping
  /\ Step(DisableMonitors([Here EXCEPT !.e.sleeping = TRUE, !.p.notification = FALSE]))

\* Mistake: the panel is not turned back on.
ResumeInTheDark == env.sleeping /\ Step([Here EXCEPT !.e.sleeping = FALSE])

ResumeFromSleep ==
  /\ env.sleeping
  /\ Step(EnableMonitors([Here EXCEPT !.e.sleeping = FALSE]))

IioProxyAppeared ==
  /\ HasIio /\ ~env.iio_proxy
  /\ Step(MaybeClaimLight([Here EXCEPT !.e.iio_proxy = TRUE]))

\* The proxy is dropped, and the sensor daemon's claims die with it; the flag
\* stays, so that a daemon that comes again is asked for nothing until it changes.
IioProxyVanished ==
  /\ Happens("sensor") /\ env.iio_proxy
  /\ Step([Here EXCEPT !.e.iio_proxy = FALSE, !.e.sensor_claimed = FALSE])

\* HasBrightnessControl is read from the proxy's cache; no handler is told.
BrightnessControlChanges ==
  /\ Happens("shell")
  /\ Step([Here EXCEPT !.e.shell_control = ~@])

\* handle_method_call_keyboard: a step stops at the ends of the range.
KbdStep ==
  /\ HasKbd /\ Happens("keys")
  /\ \E step \in {StepAmount(KbdMax), -StepAmount(KbdMax)}, r \in Replies :
       LET level == IF pm.kbd.now + step > KbdMax THEN KbdMax
                    ELSE IF pm.kbd.now + step < 0 THEN 0 ELSE pm.kbd.now + step
       IN Step([Here EXCEPT !.p.kbd = KbdSet(@, level, r.set)])

KbdToggleCall ==
  /\ HasKbd /\ Happens("keys")
  /\ \E r \in Replies : Step([Here EXCEPT !.p.kbd = KbdToggle(@, r.toggle)])

\* handle_set_property_other: Brightness, as a percentage.
KbdSetBrightness ==
  /\ HasKbd /\ Happens("keys")
  /\ \E level \in KbdLevels, r \in Replies :
       LET percentage == AbsToPercentage(0, KbdMax, level)
       IN Step([Here EXCEPT !.p.kbd =
                  KbdSet(@, PercentageToAbs(0, KbdMax, percentage), r.set)])

\* upower_kbd_proxy_signal_cb: the hardware keys changed the level.
KbdBrightnessChanged ==
  /\ HasKbd /\ Happens("keys")
  /\ \E level \in KbdLevels : Step([Here EXCEPT !.p.kbd.now = level])

NotificationDismissed ==
  /\ pm.notification
  /\ Step([Here EXCEPT !.p.notification = FALSE])

SystemNext ==
  \/ \E w \in Watches : WatchFires(w)
  \/ IdleBecameActive
  \/ TemporaryUnidleDone

EnvironmentNext ==
  \/ UserActivity
  \/ ScreensaverActiveChanged
  \/ WakeUpScreen
  \/ OnBatteryChanged
  \/ LidChanged
  \/ SessionPropertiesChanged
  \/ SettingChanged
  \/ BatteryLowChanged
  \/ PowerProfileShown
  \/ PowerProfilesVanished
  \/ PrepareForSleep
  \/ ResumeFromSleep
  \/ IioProxyAppeared
  \/ IioProxyVanished
  \/ BrightnessControlChanges
  \/ NotificationDismissed
  \/ KbdStep
  \/ KbdToggleCall
  \/ KbdSetBrightness
  \/ KbdBrightnessChanged

Next == SystemNext \/ EnvironmentNext

Spec == Init /\ [][Next]_vars

\* Timers and D-Bus signals are delivered: the main loop is never blocked for
\* good.  Nothing is assumed of the outside.
Fairness ==
  /\ \A w \in Watches : WF_vars(WatchFires(w))
  /\ WF_vars(IdleBecameActive)
  /\ WF_vars(TemporaryUnidleDone)

FairSpec == Spec /\ Fairness

-------------------------------------------------------------------------------
(* Properties.                                                             *)

\* The way back exists: in an active session, whenever the machine is idle in
\* any sense - a deeper mode, a black screen (outside of a suspend), a
\* pending fall back after a temporary unidle - or a sleep warning is shown,
\* the daemon has a user active watch, so the next key press undoes it all
\* (idle_set_mode, idle_triggered_idle_cb, idle_became_active_cb).
IdleIsEscapable ==
  /\ \/ pm.session_is_active /\ pm.current_idle_mode # NORMAL
     \/ pm.session_is_active /\ pm.screen_blanked /\ ~env.sleeping
     \/ pm.temporary_unidle
     \/ pm.notification
     => pm.user_active_id

\* The idle machine keeps the promises of IdleLadder: a mode is never left for
\* a shallower one but NORMAL, a temporary unidle remembers the mode it began
\* in until another trigger replaces it, and it ends in that mode or in the
\* one the session is in.
Ladder ==
  INSTANCE IdleLadder WITH
    active <- pm.session_is_active, mode <- pm.current_idle_mode,
    unidle <- pm.temporary_unidle, fallback <- pm.previous_idle_mode,
    way_back <- pm.user_active_id

ImplementsLadder == Ladder!LadderSpec

\* A session that counts as not idle looks it: no dimming, no black screen
\* but for a suspend in progress, and no keyboard level waiting to be restored.
NormalMeansAwake ==
  pm.current_idle_mode = NORMAL =>
    /\ ~env.dimming
    /\ pm.screen_blanked => env.sleeping
    /\ pm.kbd.pre_dim = NoLevel

\* A sleep watch is never a leftover: whatever changed since it was set - the
\* power source, a setting, an inhibitor - the action it will take is wanted,
\* is not inhibited, and the session may go idle at all (idle_configure runs
\* for each of these changes, in whatever order they come).
SleepWatchIsWanted ==
  pm.watch["sleep"] # "none" =>
    /\ SleepTimeout(env) # 0 /\ SleepType(env) # "nothing"
    /\ pm.after["sleep"] = Msec(SleepTimeout(env))
    /\ "idle" \in env.inhibited => pm.screensaver_active

\* When the sleep warning fires, sleep_action_type is an action that
\* show_sleep_warning has a text for (its switch asserts it), and the one the
\* sleep watch will take; a warning that is shown always belongs to a watch.
WarningNamesTheAction ==
  /\ pm.watch["warning"] # "none" =>
       /\ pm.sleep_action_type = SleepType(env)
       /\ pm.sleep_action_type \in {"logout", "suspend", "hibernate"}
       /\ pm.watch["sleep"] # "none"
  /\ pm.notification => pm.watch["warning"] # "none"

\* The dim watch follows the screensaver, the power source's saver and the
\* settings.  It does while power-profiles-daemon is not involved.
DimWatchIsWanted ==
  ~Happens("ppd") /\ pm.watch["dim"] # "none" =>
    /\ ~pm.screensaver_active
    /\ DimTimeout(pm, env) # 0 /\ pm.after["dim"] = Msec(DimTimeout(pm, env))

\* No watch is a leftover, whichever of the things it was set for has changed.
WatchesAreWanted == SleepWatchIsWanted /\ DimWatchIsWanted

\* A session that counts as idle looks that, too: dimmed, or black, but that
\* a resume lights the panel and leaves the mode to the user's next activity.
IdleIsShown ==
  /\ pm.current_idle_mode = DIM => env.dimming
  /\ pm.current_idle_mode = BLANK /\ ~Happens("sleep") => pm.screen_blanked

\* The sensor daemon never serves a claim for an inactive session, a black
\* screen or a setting that is off; and it serves one whenever the readings
\* are of use, unless it was restarted (iio_proxy_vanished_cb does not reset
\* light_claimed) or the shell's control of the brightness comes and goes,
\* which is noticed at the next evaluation only.
SensorFollows ==
  /\ env.sensor_claimed => pm.session_is_active /\ ~pm.screen_blanked /\ env.settings.ambient
  /\ env.iio_proxy /\ ~Happens("sensor") /\ ~Happens("shell") =>
       env.sensor_claimed = ShouldClaimLight(pm, env)

\* What the mode says, the panel, the keyboard light and the light sensor show.
DevicesFollowMode == NormalMeansAwake /\ IdleIsShown /\ SensorFollows

\* Nothing lights up or brightens an idle machine without a reason: the user
\* came back, the machine resumed, the session was switched to, an idle
\* inhibitor appeared, or a temporary unidle started - and never the last with
\* the lid closed.  In particular the screensaver going away does not: "the
\* aggressive idle watch will handle it".
ScreenWakes ==
  (pm.screen_blanked /\ ~pm'.screen_blanked) \/ (env.dimming /\ ~env'.dimming)
    => \/ env.activity
       \/ env.sleeping /\ ~env'.sleeping
       \/ pm'.session_is_active /\ ~pm.session_is_active
       \/ "idle" \in env'.inhibited /\ ~pm'.screensaver_active
       \/ pm'.temporary_unidle /\ ~pm'.lid_is_closed

\* Every step wakes the screen for one of these reasons, or does not wake it.
ScreenWakesForAReason == [][ScreenWakes]_vars

\* Whatever road the session takes into idleness and back, it ends at the
\* same keyboard level: a change of mode never changes the level that waking
\* up now would restore, even when keys are pressed at the dimmed or dark
\* keyboard.  (Not for a user who had toggled the light off before: dimming
\* then records the dark level over it.)  All SetBrightness calls succeed.
LevelKept ==
  /\ pm'.current_idle_mode # pm.current_idle_mode /\ ~Happens("kbdfail")
  /\ pm.current_idle_mode # NORMAL \/ pm.kbd.old = NoLevel
  => KbdWake(pm'.kbd, TRUE, TRUE).now = KbdWake(pm.kbd, TRUE, TRUE).now

\* Every step that changes the mode keeps the level to come back to.
IdleKeepsKbdLevel == [][LevelKept]_vars

\* User activity is never lost: once the idle monitor reported it, the active
\* session gets back to NORMAL (or stops being active first).
ActivityWakes ==
  env.activity ~> (pm.current_idle_mode = NORMAL \/ ~pm.session_is_active)

\* The sleep trigger of a temporary unidle is only remembered
\* (idle_set_mode_no_temp): it is the last of the triggers, so that none takes
\* its place, and the lid stays open, so that it is carried out at the end.
\* That of a session that is not active is for nothing (idle_set_mode).
SleepComesLast ==
  /\ pm.watch["sleep"] = "fired" => pm.session_is_active
  /\ pm.temporary_unidle => ~pm.lid_is_closed
  /\ pm.temporary_unidle /\ pm.watch["sleep"] = "fired" =>
       pm.watch["dim"] # "armed" /\ pm.watch["blank"] # "armed"

\* It stays active, is not woken and keeps a sleep watch.
LeftAlone ==
  /\ pm.session_is_active /\ pm.watch["sleep"] # "none"
  /\ ~pm.temporary_unidle /\ ~env.activity

\* A session left alone goes to sleep and stays asleep, whatever settings,
\* power source, screensaver, suspends and temporary unidles came before, and
\* may come still, if no sleep trigger was lost to a later one.  Where one was,
\* no watch is left to fire until the user comes back.
LeftAloneSleeps == []SleepComesLast /\ <>[]LeftAlone => <>[](pm.current_idle_mode = SLEEP)

-------------------------------------------------------------------------------
(* What the documentation says and the code does not do.                   *)

\* The schema of sleep-inactive-ac-timeout: "A value of 0 means never."  A
\* sleep trigger remembered during a temporary unidle is carried out at its
\* end, whatever the timeout has become by then.
NeverMeansNever ==
  [][pm'.current_idle_mode = SLEEP /\ pm.current_idle_mode # SLEEP
       => SleepTimeout(env) # 0]_vars
==============================================================================
