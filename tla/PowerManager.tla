---------------------------- MODULE PowerManager -----------------------------
(***************************************************************************)
(* The whole of gsd-power: one GMainLoop runs the handlers of the idle     *)
(* machine, of logind's inhibitors, of power-profiles-daemon and of the    *)
(* UPower devices, and some handlers act for several of them.              *)
(*                                                                         *)
(* The parts share state: the session (pm.session_is_active), the suspend  *)
(* in progress (env.sleeping), the low battery (pm.battery_is_low) and the *)
(* profile daemon's presence (env.ppd_running).  Each part's module has    *)
(* them as variables; here they are fields of pm and env.                  *)
(***************************************************************************)
EXTENDS PowerIdle, PowerDevices

CONSTANTS
  MaxHolds,     \* bound: HoldProfile calls in a behaviour
  MaxTimers     \* bound: critical-action timers running at a time

ASSUME ManagerAssumption == MaxHolds \in Nat /\ MaxTimers \in Nat

VARIABLES inh, prof, warn

mvars == <<pm, env, inh, prof, warn>>

Inh == INSTANCE PowerInhibitors
         WITH session_is_active <- pm.session_is_active, sleeping <- env.sleeping

Prof == INSTANCE PowerProfiles
          WITH battery_is_low <- pm.battery_is_low, ppd_running <- env.ppd_running

Warn == INSTANCE PowerWarnings WITH battery_is_low <- pm.battery_is_low

ManagerTypeOK ==
  /\ TypeOK
  /\ Inh!InhTypeOK
  /\ Prof!ProfTypeOK
  /\ Warn!WarnTypeOK

\* gsd_power_manager_startup.  What a scenario never changes has one value.
ManagerInit ==
  /\ Init /\ Inh!InhInit /\ Prof!ProfInit /\ Warn!WarnInit
  /\ Happens("session") \/ pm.session_is_active
  /\ Happens("logind") \/ (inh.prompt /\ ~inh.external)

-------------------------------------------------------------------------------
(* Handlers that act for several parts.                                    *)

\* Mistake: the lid inhibitor does not follow the session.
SwitchSessionOnly == SessionPropertiesChanged /\ UNCHANGED <<inh, prof, warn>>

\* engine_session_properties_changed_cb: with SessionIsActive in the signal,
\* the lid inhibitor is synchronised as well.
SwitchSession ==
  /\ SessionPropertiesChanged
  /\ IF ~env.session_known \/ pm'.session_is_active # pm.session_is_active
     THEN Inh!SessionSwitched
     ELSE UNCHANGED inh
  /\ UNCHANGED <<prof, warn>>

\* handle_suspend_actions and handle_resume_actions.
Suspend == PrepareForSleep /\ Inh!SuspendActions /\ UNCHANGED <<prof, warn>>

Resume == ResumeFromSleep /\ Inh!ResumeActions /\ UNCHANGED <<prof, warn>>

\* engine_device_warning_changed_cb for the composite device, with
\* main_battery_or_ups_low_changed at its end.
CompositeWarning ==
  \/ BatteryLowChanged /\ Prof!LowChanged /\ Warn!MainWarning /\ UNCHANGED inh
  \/ /\ Happens("low")
     /\ UNCHANGED <<pm, env, inh, prof>>
     /\ Warn!MainWarning

ProfileShown == PowerProfileShown /\ Prof!PpdShown /\ UNCHANGED <<inh, warn>>

ProfileGone == PowerProfilesVanished /\ Prof!PpdGone /\ UNCHANGED <<inh, warn>>

-------------------------------------------------------------------------------
(* Handlers of one part.                                                   *)

IdleOnly ==
  /\ \/ SystemNext
     \/ UserActivity
     \/ ScreensaverActiveChanged
     \/ WakeUpScreen
     \/ OnBatteryChanged
     \/ LidChanged
     \/ SettingChanged
     \/ IioProxyAppeared
     \/ IioProxyVanished
     \/ BrightnessControlChanges
     \/ NotificationDismissed
     \/ KbdStep
     \/ KbdToggleCall
     \/ KbdSetBrightness
     \/ KbdBrightnessChanged
  /\ UNCHANGED <<inh, prof, warn>>

\* In a scenario without "logind" it does not answer, and no timer runs out.
InhibitorsOnly ==
  /\ Happens("logind")
  /\ UNCHANGED <<pm, env, prof, warn>>
  /\ \/ Inh!MonitorChanged
     \/ Inh!LidTimerFires
     \/ Inh!LidReply
     \/ Inh!SuspendReply

ProfilesOnly ==
  /\ UNCHANGED <<pm, env, inh, warn>>
  /\ \/ Happens("saver") /\ Prof!PowerSaverSettingChanged
     \/ Prof!PpdServes
     \/ Prof!AnswerArrives
     \/ Prof!HoldsEnd

WarningsOnly ==
  /\ UNCHANGED <<pm, env, inh, prof>>
  /\ \/ Happens("devices") /\ Warn!DeviceAdded
     \/ Warn!PeripheralWarning
     \/ Warn!DeviceRemoved
     \/ Warn!StopSound
     \/ Warn!WarningDismissed

ManagerNext ==
  \/ SwitchSession
  \/ Suspend
  \/ Resume
  \/ CompositeWarning
  \/ ProfileShown
  \/ ProfileGone
  \/ IdleOnly
  \/ InhibitorsOnly
  \/ ProfilesOnly
  \/ WarningsOnly

ManagerSpec == ManagerInit /\ [][ManagerNext]_mvars

-------------------------------------------------------------------------------
(* Properties: the parts' own, of the daemon that runs them together.      *)

\* See PowerInhibitors: a docked laptop stays awake when its lid is closed, the
\* lid inhibitor goes away when it is not wanted, and an awake machine delays
\* its next suspend.
InhibitorsHold == Inh!MonitorKeepsAwake /\ Inh!NoForgottenInhibitor /\ Inh!SuspendIsDelayed

\* See PowerProfiles: a low battery has its power-saver hold.
HeldWhileLow == Prof!HeldWhileLow

\* See PowerWarnings: the alarm ends with its reason, and a charged device has
\* no warning on the screen.
WarningsEnd == Warn!AlarmEnds /\ Warn!ChargedIsQuiet

\* Handlers that act for several parts leave none of them behind: every step
\* of the daemon is a step of each part by itself (or none), so that what is
\* checked of a part alone holds in the daemon.
PartsInStep == Spec /\ Inh!InhSpec /\ Prof!ProfSpec /\ Warn!WarnSpec
==============================================================================
