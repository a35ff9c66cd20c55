---------------------------- MODULE PowerProfiles ----------------------------
(***************************************************************************)
(* How gsd-power holds the power-saver profile at power-profiles-daemon    *)
(* while the battery is low (gsd-power-manager.c).  HoldProfile and        *)
(* ReleaseProfile are asynchronous calls; the cookie that names a hold     *)
(* arrives with a reply, on the same connection as the ProfileReleased     *)
(* signal, in the order power-profiles-daemon sent them.                   *)
(***************************************************************************)
EXTENDS Naturals, Sequences, SequencesExt

CONSTANT
  MaxHolds      \* bound: HoldProfile calls in a behaviour

VARIABLES
  battery_is_low,  \* what main_battery_or_ups_low_changed was told
  ppd_running,     \* power-profiles-daemon is on the bus
  prof             \* the proxy, the cookie and the setting; calls and answers

pvars == <<battery_is_low, ppd_running, prof>>

\* power_saver_cookie when nothing is held.
NoCookie == 0
Cookies == 1..MaxHolds

\* Calls on their way to power-profiles-daemon, and what is on its way back.
Hold       == [call |-> "hold", cookie |-> NoCookie]
Release(c) == [call |-> "release", cookie |-> c]
Calls      == {Hold} \cup {Release(c) : c \in Cookies}

Held(c)     == [kind |-> "held", cookie |-> c]
Released(c) == [kind |-> "released", cookie |-> c]
Failed      == [kind |-> "error", cookie |-> NoCookie]
Answers     == {Failed} \cup {Held(c) : c \in Cookies} \cup {Released(c) : c \in Cookies}

Profs == [connected : BOOLEAN, power_saver_cookie : Cookies \cup {NoCookie},
          on_low_battery : BOOLEAN,
          calls : Seq(Calls), answers : Seq(Answers), holds : SUBSET Cookies,
          made : 0..MaxHolds, issued : 0..MaxHolds, disturbed : BOOLEAN]

ProfTypeOK ==
  battery_is_low \in BOOLEAN /\ ppd_running \in BOOLEAN /\ prof \in Profs

\* enable_power_saver; without a proxy the hold is not asked for, then or later.
EnablePowerSaver(p) ==
  CASE ~p.on_low_battery                -> p
    [] p.on_low_battery /\ ~p.connected -> [p EXCEPT !.disturbed = TRUE]
    [] p.on_low_battery /\ p.connected  -> [p EXCEPT !.calls = Append(@, Hold), !.made = @ + 1]

\* Mistake: a cookie that is not there is released.
ReleaseAnyCookie(p) ==
  [p EXCEPT !.calls = Append(@, Release(p.power_saver_cookie)),
            !.power_saver_cookie = NoCookie]

\* disable_power_saver: without a cookie there is nothing to release, even
\* when a HoldProfile call is still to be answered.
DisablePowerSaver(p) ==
  IF p.power_saver_cookie = NoCookie
  THEN p
  ELSE [p EXCEPT !.calls = Append(@, Release(p.power_saver_cookie)),
                 !.power_saver_cookie = NoCookie]

ProfInit ==
  /\ battery_is_low = FALSE /\ ppd_running = FALSE
  /\ \E setting \in BOOLEAN :
       prof = [connected |-> FALSE, power_saver_cookie |-> NoCookie,
               on_low_battery |-> setting, calls |-> <<>>, answers |-> <<>>,
               holds |-> {}, made |-> 0, issued |-> 0, disturbed |-> FALSE]

\* main_battery_or_ups_low_changed, the profile's part.
LowChanged ==
  /\ prof.made < MaxHolds
  /\ battery_is_low' = ~battery_is_low
  /\ prof' = IF battery_is_low' THEN EnablePowerSaver(prof) ELSE DisablePowerSaver(prof)
  /\ UNCHANGED ppd_running

\* Mistake: turning the setting on waits for the next low battery.
PowerSaverSettingReleases ==
  /\ prof.made < MaxHolds
  /\ prof' = DisablePowerSaver([prof EXCEPT !.on_low_battery = ~@])
  /\ UNCHANGED <<battery_is_low, ppd_running>>

\* engine_settings_key_changed_cb: power-saver-profile-on-low-battery.
PowerSaverSettingChanged ==
  /\ prof.made < MaxHolds
  /\ LET p == [prof EXCEPT !.on_low_battery = ~@]
     IN prof' = IF battery_is_low /\ p.on_low_battery
                THEN EnablePowerSaver(p) ELSE DisablePowerSaver(p)
  /\ UNCHANGED <<battery_is_low, ppd_running>>

\* power_profiles_proxy_ready_cb connects; the daemon may be there or appear.
PpdShown ==
  /\ ppd_running' = TRUE
  /\ prof' = [prof EXCEPT !.connected = TRUE]
  /\ UNCHANGED battery_is_low

\* ... or not be there, or leave the bus and all its holds with it.
PpdGone ==
  /\ ppd_running' = FALSE
  /\ prof' = [prof EXCEPT !.connected = TRUE, !.holds = {},
                          !.disturbed = @ \/ ppd_running]
  /\ UNCHANGED battery_is_low

\* The next call is answered, an error included; without the daemon, always.
PpdServes ==
  /\ prof.calls # <<>>
  /\ LET call == Head(prof.calls)
         rest == [prof EXCEPT !.calls = Tail(@)]
         new  == prof.issued + 1
     IN \/ /\ call = Hold /\ ppd_running
           /\ prof' = [rest EXCEPT !.holds = @ \cup {new}, !.issued = new,
                                   !.answers = Append(@, Held(new))]
        \/ /\ call = Hold
           /\ prof' = [rest EXCEPT !.answers = Append(@, Failed), !.disturbed = TRUE]
        \/ /\ call # Hold
           /\ prof' = [rest EXCEPT !.holds = @ \ {call.cookie}]
  /\ UNCHANGED <<battery_is_low, ppd_running>>

\* hold_profile_cb and power_profiles_proxy_signal_cb, which clears the cookie
\* whichever hold ended.
AnswerArrives ==
  /\ prof.answers # <<>>
  /\ LET answer == Head(prof.answers)
         rest == [prof EXCEPT !.answers = Tail(@)]
     IN prof' = CASE answer.kind = "held"     -> [rest EXCEPT !.power_saver_cookie = answer.cookie]
                  [] answer.kind = "released" -> [rest EXCEPT !.power_saver_cookie = NoCookie]
                  [] answer.kind = "error"    -> rest
  /\ UNCHANGED <<battery_is_low, ppd_running>>

\* The user picks another profile: every hold ends, each with a signal.
HoldsEnd ==
  /\ prof.holds # {}
  /\ prof' = [prof EXCEPT !.holds = {}, !.disturbed = TRUE,
                          !.answers = @ \o [i \in 1..Cardinality(prof.holds) |->
                                             Released(SetToSeq(prof.holds)[i])]]
  /\ UNCHANGED <<battery_is_low, ppd_running>>

ProfNext ==
  \/ LowChanged \/ PowerSaverSettingChanged
  \/ PpdShown \/ PpdGone
  \/ PpdServes \/ AnswerArrives \/ HoldsEnd

ProfSpec == ProfInit /\ [][ProfNext]_pvars

-------------------------------------------------------------------------------
(* Properties.                                                             *)

Quiet == prof.calls = <<>> /\ prof.answers = <<>>

\* The battery being low is what the hold is for: once every call is answered,
\* a low battery has its hold, and under the cookie that the daemon will
\* release - however often the battery went up and down and the setting was
\* switched while calls were out (and power-profiles-daemon was
\* there when it was called, refused nothing and ended no hold itself).
HeldWhileLow ==
  Quiet /\ ~prof.disturbed /\ battery_is_low /\ prof.on_low_battery
    => prof.power_saver_cookie \in prof.holds

\* The schema: 'Automatically enable the "power-saver" profile ... if the
\* battery is low'.  A battery that recovers before HoldProfile is answered
\* leaves the profile held, for the cookie comes when nobody releases it.
ReleasedWhenNotLow ==
  Quiet /\ ~battery_is_low => prof.holds = {}
==============================================================================
