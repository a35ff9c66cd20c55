------------------------------ MODULE NightLight ------------------------------
(***************************************************************************)
(* gsd-color: night light.  A recheck derives the temperature of the       *)
(* screen from the clock, the schedule or the sun, the settings, "disabled *)
(* until tomorrow" and the preview; it runs every minute, on every change  *)
(* of a setting, and after the clock was set.  Temperatures go over        *)
(* smoothly.  Hours are counted in Day units, temperatures from 0          *)
(* (default) to Full; Bogus is one that nobody has asked for.              *)
(***************************************************************************)
EXTENDS Integers

CONSTANTS
  Day,          \* units of a day
  Full,         \* night-light-temperature, as steps from the default
  MaxSmear,     \* GSD_NIGHT_LIGHT_POLL_SMEAR
  MaxNow,       \* bound: how late it may get
  Schedules,    \* manual schedules [from, to]
  SunAt,        \* of each place, sunset and sunrise as [from, to], in hours from the
                \* midnight before, not always of one day; Unknown at the poles
  NlWorlds      \* bound: in a behaviour, what one of these sets allows happens

VARIABLE nl

Unknown == [from |-> -1, to |-> -1]
Places  == DOMAIN SunAt
Bogus   == Full + 1

NlTypeOK ==
  /\ nl.may \in NlWorlds /\ nl.now \in 0..MaxNow /\ nl.stale \in BOOLEAN
  /\ nl.enabled \in BOOLEAN /\ nl.automatic \in BOOLEAN /\ nl.schedule \in Schedules
  /\ nl.place \in Places \cup {"none"} /\ nl.sun \in {Unknown} \cup {SunAt[p] : p \in Places}
  /\ nl.validate \in BOOLEAN /\ nl.location \in BOOLEAN
  /\ nl.geoclue \in {"off", "starting", "on"}
  /\ nl.forced \in BOOLEAN /\ nl.forced_timeout \in BOOLEAN
  /\ nl.disabled \in BOOLEAN /\ nl.disabled_at \in 0..MaxNow
  /\ nl.active \in BOOLEAN /\ nl.temperature \in 0..Bogus /\ nl.target \in 0..Bogus
  /\ nl.smooth \in BOOLEAN /\ nl.state_temperature \in 0..Bogus /\ nl.set_by_client \in BOOLEAN

-------------------------------------------------------------------------------
Abs(x)  == IF x < 0 THEN -x ELSE x
Least(x, y) == IF x < y THEN x ELSE y

\* gsd_night_light_frac_day_from_dt
FracDay(t) == t % Day

\* gsd_night_light_frac_day_is_between
IsBetween(value, start, end) ==
  LET last == IF end <= start THEN end + Day ELSE end
      v    == IF value < start /\ value < last THEN value + Day ELSE value
  IN v >= start /\ v < last

\* update_cached_sunrise_sunset: a place without a sunrise changes nothing.
UpdateSun(s) ==
  IF s.place = "none" \/ SunAt[s.place] = Unknown THEN s ELSE [s EXCEPT !.sun = SunAt[s.place]]

ScheduleOf(s) ==
  IF s.automatic /\ s.sun.from > 0 /\ s.sun.to > 0 THEN s.sun ELSE s.schedule

SmearOf(w) == Least(MaxSmear, Least(Abs(w.to - w.from), Day - Abs(w.to - w.from)))

\* gsd_night_light_set_temperature: a transition that runs is replaced.
SetTemperature(s, t) == [s EXCEPT !.target = t, !.smooth = (t # s.temperature)]

\* gsd_night_light_set_active
SetActive(s, active) ==
  IF s.active = active THEN s
  ELSE IF active THEN [s EXCEPT !.active = TRUE]
  ELSE SetTemperature([s EXCEPT !.active = FALSE], 0)

\* Mistake: only the age counts, not the sunrise in between.
ResetDisabledByAge(s) ==
  IF s.disabled /\ s.now - s.disabled_at > Day THEN [s EXCEPT !.disabled = FALSE] ELSE s

\* "Disabled until tomorrow" ends with a sunrise, or after a day.
ResetDisabled(s) ==
  LET span == s.now - s.disabled_at
      sunrise == /\ span > 0 /\ FracDay(s.disabled_at) # FracDay(s.now)
                 /\ IsBetween(ScheduleOf(s).to, FracDay(s.disabled_at), FracDay(s.now))
  IN IF s.disabled /\ (span > Day \/ sunrise) THEN [s EXCEPT !.disabled = FALSE] ELSE s

\* linear_interpolate refuses what is not between: its -1 is no temperature, and
\* what becomes of it as an unsigned one is undefined.
Interpolate(part, smear) ==
  IF part \in 0..smear THEN (Full * part) \div smear ELSE Bogus

\* The temperature of a moment within the schedule.
Smeared(w, frac) ==
  LET smear == SmearOf(w)
  IN IF smear > 0 /\ IsBetween(frac, w.from - smear, w.from)
     THEN Interpolate(frac - (w.from - smear), smear)
     ELSE IF smear > 0 /\ IsBetween(frac, w.to - smear, w.to)
     THEN Interpolate(w.to - frac, smear)
     ELSE Full

\* night_light_recheck
Recheck(s) ==
  LET fresh == [s EXCEPT !.stale = FALSE]
      sunny == IF s.automatic THEN UpdateSun(fresh) ELSE fresh
      today == ResetDisabled(sunny)
      w     == ScheduleOf(sunny)
  IN CASE s.forced -> SetTemperature(fresh, Full)
       [] ~s.forced /\ ~s.enabled -> SetActive(fresh, FALSE)
       [] OTHER ->
            IF ~IsBetween(FracDay(s.now), w.from - SmearOf(w), w.to) THEN SetActive(today, FALSE)
            ELSE SetTemperature(SetActive(today, TRUE),
                                IF today.disabled THEN 0 ELSE Smeared(w, FracDay(s.now)))

\* gsd_night_light_set_disabled_until_tmw
SetDisabled(s, value) ==
  IF s.disabled = value THEN s
  ELSE Recheck([s EXCEPT !.disabled = value, !.disabled_at = s.now])

\* Mistake: only a recheck follows, which does nothing for an inactive night light.
SetForcedRechecksOnly(s, value) ==
  IF s.forced = value THEN s ELSE Recheck([s EXCEPT !.forced = value])

\* gsd_night_light_set_forced
SetForced(s, value) ==
  LET f == [s EXCEPT !.forced = value]
  IN IF s.forced = value THEN s
     ELSE Recheck(IF ~value /\ ~s.active THEN SetTemperature(f, 0) ELSE f)

-------------------------------------------------------------------------------
NlInit ==
  \E may \in NlWorlds, enabled \in BOOLEAN, w \in Schedules :
    nl = Recheck([may |-> may, now |-> 0, stale |-> TRUE, enabled |-> enabled,
                  automatic |-> FALSE, schedule |-> w, place |-> "none", sun |-> Unknown,
                  validate |-> FALSE, location |-> FALSE, geoclue |-> "off",
                  forced |-> FALSE, forced_timeout |-> FALSE,
                  disabled |-> FALSE, disabled_at |-> 0, active |-> FALSE,
                  temperature |-> 0, target |-> 0, smooth |-> FALSE,
                  state_temperature |-> 0, set_by_client |-> FALSE])

\* Time passes, awake or asleep, or somebody sets the clock back.
TimePasses == nl.now < MaxNow /\ nl' = [nl EXCEPT !.now = @ + 1, !.stale = TRUE]
ClockSetBack ==
  /\ "clock" \in nl.may /\ nl.now >= 3 /\ nl' = [nl EXCEPT !.now = @ - 3, !.stale = TRUE]

\* night_light_recheck_cb: a minute later, or a second after the clock was set.
PollTimeout == nl.stale /\ nl' = Recheck(nl)

\* night_light_recheck_schedule_cb
ValidateTimeout == nl.validate /\ nl' = Recheck([nl EXCEPT !.validate = FALSE])

\* settings_changed_cb
SettingsChange ==
  /\ "settings" \in nl.may
  /\ \/ nl' = Recheck([nl EXCEPT !.enabled = ~@])
     \/ nl' = Recheck([nl EXCEPT !.automatic = ~@])
     \/ \E w \in Schedules \ {nl.schedule} : nl' = Recheck([nl EXCEPT !.schedule = w])

\* check_location_settings
LocationSettingChanges ==
  /\ "places" \in nl.may
  /\ nl' = [nl EXCEPT !.location = ~@, !.geoclue = IF nl.location THEN "off" ELSE "starting"]

\* on_geoclue_simple_ready and on_location_notify: to store the coordinates
\* is a change of a setting, with a recheck of its own.
LocationNotify ==
  /\ nl.geoclue # "off"
  /\ \E place \in Places :
       LET s == Recheck([nl EXCEPT !.geoclue = "on", !.place = place])
           t == UpdateSun(s)
       IN nl' = [t EXCEPT !.validate = @ \/ t.sun # s.sun]

GeoclueFails == nl.geoclue = "starting" /\ nl' = [nl EXCEPT !.geoclue = "off"]

\* handle_method_call: NightLightPreview, and its end nlight_forced_timeout_cb.
NightLightPreview ==
  /\ "preview" \in nl.may /\ nl' = SetForced([nl EXCEPT !.forced_timeout = TRUE], TRUE)
ForcedTimeout ==
  /\ nl.forced_timeout /\ nl' = SetForced([nl EXCEPT !.forced_timeout = FALSE], FALSE)

\* handle_set_property
SetDisabledUntilTomorrow ==
  /\ "disable" \in nl.may /\ \E value \in BOOLEAN : nl' = SetDisabled(nl, value)
SetTemperatureProperty ==
  /\ "preview" \in nl.may
  /\ \E t \in {0, Full} : nl' = [nl EXCEPT !.state_temperature = t, !.set_by_client = TRUE]

\* gsd_night_light_smooth_cb and on_temperature_notify
SmoothStep ==
  /\ nl.smooth
  /\ \E t \in 0..Bogus :
       /\ Abs(nl.target - t) < Abs(nl.target - nl.temperature)
       /\ t = nl.target \/ (t < nl.target) = (nl.temperature < nl.target)
       /\ nl' = [nl EXCEPT !.temperature = t, !.smooth = (t # nl.target),
                           !.state_temperature = t, !.set_by_client = FALSE]

NlNext ==
  \/ TimePasses
  \/ ClockSetBack
  \/ PollTimeout
  \/ ValidateTimeout
  \/ SettingsChange
  \/ LocationSettingChanges
  \/ LocationNotify
  \/ GeoclueFails
  \/ NightLightPreview
  \/ ForcedTimeout
  \/ SetDisabledUntilTomorrow
  \/ SetTemperatureProperty
  \/ SmoothStep

-------------------------------------------------------------------------------
\* The ramps and the plateau of a schedule, counted from the first ramp's start.
Reference(w, frac) ==
  LET smear  == SmearOf(w)
      length == smear + IF w.from = w.to THEN Day ELSE (w.to - w.from) % Day
      pos    == (frac - (w.from - smear)) % Day
  IN CASE pos >= length -> 0
       [] pos < length /\ pos < smear -> (Full * pos) \div smear
       [] pos < length /\ pos >= smear /\ pos >= length - smear -> (Full * (length - pos)) \div smear
       [] OTHER -> Full

Wanted(s) ==
  IF s.forced THEN Full
  ELSE IF ~s.enabled \/ s.disabled THEN 0
  ELSE Reference(ScheduleOf(s), FracDay(s.now))

Heading(s) == IF s.smooth THEN s.target ELSE s.temperature

CrossesMidnight(w) == w.from < SmearOf(w) \/ w.to < SmearOf(w)

\* The sun of a place far west in its time zone, or with the clock of another,
\* does not set before midnight, or not even rise: the code compares the hours
\* after midnight with a sunset of more than a day, and finds them long before it.
SunIsLate(w, frac) == w.to >= Day \/ (w.from > Day /\ frac < w.from - Day)

\* After a recheck the screen has, or goes over to, the temperature that the
\* clock, the schedule and the user's choices ask for, whatever they were
\* before, except with a ramp across midnight or after midnight under a sun that
\* is late; a preview lasts until its timeout; and the colour state follows
\* unless a client has set it.
NightLightFollows ==
  /\ \/ nl.stale \/ CrossesMidnight(ScheduleOf(nl)) \/ SunIsLate(ScheduleOf(nl), FracDay(nl.now))
     \/ Heading(nl) = Wanted(nl)
  /\ nl.forced = nl.forced_timeout
  /\ nl.set_by_client \/ nl.state_temperature = nl.temperature

\* "Disabled until tomorrow" does not outlive the next sunrise that a recheck
\* has seen (gsd-night-light.c:304-325).
DisabledEndsAtSunrise ==
  nl.disabled /\ ~nl.stale /\ nl.enabled /\ ~nl.forced /\ nl.now # nl.disabled_at + Day =>
    \A t \in nl.disabled_at..(nl.now - 1) : FracDay(t) # ScheduleOf(nl).to

\* The smearing goes "for a short duration before the set limits"
\* (gsd-night-light.c:347), also before a limit that is soon after midnight.
SmearBeforeLimits == nl.stale \/ Heading(nl) = Wanted(nl)
==============================================================================
