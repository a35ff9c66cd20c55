--------------------------- MODULE TimezoneMonitor ---------------------------
(***************************************************************************)
(* gsd-datetime: while the automatic time zone is wanted a monitor follows  *)
(* the place of the machine: GeoClue tells the position, a geocoder the      *)
(* country of it, the zone that is nearest within the country is set with    *)
(* timedated, and the user is told.                                        *)
(***************************************************************************)
EXTENDS Integers, Sequences, SequencesExt, FiniteSets

CONSTANTS
  TzDb,          \* locations of zone.tab: [zone, country, at]
  WeatherCities, \* of libgweather: [zone, country, at], zone NoZone where it has none
  CountryOf,     \* [places -> countries]
  MaxTravels,    \* bound: changes of place and of settings, and of the zone by others
  TzWorlds       \* bound: the happenings of a behaviour are from one of these sets

VARIABLE tz

NoZone    == "no zone"
Places    == DOMAIN CountryOf
Countries == {CountryOf[p] : p \in Places}
Zones     == {loc.zone : loc \in TzDb \cup WeatherCities}

TzTypeOK ==
  /\ tz.may \in TzWorlds /\ tz.place \in Places
  /\ tz.automatic_timezone \in BOOLEAN /\ tz.location_enabled \in BOOLEAN
  /\ tz.monitor \in {"none", "idle", "on"} /\ tz.geoclue \in {"off", "starting", "ready"}
  /\ tz.current_timezone \in Zones /\ tz.raw \in Places
  /\ tz.geocoding \in Seq(Countries) /\ tz.setting \in Seq([zone : Zones, mine : BOOLEAN])
  /\ tz.timezone \in Zones /\ tz.notification \in Zones \cup {NoZone}
  /\ tz.travels \in 0 .. MaxTravels

-------------------------------------------------------------------------------
(* find_timezone                                                           *)

\* weather_tz_db_get_locations: the cities of the country that have a zone.
WeatherLocations(country) == {loc \in WeatherCities : loc.country = country /\ loc.zone # NoZone}

\* find_by_country, and when it finds nothing every location.
Candidates(country) ==
  LET locations == TzDb \cup WeatherLocations(country)
      filtered  == {loc \in locations : loc.country = country}
  IN IF filtered # {} THEN filtered ELSE locations

Distance(a, b) == IF a > b THEN a - b ELSE b - a

\* sort_by_closest_to, of which the first is taken.
FindTimezone(place, country) ==
  (CHOOSE loc \in Candidates(country) :
     \A other \in Candidates(country) : Distance(loc.at, place) <= Distance(other.at, place)).zone

-------------------------------------------------------------------------------
(* The monitor.                                                            *)

\* Mistake: the monitor remembers the zone it began with.
QueueSetTimezoneForgets(s, zone) == [s EXCEPT !.setting = Append(@, [zone |-> zone, mine |-> TRUE])]

\* queue_set_timezone
QueueSetTimezone(s, zone) ==
  [s EXCEPT !.setting = Append(@, [zone |-> zone, mine |-> TRUE]), !.current_timezone = zone]

\* process_location: the country is of the position that was asked about, the
\* position is the newest.
ProcessLocation(s, country) ==
  LET zone == FindTimezone(s.raw, country)
  IN IF zone = s.current_timezone THEN s ELSE QueueSetTimezone(s, zone)

\* on_location_notify and start_reverse_geocoding
LocationNotify(s) == [s EXCEPT !.raw = s.place, !.geocoding = Append(@, CountryOf[s.place])]

StartGeoclue(s) == [s EXCEPT !.geoclue = "starting"]
StopGeoclue(s)  == [s EXCEPT !.geoclue = "off", !.geocoding = <<>>]
CheckLocationSettings(s) == IF s.location_enabled THEN StartGeoclue(s) ELSE StopGeoclue(s)

\* gsd_timezone_monitor_init; allowed: the permission is there, and timedated.
MonitorNew(s, allowed) ==
  IF ~allowed THEN [s EXCEPT !.monitor = "idle"]
  ELSE CheckLocationSettings([s EXCEPT !.monitor = "on", !.current_timezone = s.timezone])

\* gsd_timezone_monitor_finalize: its calls are cancelled, which does not take
\* back what timedated was told.
MonitorGone(s) ==
  LET stopped == StopGeoclue(s)
  IN [stopped EXCEPT !.monitor = "none",
                     !.setting = [i \in DOMAIN @ |-> [@[i] EXCEPT !.mine = FALSE]]]

\* auto_timezone_settings_changed_cb: whenever it is not so that a monitor is
\* wanted and there is none, there is none.
AutoTimezoneChanged(s, allowed) ==
  IF s.automatic_timezone /\ s.monitor = "none" THEN MonitorNew(s, allowed) ELSE MonitorGone(s)

-------------------------------------------------------------------------------
\* gsd_datetime_manager_startup
TzInit ==
  \E may \in TzWorlds, place \in Places, zone \in Zones, automatic, location, allowed \in BOOLEAN :
    tz = AutoTimezoneChanged(
           [may |-> may, place |-> place, automatic_timezone |-> automatic, location_enabled |-> location,
            monitor |-> "none", geoclue |-> "off", current_timezone |-> zone, raw |-> place,
            geocoding |-> <<>>, setting |-> <<>>, timezone |-> zone, notification |-> NoZone,
            travels |-> 0],
           allowed)

\* on_geoclue_simple_ready: GeoClue is there, or cannot be had.
GeoclueReady ==
  /\ tz.geoclue = "starting"
  /\ \/ tz' = LocationNotify([tz EXCEPT !.geoclue = "ready"])
     \/ "failures" \in tz.may /\ tz' = [tz EXCEPT !.geoclue = "off"]

\* The machine is carried elsewhere, and GeoClue notices.
Travel ==
  /\ tz.travels < MaxTravels
  /\ \E place \in Places \ {tz.place} :
       LET there == [tz EXCEPT !.place = place, !.travels = @ + 1]
       IN tz' = IF tz.geoclue = "ready" THEN LocationNotify(there) ELSE there

\* on_reverse_geocoding_ready; reorder: answers overtake each other.
GeocodingReady ==
  \E i \in DOMAIN tz.geocoding :
    /\ i = 1 \/ "reorder" \in tz.may
    /\ LET rest == [tz EXCEPT !.geocoding = RemoveAt(@, i)]
       IN \/ tz' = ProcessLocation(rest, tz.geocoding[i])
          \/ "failures" \in tz.may /\ tz' = rest

\* timedated sets the zone; set_timezone_cb and timezone_changed_cb tell the
\* user the zone the monitor wants by now.
SetTimezone ==
  /\ tz.setting # <<>>
  /\ LET call == Head(tz.setting)
         rest == [tz EXCEPT !.setting = Tail(@)]
     IN \/ tz' = [rest EXCEPT !.timezone = call.zone,
                              !.notification = IF call.mine THEN tz.current_timezone ELSE @]
        \/ "failures" \in tz.may /\ tz' = rest

\* notification_closed_cb
NotificationClosedByUser ==
  /\ "settings" \in tz.may
  /\ tz.notification # NoZone /\ tz' = [tz EXCEPT !.notification = NoZone]

\* hasty: while timedated has not yet answered the monitor that ends.
AutoTimezoneSet ==
  /\ "settings" \in tz.may /\ tz.travels < MaxTravels /\ (tz.setting = <<>> \/ "hasty" \in tz.may)
  /\ \E allowed \in BOOLEAN :
       tz' = AutoTimezoneChanged([tz EXCEPT !.automatic_timezone = ~@, !.travels = @ + 1], allowed)

LocationEnabledSet ==
  /\ "settings" \in tz.may /\ tz.travels < MaxTravels
  /\ LET set == [tz EXCEPT !.location_enabled = ~@, !.travels = @ + 1]
     IN tz' = IF tz.monitor = "on" THEN CheckLocationSettings(set) ELSE set

\* Somebody sets the zone by hand.
SetByOthers ==
  /\ "others" \in tz.may /\ tz.travels < MaxTravels
  /\ \E zone \in Zones \ {tz.timezone} : tz' = [tz EXCEPT !.timezone = zone, !.travels = @ + 1]

TzNext ==
  \/ GeoclueReady \/ Travel \/ GeocodingReady \/ SetTimezone \/ NotificationClosedByUser
  \/ AutoTimezoneSet \/ LocationEnabledSet \/ SetByOthers

TzSpec == TzInit /\ [][TzNext]_tz

-------------------------------------------------------------------------------
(* Properties                                                              *)

\* When nothing is under way the zone of the machine is that of the place it is
\* at, however fast it travelled, and what the user was told last is that
\* zone.  Where geocoders answer out of order, calls fail, others set the zone or
\* a monitor begins before the calls of the last one are done it is not.
ZoneFollowsPlace ==
  /\ tz.monitor = "on" /\ tz.geoclue = "ready" /\ tz.geocoding = <<>> /\ tz.setting = <<>>
  /\ tz.may \cap {"reorder", "failures", "others", "hasty"} = {}
  => /\ tz.timezone = FindTimezone(tz.place, CountryOf[tz.place])
     /\ tz.notification \in {NoZone, tz.timezone}
=============================================================================
