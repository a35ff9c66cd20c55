---------------------------- MODULE SettingsProofs ----------------------------
(***************************************************************************)
(* The daemons of Session that carry settings elsewhere keep what they        *)
(* promise, whatever the constants are: the time zone that follows the place, *)
(* what users chose of their keyboard, what X clients are told, and what      *)
(* USBGuard is to do.  The parts are laid out as those of SessionProofs.     *)
(***************************************************************************)
EXTENDS Session, TLAPS

-------------------------------------------------------------------------------
(* Sequences, as all parts use them.                                       *)

\* What is appended comes after what is there.
LEMMA Appended ==
  ASSUME NEW S, NEW seq \in Seq(S), NEW e \in S
  PROVE  /\ Append(seq, e) \in Seq(S) /\ Len(Append(seq, e)) = Len(seq) + 1
         /\ DOMAIN Append(seq, e) = 1 .. Len(seq) + 1 /\ DOMAIN seq = 1 .. Len(seq)
         /\ \A i \in 1 .. Len(seq) + 1 :
              \/ i = Len(seq) + 1 /\ Append(seq, e)[i] = e
              \/ i \in 1 .. Len(seq) /\ Append(seq, e)[i] = seq[i]
  OBVIOUS

\* What is left when the head is gone.
LEMMA Tailed ==
  ASSUME NEW S, NEW seq \in Seq(S), seq # <<>>
  PROVE  /\ Head(seq) \in S /\ Head(seq) = seq[1] /\ 1 \in DOMAIN seq
         /\ Tail(seq) \in Seq(S) /\ Len(Tail(seq)) = Len(seq) - 1
         /\ \A i \in DOMAIN Tail(seq) : i + 1 \in DOMAIN seq /\ Tail(seq)[i] = seq[i + 1]
  OBVIOUS

-------------------------------------------------------------------------------
(***************************************************************************)
(* gsd-datetime: the zone goes where the machine goes.  While a monitor is    *)
(* there, the last zone that timedated has been or will be told is the one    *)
(* the monitor wants, and the last country that is asked for is that of the   *)
(* place: calls under way are only ever about the past.                     *)
(***************************************************************************)

\* The zones there are, and those that may be found.
Found == Tz!Zones \cup {Tz!FindTimezone(place, country) : place \in Tz!Places, country \in Tz!Countries}

\* The state is a record of these fields.
Machines ==
  [may : TzWorlds, place : Tz!Places, automatic_timezone : BOOLEAN, location_enabled : BOOLEAN,
   monitor : {"none", "idle", "on"}, geoclue : {"off", "starting", "ready"},
   current_timezone : Found, raw : Tz!Places, geocoding : Seq(Tz!Countries),
   setting : Seq([zone : Found, mine : BOOLEAN]), timezone : Found,
   notification : Found \cup {Tz!NoZone}, travels : Nat]

\* Answers keep their order, calls work, and nobody else sets the zone.
Calm(s) == s.may \cap {"reorder", "failures", "others", "hasty"} = {}

\* What the user was told is the zone, or a monitor's calls are under way.
Told(s) ==
  IF s.setting = <<>> THEN s.notification \in {Tz!NoZone, s.timezone}
  ELSE s.monitor = "on" /\ \A i \in DOMAIN s.setting : s.setting[i].mine

\* The zone is going to be the one the monitor wants.
Sets(s) ==
  s.monitor = "on" =>
    s.current_timezone = IF s.setting = <<>> THEN s.timezone ELSE s.setting[Len(s.setting)].zone

\* The monitor is going to want the zone of the place.
Locates(s) ==
  s.monitor = "on" /\ s.geoclue = "ready" =>
    /\ s.raw = s.place
    /\ IF s.geocoding = <<>>
       THEN s.current_timezone = Tz!FindTimezone(s.place, CountryOf[s.place])
       ELSE s.geocoding[Len(s.geocoding)] = CountryOf[s.place]

\* Without a monitor nobody asks for the place.
Quiet(s) == s.monitor # "on" => s.geoclue = "off" /\ s.geocoding = <<>>

Follows(s) == Told(s) /\ Sets(s) /\ Locates(s) /\ Quiet(s)

TzInv(s) == s \in Machines /\ (Calm(s) => Follows(s))

-------------------------------------------------------------------------------
\* What is left of the answers that wait when the i-th has come.
LEMMA AnswerTaken ==
  ASSUME NEW S, NEW seq \in Seq(S), NEW i \in DOMAIN seq
  PROVE  /\ Tz!RemoveAt(seq, i) \in Seq(S)
         /\ i = 1 /\ Len(seq) = 1 => Tz!RemoveAt(seq, i) = <<>>
         /\ i = 1 /\ Len(seq) # 1 =>
              /\ Tz!RemoveAt(seq, i) # <<>>
              /\ Tz!RemoveAt(seq, i)[Len(Tz!RemoveAt(seq, i))] = seq[Len(seq)]
<1> DEFINE a == SubSeq(seq, 1, i - 1)
           b == SubSeq(seq, i + 1, Len(seq))
<1>1. Len(seq) \in Nat /\ i \in 1 .. Len(seq)
  OBVIOUS
<1>2. /\ a \in Seq(S) /\ Len(a) = i - 1
      /\ b \in Seq(S) /\ Len(b) = Len(seq) - i /\ \A j \in 1 .. Len(seq) - i : b[j] = seq[i + j]
  BY <1>1
<1>3. Tz!RemoveAt(seq, i) = a \o b
  BY DEF Tz!RemoveAt
<1> HIDE DEF a, b
<1>4. a \o b \in Seq(S)
  BY <1>2
<1>5. ASSUME i = 1 PROVE a \o b = b
  BY <1>2, <1>5
<1>6. ASSUME i = 1, Len(seq) = 1 PROVE b = <<>>
  BY <1>2, <1>6
<1>7. ASSUME i = 1, Len(seq) # 1 PROVE b # <<>> /\ b[Len(b)] = seq[Len(seq)]
  BY <1>1, <1>2, <1>7
<1> QED
  BY <1>3, <1>4, <1>5, <1>6, <1>7

\* The country of a place is one of the countries, and its zone is found.
LEMMA PlaceOps ==
  ASSUME NEW place \in Tz!Places
  PROVE  CountryOf[place] \in Tz!Countries
BY DEF Tz!Countries
LEMMA FoundOps ==
  ASSUME NEW place \in Tz!Places, NEW country \in Tz!Countries
  PROVE  Tz!FindTimezone(place, country) \in Found
BY DEF Found

\* on_location_notify: the newest question is about the place.
LEMMA LocationNotifyOps ==
  ASSUME NEW s \in Machines
  PROVE  LET t == Tz!LocationNotify(s)
         IN /\ t \in Machines /\ t.may = s.may
            /\ Told(s) /\ Sets(s) /\ s.monitor = "on" => Follows(t)
<1> DEFINE c == CountryOf[s.place]
           t == Tz!LocationNotify(s)
<1>1. c \in Tz!Countries /\ s.geocoding \in Seq(Tz!Countries)
  BY PlaceOps DEF Machines
<1>2. /\ Append(s.geocoding, c) \in Seq(Tz!Countries) /\ Append(s.geocoding, c) # <<>>
      /\ Append(s.geocoding, c)[Len(Append(s.geocoding, c))] = c
  BY <1>1
<1>3. t = [s EXCEPT !.raw = s.place, !.geocoding = Append(s.geocoding, c)]
  BY DEF Tz!LocationNotify, Machines
<1> HIDE DEF t, c
<1>4. /\ t \in Machines /\ t.may = s.may /\ t.raw = s.place /\ t.place = s.place
      /\ t.geocoding = Append(s.geocoding, c) /\ t.setting = s.setting /\ t.monitor = s.monitor
      /\ t.current_timezone = s.current_timezone /\ t.timezone = s.timezone
      /\ t.notification = s.notification
  BY <1>2, <1>3 DEF Machines
<1>5. Told(s) /\ Sets(s) => Told(t) /\ Sets(t)
  BY <1>4 DEF Told, Sets
<1>6. Locates(t)
  BY <1>2, <1>4 DEF Locates, c
<1>7. s.monitor = "on" => Quiet(t)
  BY <1>4 DEF Quiet
<1> QED
  BY <1>4, <1>5, <1>6, <1>7 DEF Follows, t

\* check_location_settings
LEMMA CheckLocationOps ==
  ASSUME NEW s \in Machines
  PROVE  LET t == Tz!CheckLocationSettings(s)
         IN t \in Machines /\ t.may = s.may /\ (Told(s) /\ Sets(s) /\ s.monitor = "on" => Follows(t))
<1> DEFINE t == Tz!CheckLocationSettings(s)
<1>1. /\ t \in Machines /\ t.may = s.may /\ t.geoclue # "ready"
      /\ t.setting = s.setting /\ t.monitor = s.monitor
      /\ t.current_timezone = s.current_timezone /\ t.timezone = s.timezone
      /\ t.notification = s.notification
  <2>1. <<>> \in Seq(Tz!Countries)
    OBVIOUS
  <2>2. CASE s.location_enabled
    <3>1. t = [s EXCEPT !.geoclue = "starting"]
      BY <2>2 DEF Tz!CheckLocationSettings, Tz!StartGeoclue
    <3> QED
      BY <3>1 DEF Machines
  <2>3. CASE ~s.location_enabled
    <3>1. t = [s EXCEPT !.geoclue = "off", !.geocoding = <<>>]
      BY <2>3 DEF Tz!CheckLocationSettings, Tz!StopGeoclue
    <3> QED
      BY <2>1, <3>1 DEF Machines
  <2> QED
    BY <2>2, <2>3
<1> HIDE DEF t
<1>2. Told(s) /\ Sets(s) /\ s.monitor = "on" => Follows(t)
  BY <1>1 DEF Follows, Told, Sets, Locates, Quiet
<1> QED
  BY <1>1, <1>2 DEF t

\* auto_timezone_settings_changed_cb, when no call of the last monitor is left.
LEMMA AutoTimezoneOps ==
  ASSUME NEW s \in Machines, NEW allowed \in BOOLEAN
  PROVE  LET t == Tz!AutoTimezoneChanged(s, allowed)
         IN /\ t \in Machines /\ t.may = s.may
            /\ Told(s) /\ Quiet(s) /\ s.setting = <<>> => Follows(t)
<1> DEFINE t == Tz!AutoTimezoneChanged(s, allowed)
           on == [s EXCEPT !.monitor = "on", !.current_timezone = s.timezone]
<1>1. CASE s.automatic_timezone /\ s.monitor = "none"
  <2>1. CASE allowed
    <3>1. t = Tz!CheckLocationSettings(on)
      BY <1>1, <2>1 DEF Tz!AutoTimezoneChanged, Tz!MonitorNew
    <3>2. /\ on \in Machines /\ on.may = s.may /\ on.setting = s.setting /\ on.timezone = s.timezone
          /\ on.current_timezone = s.timezone /\ on.notification = s.notification /\ on.monitor = "on"
      BY DEF Machines
    <3> HIDE DEF t, on
    <3>3. Told(s) /\ s.setting = <<>> => Told(on) /\ Sets(on)
      BY <3>2 DEF Told, Sets
    <3> QED
      BY <3>1, <3>2, <3>3, CheckLocationOps DEF t
  <2>2. CASE ~allowed
    <3>1. t = [s EXCEPT !.monitor = "idle"]
      BY <1>1, <2>2 DEF Tz!AutoTimezoneChanged, Tz!MonitorNew
    <3> HIDE DEF t
    <3>2. /\ t \in Machines /\ t.may = s.may /\ t.setting = s.setting /\ t.timezone = s.timezone
          /\ t.monitor = "idle" /\ t.notification = s.notification
          /\ t.geoclue = s.geoclue /\ t.geocoding = s.geocoding
      BY <3>1 DEF Machines
    <3> QED
      BY <1>1, <3>2 DEF Follows, Told, Sets, Locates, Quiet, t
  <2> QED
    BY <2>1, <2>2
<1>2. CASE ~(s.automatic_timezone /\ s.monitor = "none")
  <2> DEFINE left == [i \in DOMAIN s.setting |-> [s.setting[i] EXCEPT !.mine = FALSE]]
  <2>1. t = [s EXCEPT !.geoclue = "off", !.geocoding = <<>>, !.monitor = "none", !.setting = left]
    BY <1>2 DEF Tz!AutoTimezoneChanged, Tz!MonitorGone, Tz!StopGeoclue, Machines
  <2>2. left \in Seq([zone : Found, mine : BOOLEAN]) /\ (s.setting = <<>> => left = <<>>)
    <3> DEFINE Calls == [zone : Found, mine : BOOLEAN]
    <3>1. s.setting \in Seq(Calls)
      BY DEF Machines
    <3>2. /\ Len(s.setting) \in Nat /\ DOMAIN s.setting = 1 .. Len(s.setting)
          /\ \A i \in DOMAIN s.setting : s.setting[i] \in Calls
      <4> HIDE DEF Calls
      <4> QED
        BY <3>1
    <3>. \A r \in [zone : Found, mine : BOOLEAN] :
           [r EXCEPT !.mine = FALSE] \in [zone : Found, mine : BOOLEAN]
      OBVIOUS
    <3>3. left \in Seq([zone : Found, mine : BOOLEAN])
      BY <3>2
    <3>4. s.setting = <<>> => left = <<>>
      OBVIOUS
    <3> QED
      BY <3>3, <3>4
  <2>3. <<>> \in Seq(Tz!Countries)
    OBVIOUS
  <2> HIDE DEF left, t
  <2>4. /\ t \in Machines /\ t.may = s.may /\ t.setting = left /\ t.timezone = s.timezone
        /\ t.monitor = "none" /\ t.notification = s.notification
        /\ t.geoclue = "off" /\ t.geocoding = <<>>
    BY <2>1, <2>2, <2>3 DEF Machines
  <2> QED
    BY <2>2, <2>4 DEF Follows, Told, Sets, Locates, Quiet, t
<1> QED
  BY <1>1, <1>2

\* process_location with the answer about the newest question.
LEMMA ProcessLocationOps ==
  ASSUME NEW s \in Machines, NEW country \in Tz!Countries
  PROVE  LET t == Tz!ProcessLocation(s, country)
         IN /\ t \in Machines /\ t.may = s.may
            /\ /\ Told(s) /\ Sets(s) /\ s.monitor = "on"
               /\ s.geoclue = "ready" => /\ s.raw = s.place
                                         /\ IF s.geocoding = <<>> THEN country = CountryOf[s.place]
                                            ELSE s.geocoding[Len(s.geocoding)] = CountryOf[s.place]
               => Follows(t)
<1> DEFINE t == Tz!ProcessLocation(s, country)
           zone == Tz!FindTimezone(s.raw, country)
           call == [zone |-> zone, mine |-> TRUE]
<1>1. zone \in Found /\ s.setting \in Seq([zone : Found, mine : BOOLEAN])
  BY FoundOps DEF Machines
<1>2. CASE zone = s.current_timezone
  <2>1. t = s
    BY <1>2 DEF Tz!ProcessLocation
  <2> HIDE DEF t, zone
  <2> QED
    BY <1>2, <2>1 DEF Follows, Locates, Quiet, t, zone
<1>3. CASE zone # s.current_timezone
  <2>1. t = [s EXCEPT !.setting = Append(@, call), !.current_timezone = zone]
    BY <1>3 DEF Tz!ProcessLocation, Tz!QueueSetTimezone
  <2>2. call \in [zone : Found, mine : BOOLEAN] /\ call.zone = zone /\ call.mine
    BY <1>1
  <2> HIDE DEF call, zone, t
  <2> DEFINE calls == Append(s.setting, call)
  <2>3. /\ calls \in Seq([zone : Found, mine : BOOLEAN]) /\ calls # <<>> /\ calls[Len(calls)] = call
        /\ \A i \in DOMAIN calls : calls[i] = call \/ (i \in DOMAIN s.setting /\ calls[i] = s.setting[i])
    BY <1>1, <2>2
  <2>4. t = [s EXCEPT !.setting = calls, !.current_timezone = zone]
    BY <2>1 DEF Machines
  <2> HIDE DEF calls
  <2>5. /\ t \in Machines /\ t.may = s.may /\ t.setting = calls /\ t.current_timezone = zone
        /\ t.monitor = s.monitor /\ t.geoclue = s.geoclue /\ t.raw = s.raw /\ t.place = s.place
        /\ t.geocoding = s.geocoding
    BY <1>1, <2>3, <2>4 DEF Machines
  <2>6. Told(s) /\ s.monitor = "on" => Told(t)
    BY <2>2, <2>3, <2>5 DEF Told
  <2>7. Sets(t)
    BY <2>2, <2>3, <2>5 DEF Sets
  <2> QED
    BY <2>5, <2>6, <2>7 DEF Follows, Locates, Quiet, t, zone
<1> QED
  BY <1>2, <1>3

-------------------------------------------------------------------------------
LEMMA GeoclueReadyInv == ASSUME TzInv(st), Tz!GeoclueReady PROVE TzInv(st')
<1> DEFINE s == [st EXCEPT !.geoclue = "ready"]
<1>1. CASE st' = Tz!LocationNotify(s)
  <2>1. /\ s \in Machines /\ s.may = st.may /\ s.setting = st.setting /\ s.monitor = st.monitor
        /\ s.current_timezone = st.current_timezone /\ s.timezone = st.timezone
        /\ s.notification = st.notification
    BY DEF TzInv, Machines
  <2> HIDE DEF s
  <2>2. Follows(st) => Told(s) /\ Sets(s) /\ s.monitor = "on"
    BY <2>1 DEF Follows, Told, Sets, Quiet, Tz!GeoclueReady
  <2> QED
    BY <1>1, <2>1, <2>2, LocationNotifyOps DEF TzInv, Calm
<1>2. CASE "failures" \in st.may /\ st' = [st EXCEPT !.geoclue = "off"]
  BY <1>2 DEF TzInv, Machines, Calm
<1> QED
  BY <1>1, <1>2 DEF Tz!GeoclueReady

LEMMA TravelInv == ASSUME TzInv(st), Tz!Travel PROVE TzInv(st')
<1>1. PICK place \in Tz!Places :
        LET s == [st EXCEPT !.place = place, !.travels = @ + 1]
        IN st' = IF st.geoclue = "ready" THEN Tz!LocationNotify(s) ELSE s
  BY DEF Tz!Travel
<1> DEFINE s == [st EXCEPT !.place = place, !.travels = @ + 1]
<1>2. /\ s \in Machines /\ s.may = st.may /\ s.setting = st.setting /\ s.monitor = st.monitor
      /\ s.current_timezone = st.current_timezone /\ s.timezone = st.timezone
      /\ s.notification = st.notification /\ s.geoclue = st.geoclue /\ s.geocoding = st.geocoding
  <2>1. st \in Machines /\ st.travels + 1 \in Nat
    BY DEF TzInv, Machines
  <2>2. s = [st EXCEPT !.place = place, !.travels = st.travels + 1]
    BY <2>1 DEF Machines
  <2> HIDE DEF s
  <2>3. s \in Machines
    BY <2>1, <2>2 DEF Machines
  <2> QED
    BY <2>1, <2>2, <2>3 DEF Machines
<1> HIDE DEF s
<1>3. Follows(st) => Told(s) /\ Sets(s) /\ (st.geoclue = "ready" => s.monitor = "on")
  BY <1>2 DEF Follows, Told, Sets, Quiet
<1>4. CASE st.geoclue = "ready"
  BY <1>1, <1>2, <1>3, <1>4, LocationNotifyOps DEF TzInv, Calm, s
<1>5. CASE st.geoclue # "ready"
  <2>1. st' = s
    BY <1>1, <1>5 DEF s
  <2> QED
    BY <1>2, <1>3, <1>5, <2>1 DEF TzInv, Calm, Follows, Locates, Quiet
<1> QED
  BY <1>4, <1>5

LEMMA GeocodingReadyInv == ASSUME TzInv(st), Tz!GeocodingReady PROVE TzInv(st')
<1>1. PICK i \in DOMAIN st.geocoding :
        /\ i = 1 \/ "reorder" \in st.may
        /\ LET rest == [st EXCEPT !.geocoding = Tz!RemoveAt(@, i)]
           IN \/ st' = Tz!ProcessLocation(rest, st.geocoding[i])
              \/ "failures" \in st.may /\ st' = rest
  BY DEF Tz!GeocodingReady
<1> DEFINE left == Tz!RemoveAt(st.geocoding, i)
           s == [st EXCEPT !.geocoding = left]
           country == st.geocoding[i]
<1>2. st \in Machines /\ st.geocoding \in Seq(Tz!Countries) /\ country \in Tz!Countries
  <2>1. st.geocoding \in Seq(Tz!Countries)
    BY DEF TzInv, Machines
  <2> QED
    BY <2>1 DEF TzInv
<1>3. /\ left \in Seq(Tz!Countries)
      /\ i = 1 /\ Len(st.geocoding) = 1 => left = <<>>
      /\ i = 1 /\ Len(st.geocoding) # 1 =>
           left # <<>> /\ left[Len(left)] = st.geocoding[Len(st.geocoding)]
  BY <1>2, AnswerTaken
<1>4. \/ st' = Tz!ProcessLocation(s, country)
      \/ "failures" \in st.may /\ st' = s
  BY <1>1, <1>2 DEF Machines
<1> HIDE DEF left
<1>5. /\ s \in Machines /\ s.may = st.may /\ s.setting = st.setting /\ s.monitor = st.monitor
      /\ s.current_timezone = st.current_timezone /\ s.timezone = st.timezone
      /\ s.notification = st.notification /\ s.geoclue = st.geoclue /\ s.raw = st.raw
      /\ s.place = st.place /\ s.geocoding = left
  BY <1>2, <1>3 DEF Machines
<1> HIDE DEF s
<1>6. ASSUME Calm(st)
      PROVE  /\ Told(s) /\ Sets(s) /\ s.monitor = "on" /\ (left = <<>> => country = st.geocoding[Len(st.geocoding)])
             /\ s.monitor = "on" /\ s.geoclue = "ready" =>
                  /\ s.raw = s.place
                  /\ IF left = <<>> THEN country = CountryOf[s.place]
                     ELSE left[Len(left)] = CountryOf[s.place]
  <2>1. i = 1 /\ Follows(st) /\ st.geocoding # <<>>
    BY <1>1, <1>2, <1>6 DEF TzInv, Calm
  <2>2. Told(s) /\ Sets(s) /\ s.monitor = "on"
    BY <1>5, <2>1 DEF Follows, Told, Sets, Quiet
  <2>3. st.monitor = "on" /\ st.geoclue = "ready" =>
          st.raw = st.place /\ st.geocoding[Len(st.geocoding)] = CountryOf[st.place]
    BY <2>1 DEF Follows, Locates
  <2>4. CASE Len(st.geocoding) = 1
    BY <1>3, <1>5, <2>1, <2>2, <2>3, <2>4
  <2>5. CASE Len(st.geocoding) # 1
    BY <1>3, <1>5, <2>1, <2>2, <2>3, <2>5
  <2> QED
    BY <2>4, <2>5
<1>7. CASE st' = Tz!ProcessLocation(s, country)
  <2> DEFINE t == Tz!ProcessLocation(s, country)
  <2>1. /\ t \in Machines /\ t.may = s.may
        /\ /\ Told(s) /\ Sets(s) /\ s.monitor = "on"
           /\ s.geoclue = "ready" => /\ s.raw = s.place
                                     /\ IF s.geocoding = <<>> THEN country = CountryOf[s.place]
                                        ELSE s.geocoding[Len(s.geocoding)] = CountryOf[s.place]
           => Follows(t)
    BY <1>2, <1>5, ProcessLocationOps
  <2>2. st' = t
    BY <1>7
  <2> HIDE DEF t, country
  <2> QED
    BY <1>5, <1>6, <2>1, <2>2 DEF TzInv, Calm
<1>8. CASE "failures" \in st.may /\ st' = s
  BY <1>5, <1>8 DEF TzInv, Calm
<1> QED
  BY <1>4, <1>7, <1>8

\* set_timezone_cb: the last call tells the user the zone it was about.
LEMMA SetTimezoneInv == ASSUME TzInv(st), Tz!SetTimezone PROVE TzInv(st')
<1> DEFINE Calls == [zone : Found, mine : BOOLEAN]
           call == Head(st.setting)
           left == Tail(st.setting)
           told == IF call.mine THEN st.current_timezone ELSE st.notification
<1>1. /\ st \in Machines /\ st.setting \in Seq(Calls) /\ st.setting # <<>>
      /\ \/ st' = [st EXCEPT !.setting = left, !.timezone = call.zone, !.notification = told]
         \/ "failures" \in st.may /\ st' = [st EXCEPT !.setting = left]
  BY DEF TzInv, Machines, Tz!SetTimezone
<1>2. /\ call \in Calls /\ call = st.setting[1] /\ 1 \in DOMAIN st.setting
      /\ left \in Seq(Calls) /\ Len(st.setting) \in Nat
      /\ left = <<>> => Len(st.setting) = 1
      /\ left # <<>> => left[Len(left)] = st.setting[Len(st.setting)]
      /\ \A i \in DOMAIN left : i + 1 \in DOMAIN st.setting /\ left[i] = st.setting[i + 1]
  <2> HIDE DEF Calls
  <2>1. /\ Len(st.setting) \in Nat \ {0} /\ DOMAIN st.setting = 1 .. Len(st.setting)
        /\ \A i \in DOMAIN st.setting : st.setting[i] \in Calls
    BY <1>1
  <2>2. call \in Calls /\ call = st.setting[1] /\ 1 \in DOMAIN st.setting
    BY <1>1, <2>1
  <2>3. /\ left \in Seq(Calls) /\ Len(left) = Len(st.setting) - 1
        /\ \A i \in 1 .. Len(left) : left[i] = st.setting[i + 1]
    BY <1>1, <2>1
  <2> HIDE DEF left, call
  <2>4. Len(left) \in Nat /\ DOMAIN left = 1 .. Len(left) /\ (left = <<>> <=> Len(left) = 0)
    <3>1. Len(left) \in Nat /\ DOMAIN left = 1 .. Len(left)
      BY <2>3
    <3>2. left = <<>> => Len(left) = 0
      OBVIOUS
    <3>3. Len(left) = 0 => left = <<>>
      BY <2>3
    <3> QED
      BY <3>1, <3>2, <3>3
  <2>5. left = <<>> => Len(st.setting) = 1
    BY <2>1, <2>3, <2>4
  <2>6. left # <<>> => left[Len(left)] = st.setting[Len(st.setting)]
    <3> SUFFICES ASSUME left # <<>> PROVE left[Len(left)] = st.setting[Len(st.setting)]
      OBVIOUS
    <3>1. Len(left) \in 1 .. Len(left) /\ Len(left) + 1 = Len(st.setting)
      BY <2>1, <2>3, <2>4
    <3> QED
      BY <2>3, <3>1
  <2>7. \A i \in DOMAIN left : i + 1 \in DOMAIN st.setting /\ left[i] = st.setting[i + 1]
    BY <2>1, <2>3, <2>4
  <2> QED
    BY <2>1, <2>2, <2>3, <2>5, <2>6, <2>7
<1>3. call.zone \in Found /\ told \in Found \cup {Tz!NoZone}
  BY <1>1, <1>2 DEF Machines
<1> HIDE DEF call, left, Calls
<1>4. CASE st' = [st EXCEPT !.setting = left, !.timezone = call.zone, !.notification = told]
  <2>1. /\ st' \in Machines /\ st'.may = st.may /\ st'.setting = left /\ st'.timezone = call.zone
        /\ st'.notification = told /\ st'.monitor = st.monitor /\ st'.geoclue = st.geoclue
        /\ st'.current_timezone = st.current_timezone /\ st'.raw = st.raw /\ st'.place = st.place
        /\ st'.geocoding = st.geocoding
    <3> HIDE DEF told
    <3>1. left \in Seq([zone : Found, mine : BOOLEAN])
      BY <1>2 DEF Calls
    <3> QED
      BY <1>1, <1>3, <1>4, <3>1 DEF Machines
  <2>2. ASSUME Follows(st) PROVE Told(st')
    <3>1. /\ st.monitor = "on" /\ \A i \in DOMAIN st.setting : st.setting[i].mine
          /\ st.current_timezone = st.setting[Len(st.setting)].zone
      BY <1>1, <2>2 DEF Follows, Told, Sets
    <3>2. CASE left = <<>>
      BY <1>2, <2>1, <3>1, <3>2 DEF Told
    <3>3. CASE left # <<>>
      BY <1>2, <2>1, <3>1, <3>3 DEF Told
    <3> QED
      BY <3>2, <3>3
  <2>3. ASSUME Follows(st) PROVE Sets(st')
    BY <1>1, <1>2, <2>1, <2>3 DEF Follows, Sets
  <2>4. Follows(st) => Locates(st') /\ Quiet(st')
    BY <2>1 DEF Follows, Locates, Quiet
  <2> QED
    BY <2>1, <2>2, <2>3, <2>4 DEF TzInv, Calm, Follows
<1>5. CASE "failures" \in st.may /\ st' = [st EXCEPT !.setting = left]
  <2>1. left \in Seq([zone : Found, mine : BOOLEAN])
    BY <1>2 DEF Calls
  <2> QED
    BY <1>1, <1>5, <2>1 DEF TzInv, Machines, Calm
<1> QED
  BY <1>1, <1>4, <1>5

LEMMA NotificationClosedInv == ASSUME TzInv(st), Tz!NotificationClosedByUser PROVE TzInv(st')
BY DEF TzInv, Machines, Calm, Tz!NotificationClosedByUser, Follows, Told, Sets, Locates, Quiet

LEMMA AutoTimezoneSetInv == ASSUME TzInv(st), Tz!AutoTimezoneSet PROVE TzInv(st')
<1> DEFINE s == [st EXCEPT !.automatic_timezone = ~@, !.travels = @ + 1]
<1>1. PICK allowed \in BOOLEAN : st' = Tz!AutoTimezoneChanged(s, allowed)
  BY DEF Tz!AutoTimezoneSet
<1>2. /\ s \in Machines /\ s.may = st.may /\ s.setting = st.setting /\ s.timezone = st.timezone
      /\ s.notification = st.notification /\ s.monitor = st.monitor /\ s.geoclue = st.geoclue
      /\ s.geocoding = st.geocoding
  <2>1. st \in Machines /\ st.travels + 1 \in Nat /\ (~st.automatic_timezone) \in BOOLEAN
    BY DEF TzInv, Machines
  <2>2. s = [st EXCEPT !.automatic_timezone = ~st.automatic_timezone, !.travels = st.travels + 1]
    BY <2>1 DEF Machines
  <2> HIDE DEF s
  <2>3. s \in Machines
    BY <2>1, <2>2 DEF Machines
  <2> QED
    BY <2>1, <2>2, <2>3 DEF Machines
<1> HIDE DEF s
<1>3. Calm(st) => Told(s) /\ Quiet(s) /\ s.setting = <<>>
  BY <1>2 DEF TzInv, Calm, Follows, Told, Quiet, Tz!AutoTimezoneSet
<1> QED
  BY <1>1, <1>2, <1>3, AutoTimezoneOps DEF TzInv, Calm

LEMMA LocationEnabledSetInv == ASSUME TzInv(st), Tz!LocationEnabledSet PROVE TzInv(st')
<1> DEFINE s == [st EXCEPT !.location_enabled = ~@, !.travels = @ + 1]
<1>1. st' = IF st.monitor = "on" THEN Tz!CheckLocationSettings(s) ELSE s
  BY DEF Tz!LocationEnabledSet
<1>2. /\ s \in Machines /\ s.may = st.may /\ s.setting = st.setting /\ s.timezone = st.timezone
      /\ s.notification = st.notification /\ s.monitor = st.monitor /\ s.geoclue = st.geoclue
      /\ s.geocoding = st.geocoding /\ s.current_timezone = st.current_timezone
  <2>1. st \in Machines /\ st.travels + 1 \in Nat /\ (~st.location_enabled) \in BOOLEAN
    BY DEF TzInv, Machines
  <2>2. s = [st EXCEPT !.location_enabled = ~st.location_enabled, !.travels = st.travels + 1]
    BY <2>1 DEF Machines
  <2> HIDE DEF s
  <2>3. s \in Machines
    BY <2>1, <2>2 DEF Machines
  <2> QED
    BY <2>1, <2>2, <2>3 DEF Machines
<1> HIDE DEF s
<1>3. Follows(st) => Told(s) /\ Sets(s) /\ Quiet(s)
  BY <1>2 DEF Follows, Told, Sets, Quiet
<1>4. CASE st.monitor = "on"
  BY <1>1, <1>2, <1>3, <1>4, CheckLocationOps DEF TzInv, Calm
<1>5. CASE st.monitor # "on"
  BY <1>1, <1>2, <1>3, <1>5 DEF TzInv, Calm, Follows, Locates
<1> QED
  BY <1>4, <1>5

LEMMA SetByOthersInv == ASSUME TzInv(st), Tz!SetByOthers PROVE TzInv(st')
<1>1. PICK zone \in Tz!Zones : st' = [st EXCEPT !.timezone = zone, !.travels = @ + 1]
  BY DEF Tz!SetByOthers
<1>2. st \in Machines /\ zone \in Found /\ st.travels + 1 \in Nat
  BY DEF TzInv, Machines, Found
<1>3. st' = [st EXCEPT !.timezone = zone, !.travels = st.travels + 1]
  BY <1>1, <1>2 DEF Machines
<1>4. st' \in Machines /\ st'.may = st.may
  BY <1>2, <1>3 DEF Machines
<1> QED
  BY <1>4 DEF TzInv, Calm, Tz!SetByOthers

LEMMA TzInitInv == ASSUME Tz!TzInit PROVE TzInv(st)
<1>1. PICK may \in TzWorlds, place \in Tz!Places, zone \in Tz!Zones,
           automatic \in BOOLEAN, location \in BOOLEAN, allowed \in BOOLEAN :
        st = Tz!AutoTimezoneChanged(
               [may |-> may, place |-> place, automatic_timezone |-> automatic,
                location_enabled |-> location, monitor |-> "none", geoclue |-> "off",
                current_timezone |-> zone, raw |-> place, geocoding |-> <<>>, setting |-> <<>>,
                timezone |-> zone, notification |-> Tz!NoZone, travels |-> 0], allowed)
  BY DEF Tz!TzInit
<1> DEFINE s == [may |-> may, place |-> place, automatic_timezone |-> automatic,
                 location_enabled |-> location, monitor |-> "none", geoclue |-> "off",
                 current_timezone |-> zone, raw |-> place, geocoding |-> <<>>, setting |-> <<>>,
                 timezone |-> zone, notification |-> Tz!NoZone, travels |-> 0]
<1>2. s \in Machines /\ Told(s) /\ Quiet(s) /\ s.setting = <<>>
  <2>1. zone \in Found /\ <<>> \in Seq(Tz!Countries) /\ <<>> \in Seq([zone : Found, mine : BOOLEAN])
    BY DEF Found
  <2>2. s \in Machines
    BY <2>1 DEF Machines
  <2> QED
    BY <2>2 DEF Told, Quiet
<1> HIDE DEF s
<1> QED
  BY <1>1, <1>2, AutoTimezoneOps DEF TzInv, s

LEMMA TzNextInv == ASSUME TzInv(st), Tz!TzNext PROVE TzInv(st')
BY GeoclueReadyInv, TravelInv, GeocodingReadyInv, SetTimezoneInv, NotificationClosedInv,
   AutoTimezoneSetInv, LocationEnabledSetInv, SetByOthersInv DEF Tz!TzNext

\* Once nothing is under way that is what the property says.
LEMMA TzSafe == ASSUME TzInv(st) PROVE Tz!ZoneFollowsPlace
BY DEF TzInv, Calm, Follows, Told, Sets, Locates, Tz!ZoneFollowsPlace

\* When nothing is under way the zone of the machine is that of the place where it
\* is, and what the user was told last is that zone (gsd-timezone-monitor.c:
\* process_location, queue_set_timezone), as long as answers keep their order,
\* calls work and nobody else sets the zone.
THEOREM ZoneCorrect == SessionSpec => []ZoneFollowsPlace
<1> DEFINE Inv == daemon = "datetime" => TzInv(st)
<1>1. SessionInit => Inv
  BY TzInitInv DEF SessionInit
<1>2. Inv /\ [SessionNext]_vars => Inv'
  <2> SUFFICES ASSUME Inv, [SessionNext]_vars, (daemon = "datetime")' PROVE TzInv(st')
    OBVIOUS
  <2>1. daemon = "datetime" /\ [Tz!TzNext]_st
    BY DEF SessionNext, Of, vars
  <2> QED
    BY <2>1, TzNextInv
<1>3. Inv => ZoneFollowsPlace
  BY TzSafe DEF ZoneFollowsPlace
<1> QED
  BY <1>1, <1>2, <1>3, PTL DEF SessionSpec
-------------------------------------------------------------------------------
(***************************************************************************)
(* gsd-keyboard: the daemon overrides no choice of the user.  Whatever the   *)
(* user did before, what carries settings over writes the input sources when *)
(* there are none, options only when the stamp is missing or none were       *)
(* chosen, and the input method module only when its stamp is missing.       *)
(***************************************************************************)

\* The state is a record of these fields, whatever their values.
BoardFields ==
  {"may", "phase", "sources", "options", "options_set", "converted", "ported", "im_module",
   "old_delay", "delay", "gdm", "by", "logins", "calls"}

\* From s to t nothing is overridden.
Keeps(s, t) ==
  /\ s.sources # <<>> => t.sources = s.sources
  /\ s.converted /\ s.options_set => t.options = s.options
  /\ s.ported => t.im_module = s.im_module

\* migrate_keyboard_settings
LEMMA MigrateOps ==
  ASSUME NEW s, DOMAIN s = BoardFields, NEW written
  PROVE  LET t == Kb!MigrateKeyboardSettings(s, written)
         IN DOMAIN t = BoardFields /\ Keeps(s, t)
<1> DEFINE t == Kb!MigrateKeyboardSettings(s, written)
           moved == Kb!MigrateCheck(s)
<1>1. /\ DOMAIN moved = BoardFields /\ moved.sources = s.sources /\ moved.options = s.options
      /\ moved.im_module = s.im_module /\ moved.ported = s.ported
  BY DEF Kb!MigrateCheck, BoardFields
<1>2. t = IF moved.ported THEN moved ELSE [moved EXCEPT !.im_module = "", !.ported = written]
  BY DEF Kb!MigrateKeyboardSettings
<1> HIDE DEF t, moved
<1> QED
  BY <1>1, <1>2 DEF Keeps, BoardFields, t

\* maybe_convert_old_settings
LEMMA ConvertOps ==
  ASSUME NEW s, DOMAIN s = BoardFields, NEW written
  PROVE  LET t == Kb!MaybeConvertOldSettings(s, written)
         IN /\ DOMAIN t = BoardFields /\ Keeps(s, t) /\ t.im_module = s.im_module
            /\ s.converted => t = s
<1> DEFINE t == Kb!MaybeConvertOldSettings(s, written)
           layouts == IF "libgnomekbd" \in s.may /\ s.sources = <<>> THEN Kb!ConvertLayouts(s) ELSE s
           options == IF "libgnomekbd" \in s.may /\ s.options = <<>>
                      THEN Kb!ConvertOptions(layouts) ELSE layouts
<1>1. /\ DOMAIN layouts = BoardFields /\ layouts.im_module = s.im_module
      /\ s.sources # <<>> => layouts.sources = s.sources
  BY DEF Kb!ConvertLayouts, BoardFields
<1>2. t = IF s.converted THEN s ELSE [options EXCEPT !.converted = written]
  BY DEF Kb!MaybeConvertOldSettings
<1> HIDE DEF layouts, t
<1>3. /\ DOMAIN options = BoardFields /\ options.im_module = s.im_module
      /\ options.sources = layouts.sources
  BY <1>1 DEF Kb!ConvertOptions, BoardFields
<1> HIDE DEF options
<1> QED
  BY <1>1, <1>2, <1>3 DEF Keeps, BoardFields, t

\* maybe_create_initial_settings
LEMMA CreateOps ==
  ASSUME NEW s, DOMAIN s = BoardFields, NEW localed, NEW written
  PROVE  LET t == Kb!MaybeCreateInitialSettings(s, localed, written)
         IN DOMAIN t = BoardFields /\ Keeps(s, t)
<1> DEFINE t == Kb!MaybeCreateInitialSettings(s, localed, written)
           converted == Kb!MaybeConvertOldSettings(s, written)
           sources   == IF converted.sources = <<>> THEN Kb!SourcesFromXkb(converted, localed)
                        ELSE converted
<1>1. /\ DOMAIN converted = BoardFields /\ Keeps(s, converted)
      /\ converted.im_module = s.im_module /\ (s.converted => converted = s)
  BY ConvertOps
<1>2. t = IF s.gdm THEN s
          ELSE IF sources.options_set THEN sources ELSE Kb!OptionsFromXkb(sources, localed)
  BY DEF Kb!MaybeCreateInitialSettings
<1> HIDE DEF converted, t
<1>3. /\ DOMAIN sources = BoardFields /\ sources.im_module = converted.im_module
      /\ sources.options = converted.options /\ sources.options_set = converted.options_set
      /\ converted.sources # <<>> => sources.sources = converted.sources
  BY <1>1 DEF Kb!SourcesFromXkb, BoardFields
<1> HIDE DEF sources
<1>4. LET u == Kb!OptionsFromXkb(sources, localed)
      IN DOMAIN u = BoardFields /\ u.im_module = sources.im_module /\ u.sources = sources.sources
  BY <1>3 DEF Kb!OptionsFromXkb, BoardFields
<1> QED
  BY <1>1, <1>2, <1>3, <1>4 DEF Keeps, t

-------------------------------------------------------------------------------
\* A step of the daemon keeps the record, and overrides nothing.
LEMMA KbStep ==
  ASSUME DOMAIN st = BoardFields, Kb!KbNext
  PROVE  DOMAIN st' = BoardFields /\ Kb!ChoicesAreKept
<1>1. CASE Kb!Login
  <2> DEFINE s == [st EXCEPT !.phase = "idle", !.by = "daemon", !.logins = @ + 1]
  <2>1. PICK written \in BOOLEAN : st' = Kb!MigrateKeyboardSettings(s, written)
    BY <1>1 DEF Kb!Login
  <2>2. DOMAIN s = BoardFields /\ (\A t : Keeps(s, t) => Keeps(st, t))
    BY DEF BoardFields, Keeps
  <2> HIDE DEF s
  <2> QED
    BY <2>1, <2>2, MigrateOps DEF Keeps, Kb!ChoicesAreKept
<1>2. CASE Kb!StartKeyboardIdle
  BY <1>2 DEF Kb!StartKeyboardIdle, BoardFields, Kb!ChoicesAreKept
<1>3. CASE Kb!LocaledProxyReady
  <2> DEFINE s == [st EXCEPT !.phase = "running", !.by = "daemon"]
  <2>1. PICK localed \in LocaledAnswers \cup {Kb!NoLocaled}, written \in BOOLEAN :
          st' = Kb!MaybeCreateInitialSettings(s, localed, written)
    BY <1>3 DEF Kb!LocaledProxyReady
  <2>2. DOMAIN s = BoardFields /\ (\A t : Keeps(s, t) => Keeps(st, t))
    BY DEF BoardFields, Keeps
  <2> HIDE DEF s
  <2> QED
    BY <2>1, <2>2, CreateOps DEF Keeps, Kb!ChoicesAreKept
<1>4. CASE Kb!Logout
  BY <1>4 DEF Kb!Logout, BoardFields, Kb!ChoicesAreKept
<1>5. CASE Kb!UserSets
  <2> DEFINE set == [st EXCEPT !.by = "user", !.calls = @ + 1]
  <2>1. DOMAIN set = BoardFields /\ set.by = "user"
    BY DEF BoardFields
  <2>2. \/ \E sources : st' = [set EXCEPT !.sources = sources]
        \/ \E options : st' = [set EXCEPT !.options = options, !.options_set = TRUE]
        \/ st' = [set EXCEPT !.options = <<>>, !.options_set = FALSE]
        \/ st' = [set EXCEPT !.im_module = "xim"]
        \/ st' = [set EXCEPT !.delay = 2]
    BY <1>5 DEF Kb!UserSets
  <2> HIDE DEF set
  <2>3. DOMAIN st' = BoardFields /\ st'.by = "user"
    BY <2>1, <2>2 DEF BoardFields
  <2> QED
    BY <2>3 DEF Kb!ChoicesAreKept
<1> QED
  BY <1>1, <1>2, <1>3, <1>4, <1>5 DEF Kb!KbNext

\* The input sources, options and input method module a user has chosen are kept
\* (gsd-keyboard-manager.c: maybe_convert_old_settings, maybe_create_initial_settings,
\* migrate_keyboard_settings), however often sessions begin and end.
THEOREM ChoicesCorrect == SessionSpec => ChoicesAreKept
<1> DEFINE Inv == daemon = "keyboard" => DOMAIN st = BoardFields
<1>1. SessionInit => Inv
  BY DEF SessionInit, Kb!KbInit, BoardFields
<1>2. Inv /\ [SessionNext]_vars => Inv' /\ [daemon = "keyboard" => Kb!ChoicesAreKept]_vars
  <2> SUFFICES ASSUME Inv, SessionNext, daemon = "keyboard"
               PROVE  DOMAIN st' = BoardFields /\ Kb!ChoicesAreKept
    BY DEF SessionNext, Of, vars
  <2>1. Kb!KbNext
    BY DEF SessionNext, Of
  <2> QED
    BY <2>1, KbStep
<1> QED
  BY <1>1, <1>2, PTL DEF SessionSpec, ChoicesAreKept
-------------------------------------------------------------------------------
(***************************************************************************)
(* gsd-xsettings: what is written to the property of the window carries       *)
(* serials that tell what changed, and fonts are followed.  The serials of    *)
(* what is written are all below that of the next write, so that what is set   *)
(* from then on is later.                                                   *)
(***************************************************************************)

XsFields ==
  {"may", "gsettings", "mutter", "shell", "settings", "serial", "overrides", "published",
   "notify_idle_id", "enable_animations", "dir", "dir_modules", "cond_settings", "modules",
   "dir_event", "mtime", "dir_mtime", "fc", "changes"}
TierFields == {"base", "override", "serial"}

\* Serials of what is set are no later than the next write, those of what is written
\* earlier than it; a value that is not the one that is written is of a later serial.
Serials(s) ==
  /\ DOMAIN s = XsFields /\ s.serial \in Nat
  /\ DOMAIN s.settings = Xs!XNames
  /\ \A n \in Xs!XNames :
       /\ DOMAIN s.settings[n] = TierFields
       /\ s.settings[n].serial \in Nat /\ s.settings[n].serial <= s.serial
       /\ \/ s.published[n].value = Xs!Unset
          \/ /\ s.published[n].serial \in Nat /\ s.published[n].serial < s.serial
             /\ \/ Xs!SettingGet(s.settings[n]) = s.published[n].value
                \/ s.settings[n].serial > s.published[n].serial

\* Settings are set from s to t, and nothing is written, nor is it about the fonts.
OnlySets(s, t) ==
  /\ Serials(t) /\ t.published = s.published /\ t.fc = s.fc /\ t.may = s.may

\* What is under way about the fonts.
FontStates ==
  [state : {"idle", "pending", "running", "restart"},
   thread : {"none", "started", "updated", "unnecessary", "failed"},
   stale : BOOLEAN, event : BOOLEAN, notify : BOOLEAN, untold : BOOLEAN,
   monitors : BOOLEAN, missed : BOOLEAN]

\* The thread is there while its update runs; fonts that are loaded and not told
\* of are those of a thread that is done or of the update after it.
FontsInv(fc, may) ==
  /\ fc \in FontStates
  /\ fc.thread = "none" <=> fc.state \in {"idle", "pending"}
  /\ fc.untold => fc.thread = "updated" \/ fc.notify
  /\ fc.notify => fc.state # "idle"
  /\ fc.stale /\ ~fc.missed /\ "failures" \notin may =>
       fc.event \/ fc.state \in {"pending", "restart"} \/ fc.thread = "started"

XsInv(s) == Serials(s) /\ FontsInv(s.fc, s.may)

-------------------------------------------------------------------------------
\* A setting is left alone, or has another serial exactly when it has another value.
TierKept(s, n, tier) ==
  /\ DOMAIN tier = TierFields
  /\ tier.serial = IF Xs!SettingGet(tier) = Xs!SettingGet(s.settings[n])
                   THEN s.settings[n].serial ELSE s.serial

LEMMA TiersKeepSerials ==
  ASSUME NEW s, Serials(s), NEW t, DOMAIN t = XsFields, t.serial = s.serial,
         t.published = s.published, DOMAIN t.settings = Xs!XNames,
         \A n \in Xs!XNames : TierKept(s, n, t.settings[n])
  PROVE  Serials(t)
<1> SUFFICES ASSUME NEW n \in Xs!XNames
             PROVE  /\ DOMAIN t.settings[n] = TierFields
                    /\ t.settings[n].serial \in Nat /\ t.settings[n].serial <= t.serial
                    /\ \/ t.published[n].value = Xs!Unset
                       \/ /\ t.published[n].serial \in Nat /\ t.published[n].serial < t.serial
                          /\ \/ Xs!SettingGet(t.settings[n]) = t.published[n].value
                             \/ t.settings[n].serial > t.published[n].serial
  BY DEF Serials
<1> DEFINE new == t.settings[n]
           old == s.settings[n]
<1>1. TierKept(s, n, new)
  OBVIOUS
<1>2. /\ s.serial \in Nat /\ old.serial \in Nat /\ old.serial <= s.serial
      /\ \/ s.published[n].value = Xs!Unset
         \/ /\ s.published[n].serial \in Nat /\ s.published[n].serial < s.serial
            /\ \/ Xs!SettingGet(old) = s.published[n].value
               \/ old.serial > s.published[n].serial
  BY DEF Serials
<1> HIDE DEF new, old
<1>3. CASE Xs!SettingGet(new) = Xs!SettingGet(old)
  BY <1>1, <1>2, <1>3 DEF TierKept, new, old
<1>4. CASE Xs!SettingGet(new) # Xs!SettingGet(old)
  BY <1>1, <1>2, <1>4 DEF TierKept, new, old
<1> QED
  BY <1>3, <1>4

\* xsettings_setting_set
LEMMA SetTierOps ==
  ASSUME NEW s, Serials(s), NEW n \in Xs!XNames, NEW set, DOMAIN set = TierFields,
         set.serial = s.settings[n].serial
  PROVE  LET t == Xs!SetTier(s, n, set)
         IN /\ DOMAIN t = XsFields /\ t.serial = s.serial /\ t.published = s.published
            /\ t.fc = s.fc /\ t.may = s.may /\ DOMAIN t.settings = Xs!XNames
            /\ TierKept(s, n, t.settings[n])
            /\ \A m \in Xs!XNames \ {n} : t.settings[m] = s.settings[m]
<1> DEFINE tier == [set EXCEPT !.serial = IF Xs!SettingGet(set) = Xs!SettingGet(s.settings[n])
                                          THEN @ ELSE s.serial]
           t == Xs!SetTier(s, n, set)
<1>1. t = [s EXCEPT !.settings[n] = tier]
  BY DEF Xs!SetTier
<1>2. DOMAIN tier = TierFields /\ tier.base = set.base /\ tier.override = set.override
  BY DEF TierFields
<1>3. Xs!SettingGet(tier) = Xs!SettingGet(set)
  <2> HIDE DEF tier
  <2> QED
    BY <1>2 DEF Xs!SettingGet
<1>4. tier.serial = IF Xs!SettingGet(set) = Xs!SettingGet(s.settings[n])
                    THEN s.settings[n].serial ELSE s.serial
  BY DEF TierFields
<1> HIDE DEF tier, t
<1>5. TierKept(s, n, tier)
  BY <1>2, <1>3, <1>4 DEF TierKept
<1>6. /\ DOMAIN t = XsFields /\ t.serial = s.serial /\ t.published = s.published
      /\ t.fc = s.fc /\ t.may = s.may /\ DOMAIN t.settings = Xs!XNames
      /\ t.settings[n] = tier
      /\ \A m \in Xs!XNames \ {n} : t.settings[m] = s.settings[m]
  BY <1>1 DEF Serials, XsFields
<1> QED
  BY <1>5, <1>6 DEF t

\* xsettings_manager_set_setting
LEMMA SetSettingOps ==
  ASSUME NEW s, Serials(s), NEW n \in Xs!XNames, NEW value
  PROVE  OnlySets(s, Xs!SetSetting(s, n, value))
<1> DEFINE set == [s.settings[n] EXCEPT !.base = value]
           t == Xs!SetTier(s, n, set)
<1>1. DOMAIN set = TierFields /\ set.serial = s.settings[n].serial
  BY DEF Serials, TierFields
<1>2. Xs!SetSetting(s, n, value) = t
  BY DEF Xs!SetSetting
<1> HIDE DEF set
<1>3. /\ DOMAIN t = XsFields /\ t.serial = s.serial /\ t.published = s.published
      /\ t.fc = s.fc /\ t.may = s.may /\ DOMAIN t.settings = Xs!XNames
      /\ TierKept(s, n, t.settings[n])
      /\ \A m \in Xs!XNames \ {n} : t.settings[m] = s.settings[m]
  BY <1>1, SetTierOps
<1> HIDE DEF t
<1>4. \A m \in Xs!XNames : TierKept(s, m, t.settings[m])
  BY <1>3 DEF TierKept, Serials
<1>5. Serials(t)
  BY <1>3, <1>4, TiersKeepSerials
<1> QED
  BY <1>2, <1>3, <1>5 DEF OnlySets

\* xsettings_manager_set_overrides
LEMMA SetOverridesOps ==
  ASSUME NEW s, Serials(s), NEW new
  PROVE  OnlySets(s, Xs!SetOverrides(s, new))
<1> DEFINE old == s.overrides
           Over(n) == CASE n \in DOMAIN new /\ new[n] # "wrong type" -> <<new[n]>>
                        [] n \in DOMAIN new /\ new[n] = "wrong type" -> s.settings[n].override
                        [] n \notin DOMAIN new /\ n \in DOMAIN old   -> Xs!Unset
                        [] OTHER                                     -> s.settings[n].override
           Set(n) == [s.settings[n] EXCEPT !.override = Over(n)]
           settings == [n \in Xs!XNames |-> Xs!SetTier(s, n, Set(n)).settings[n]]
           t == Xs!SetOverrides(s, new)
<1>1. t = [s EXCEPT !.overrides = new, !.settings = settings]
  BY DEF Xs!SetOverrides
<1> HIDE DEF Over, t
<1>2. \A n \in Xs!XNames : TierKept(s, n, settings[n])
  <2> SUFFICES ASSUME NEW n \in Xs!XNames PROVE TierKept(s, n, settings[n])
    OBVIOUS
  <2>1. DOMAIN Set(n) = TierFields /\ Set(n).serial = s.settings[n].serial
    BY DEF Serials, TierFields
  <2>2. settings[n] = Xs!SetTier(s, n, Set(n)).settings[n]
    OBVIOUS
  <2> HIDE DEF Set, settings
  <2> QED
    BY <2>1, <2>2, SetTierOps
<1>3. DOMAIN settings = Xs!XNames
  OBVIOUS
<1> HIDE DEF settings
<1>4. /\ DOMAIN t = XsFields /\ t.serial = s.serial /\ t.published = s.published
      /\ t.fc = s.fc /\ t.may = s.may /\ t.settings = settings
  BY <1>1 DEF Serials, XsFields
<1>5. Serials(t)
  BY <1>2, <1>3, <1>4, TiersKeepSerials
<1> QED
  BY <1>4, <1>5 DEF OnlySets, t

\* What sets no setting.
LEMMA OtherFieldsOps ==
  ASSUME NEW s, Serials(s), NEW t, DOMAIN t = XsFields, t.serial = s.serial,
         t.published = s.published, t.settings = s.settings
  PROVE  Serials(t)
BY DEF Serials

LEMMA SetsTransitive ==
  ASSUME NEW s, NEW u, NEW t, OnlySets(s, u), OnlySets(u, t)
  PROVE  OnlySets(s, t)
BY DEF OnlySets

LEMMA QueueNotifyOps ==
  ASSUME NEW s, Serials(s)
  PROVE  OnlySets(s, Xs!QueueNotify(s))
<1> DEFINE t == Xs!QueueNotify(s)
<1>1. /\ DOMAIN t = XsFields /\ t.serial = s.serial /\ t.published = s.published
      /\ t.settings = s.settings /\ t.fc = s.fc /\ t.may = s.may
  BY DEF Xs!QueueNotify, Serials, XsFields
<1> HIDE DEF t
<1> QED
  BY <1>1, OtherFieldsOps DEF OnlySets, t

LEMMA TranslateOps ==
  ASSUME NEW s, Serials(s)
  PROVE  OnlySets(s, Xs!Translate(s))
<1> DEFINE theme == IF s.gsettings.high_contrast THEN "HighContrast" ELSE s.gsettings.theme
           u == Xs!SetSetting(s, "Net/ThemeName", <<theme>>)
           t == Xs!SetSetting(u, "Gtk/FontName", <<s.gsettings.font>>)
<1>1. OnlySets(s, u)
  BY SetSettingOps DEF Xs!XNames
<1>2. Xs!Translate(s) = t
  BY DEF Xs!Translate
<1> HIDE DEF u
<1>3. OnlySets(u, t)
  BY <1>1, SetSettingOps DEF Xs!XNames, OnlySets
<1> QED
  BY <1>1, <1>2, <1>3, SetsTransitive

LEMMA UpdateXftOps ==
  ASSUME NEW s, Serials(s)
  PROVE  OnlySets(s, Xs!UpdateXftSettings(s))
<1> DEFINE dpi == s.gsettings.text * (IF s.mutter = 0 THEN 1 ELSE s.mutter)
<1>1. Xs!UpdateXftSettings(s) = Xs!SetSetting(s, "Xft/DPI", <<dpi>>)
  BY DEF Xs!UpdateXftSettings
<1> QED
  BY <1>1, SetSettingOps DEF Xs!XNames

LEMMA UpdateGtkImModuleOps ==
  ASSUME NEW s, Serials(s)
  PROVE  OnlySets(s, Xs!UpdateGtkImModule(s))
<1> DEFINE module == IF s.gsettings.im_module = "" THEN "ibus" ELSE s.gsettings.im_module
<1>1. Xs!UpdateGtkImModule(s) = Xs!SetSetting(s, "Gtk/IMModule", <<module>>)
  BY DEF Xs!UpdateGtkImModule
<1> QED
  BY <1>1, SetSettingOps DEF Xs!XNames

LEMMA AnimationsOps ==
  ASSUME NEW s, Serials(s)
  PROVE  OnlySets(s, Xs!AnimationsEnabledChanged(s))
<1> DEFINE enabled == s.shell = "animated"
           u == [s EXCEPT !.enable_animations = enabled]
           v == Xs!SetSetting(u, "Gtk/EnableAnimations", <<enabled>>)
<1>1. \/ Xs!AnimationsEnabledChanged(s) = s
      \/ Xs!AnimationsEnabledChanged(s) = Xs!QueueNotify(v)
  BY DEF Xs!AnimationsEnabledChanged
<1>2. /\ DOMAIN u = XsFields /\ u.serial = s.serial /\ u.published = s.published
      /\ u.settings = s.settings /\ u.fc = s.fc /\ u.may = s.may
  BY DEF Serials, XsFields
<1> HIDE DEF u
<1>3. OnlySets(s, u)
  BY <1>2, OtherFieldsOps DEF OnlySets
<1>4. OnlySets(u, v)
  BY <1>3, SetSettingOps DEF Xs!XNames, OnlySets
<1> HIDE DEF v
<1>5. OnlySets(v, Xs!QueueNotify(v))
  BY <1>4, QueueNotifyOps DEF OnlySets
<1>6. OnlySets(s, Xs!QueueNotify(v))
  BY <1>3, <1>4, <1>5, SetsTransitive
<1> QED
  BY <1>1, <1>6 DEF OnlySets

LEMMA GtkModulesCallbackOps ==
  ASSUME NEW s, Serials(s)
  PROVE  OnlySets(s, Xs!GtkModulesCallback(s))
<1> DEFINE u == Xs!SetSetting(s, "Gtk/Modules", <<s.modules>>)
<1>1. Xs!GtkModulesCallback(s) = Xs!QueueNotify(u)
  BY DEF Xs!GtkModulesCallback
<1>2. OnlySets(s, u)
  BY SetSettingOps DEF Xs!XNames
<1> HIDE DEF u
<1>3. OnlySets(u, Xs!QueueNotify(u))
  BY <1>2, QueueNotifyOps DEF OnlySets
<1> QED
  BY <1>1, <1>2, <1>3, SetsTransitive

LEMMA UpdateGtkModulesOps ==
  ASSUME NEW s, Serials(s)
  PROVE  OnlySets(s, Xs!UpdateGtkModules(s))
<1> DEFINE u == [s EXCEPT !.modules = Xs!WantedModules(s, s.dir_modules)]
<1>1. \/ Xs!UpdateGtkModules(s) = s
      \/ Xs!UpdateGtkModules(s) = Xs!GtkModulesCallback(u)
  BY DEF Xs!UpdateGtkModules
<1>2. /\ DOMAIN u = XsFields /\ u.serial = s.serial /\ u.published = s.published
      /\ u.settings = s.settings /\ u.fc = s.fc /\ u.may = s.may
  BY DEF Serials, XsFields
<1> HIDE DEF u
<1>3. OnlySets(s, u)
  BY <1>2, OtherFieldsOps DEF OnlySets
<1>4. OnlySets(u, Xs!GtkModulesCallback(u))
  BY <1>3, GtkModulesCallbackOps DEF OnlySets
<1> QED
  BY <1>1, <1>3, <1>4, SetsTransitive DEF OnlySets

LEMMA ModulesFromDirOps ==
  ASSUME NEW s, Serials(s)
  PROVE  OnlySets(s, Xs!GetGtkModulesFromDir(s))
<1> DEFINE u == Xs!GetGtkModulesFromDir(s)
<1>1. /\ DOMAIN u = XsFields /\ u.serial = s.serial /\ u.published = s.published
      /\ u.settings = s.settings /\ u.fc = s.fc /\ u.may = s.may
  BY DEF Serials, XsFields, Xs!GetGtkModulesFromDir
<1> HIDE DEF u
<1> QED
  BY <1>1, OtherFieldsOps DEF OnlySets, u

\* gsd_xsettings_manager_startup
LEMMA XsStartupOps ==
  ASSUME NEW s, Serials(s)
  PROVE  OnlySets(s, Xs!XsStartup(s))
<1> DEFINE input   == Xs!UpdateGtkImModule(s)
           entries == Xs!Translate(input)
           read    == Xs!GetGtkModulesFromDir(entries)
           gtk     == Xs!UpdateGtkModules(read)
           modules == Xs!GtkModulesCallback(gtk)
           xft     == Xs!UpdateXftSettings(modules)
           t       == Xs!QueueNotify(xft)
<1>1. Xs!XsStartup(s) = t
  BY DEF Xs!XsStartup
<1>2. OnlySets(s, input)
  BY UpdateGtkImModuleOps
<1> HIDE DEF input
<1>3. OnlySets(input, entries)
  BY <1>2, TranslateOps DEF OnlySets
<1> HIDE DEF entries
<1>4. OnlySets(entries, read)
  BY <1>3, ModulesFromDirOps DEF OnlySets
<1> HIDE DEF read
<1>5. OnlySets(read, gtk)
  BY <1>4, UpdateGtkModulesOps DEF OnlySets
<1> HIDE DEF gtk
<1>6. OnlySets(gtk, modules)
  BY <1>5, GtkModulesCallbackOps DEF OnlySets
<1> HIDE DEF modules
<1>7. OnlySets(modules, xft)
  BY <1>6, UpdateXftOps DEF OnlySets
<1> HIDE DEF xft
<1>8. OnlySets(xft, t)
  BY <1>7, QueueNotifyOps DEF OnlySets
<1> QED
  BY <1>1, <1>2, <1>3, <1>4, <1>5, <1>6, <1>7, <1>8 DEF OnlySets

LEMMA XsInitInv == ASSUME Xs!XsInit PROVE XsInv(st)
<1>1. PICK may \in XsWorlds, shell \in {"gone", "still", "animated"}, mutter \in {0, 1},
           dir \in SUBSET GtkModules :
        st = Xs!XsStartup(
          [may |-> may,
           gsettings |-> [theme |-> "Adwaita", font |-> "Cantarell", high_contrast |-> FALSE, text |-> 1,
                          im_module |-> "", enabled |-> Xs!NoModules, disabled |-> Xs!NoModules,
                          wanted |-> Xs!NoModules],
           mutter |-> mutter, shell |-> shell,
           settings |-> [n \in Xs!XNames |-> Xs!Nothing], serial |-> 0, overrides |-> <<>>,
           published |-> [n \in Xs!XNames |-> [value |-> Xs!Unset, serial |-> 0]],
           notify_idle_id |-> FALSE, enable_animations |-> FALSE,
           dir |-> dir, dir_modules |-> Xs!NoModules, cond_settings |-> Xs!NoModules,
           modules |-> Xs!NoModules, dir_event |-> FALSE, mtime |-> 1, dir_mtime |-> 0,
           fc |-> [state |-> "idle", thread |-> "none", stale |-> FALSE, event |-> FALSE,
                   notify |-> FALSE, untold |-> FALSE, monitors |-> FALSE, missed |-> FALSE],
           changes |-> 0])
  BY DEF Xs!XsInit
<1> DEFINE gsettings == [theme |-> "Adwaita", font |-> "Cantarell", high_contrast |-> FALSE,
                         text |-> 1, im_module |-> "", enabled |-> Xs!NoModules,
                         disabled |-> Xs!NoModules, wanted |-> Xs!NoModules]
           settings  == [n \in Xs!XNames |-> Xs!Nothing]
           published == [n \in Xs!XNames |-> [value |-> Xs!Unset, serial |-> 0]]
           fc == [state |-> "idle", thread |-> "none", stale |-> FALSE, event |-> FALSE,
                  notify |-> FALSE, untold |-> FALSE, monitors |-> FALSE, missed |-> FALSE]
           s  == [may |-> may, gsettings |-> gsettings, mutter |-> mutter, shell |-> shell,
                  settings |-> settings, serial |-> 0, overrides |-> <<>>, published |-> published,
                  notify_idle_id |-> FALSE, enable_animations |-> FALSE, dir |-> dir,
                  dir_modules |-> Xs!NoModules, cond_settings |-> Xs!NoModules,
                  modules |-> Xs!NoModules, dir_event |-> FALSE, mtime |-> 1, dir_mtime |-> 0,
                  fc |-> fc, changes |-> 0]
<1>2. st = Xs!XsStartup(s)
  BY <1>1
<1>3. FontsInv(fc, may)
  BY DEF FontsInv, FontStates
<1>4. /\ DOMAIN settings = Xs!XNames
      /\ \A n \in Xs!XNames :
           /\ DOMAIN settings[n] = TierFields /\ settings[n].serial = 0
           /\ published[n].value = Xs!Unset
  BY DEF TierFields, Xs!Nothing
<1> HIDE DEF fc, settings, published, gsettings
<1>5. /\ DOMAIN s = XsFields /\ s.serial = 0 /\ s.settings = settings /\ s.published = published
      /\ s.fc = fc /\ s.may = may
  BY DEF XsFields
<1> HIDE DEF s
<1>6. Serials(s)
  BY <1>4, <1>5 DEF Serials
<1>7. OnlySets(s, st)
  BY <1>2, <1>6, XsStartupOps
<1> QED
  BY <1>3, <1>5, <1>7 DEF XsInv, OnlySets

-------------------------------------------------------------------------------
\* A step that sets settings, or none, keeps the invariant and writes nothing.
LEMMA SetsKeepInv ==
  ASSUME XsInv(st), OnlySets(st, st')
  PROVE  XsInv(st') /\ Xs!SerialsTellChanges
BY DEF XsInv, OnlySets, Xs!SerialsTellChanges

\* xsettings_manager_notify
LEMMA NotifyIdleStep ==
  ASSUME XsInv(st), Xs!NotifyIdle
  PROVE  XsInv(st') /\ Xs!SerialsTellChanges
<1> DEFINE published == [n \in Xs!XNames |-> [value |-> Xs!SettingGet(st.settings[n]),
                                              serial |-> st.settings[n].serial]]
<1>1. st' = [st EXCEPT !.published = published, !.serial = @ + 1, !.notify_idle_id = FALSE]
  BY DEF Xs!NotifyIdle, Xs!ManagerNotify
<1>2. \A n \in Xs!XNames : /\ published[n].value = Xs!SettingGet(st.settings[n])
                           /\ published[n].serial = st.settings[n].serial
  OBVIOUS
<1> HIDE DEF published
<1>3. /\ DOMAIN st' = XsFields /\ st'.serial = st.serial + 1 /\ st'.published = published
      /\ st'.settings = st.settings /\ st'.fc = st.fc /\ st'.may = st.may
  BY <1>1 DEF XsInv, Serials, XsFields
<1>4. Serials(st')
  BY <1>2, <1>3 DEF XsInv, Serials
<1>5. Xs!SerialsTellChanges
  BY <1>2, <1>3 DEF XsInv, Serials, Xs!SerialsTellChanges
<1> QED
  BY <1>3, <1>4, <1>5 DEF XsInv

\* A step of the world that is about neither settings nor fonts.
LEMMA ChangedOps ==
  ASSUME NEW s, Serials(s), NEW t, DOMAIN t = XsFields, t.serial = s.serial,
         t.published = s.published, t.settings = s.settings, t.fc = s.fc, t.may = s.may
  PROVE  OnlySets(s, Xs!Changed(t)) /\ Serials(Xs!Changed(t))
<1> DEFINE u == Xs!Changed(t)
<1>1. /\ DOMAIN u = XsFields /\ u.serial = s.serial /\ u.published = s.published
      /\ u.settings = s.settings /\ u.fc = s.fc /\ u.may = s.may
  BY DEF Xs!Changed, XsFields
<1> HIDE DEF u
<1> QED
  BY <1>1, OtherFieldsOps DEF OnlySets, u

LEMMA SettingsStep ==
  ASSUME XsInv(st), \/ Xs!XsettingsCallback \/ Xs!ImModuleSet \/ Xs!OverrideCallback
                    \/ Xs!UiScalingFactorChanged \/ Xs!ShellChanged
  PROVE  OnlySets(st, st')
<1> USE DEF XsInv
<1>1. CASE Xs!XsettingsCallback
  <2>1. PICK s : /\ s = [st EXCEPT !.gsettings = s.gsettings]
                 /\ \/ st' = Xs!QueueNotify(Xs!Translate(Xs!Changed(s)))
                    \/ st' = Xs!QueueNotify(Xs!UpdateXftSettings(Xs!Changed(s)))
    <3>1. PICK theme \in Xs!Themes, font \in Xs!Fonts, text \in Xs!Scales :
            \/ st' = Xs!QueueNotify(Xs!Translate(Xs!Changed([st EXCEPT !.gsettings.theme = theme])))
            \/ st' = Xs!QueueNotify(Xs!Translate(Xs!Changed([st EXCEPT !.gsettings.font = font])))
            \/ st' = Xs!QueueNotify(Xs!Translate(Xs!Changed([st EXCEPT !.gsettings.high_contrast = ~@])))
            \/ st' = Xs!QueueNotify(Xs!UpdateXftSettings(Xs!Changed([st EXCEPT !.gsettings.text = text])))
      BY <1>1 DEF Xs!XsettingsCallback, Xs!Themes, Xs!Fonts, Xs!Scales
    <3>2. /\ DOMAIN st = XsFields
          /\ \A value : [st EXCEPT !.gsettings = value].gsettings = value
      BY DEF Serials, XsFields
    <3>3. CASE st' = Xs!QueueNotify(Xs!Translate(Xs!Changed([st EXCEPT !.gsettings.theme = theme])))
      <4> WITNESS [st EXCEPT !.gsettings.theme = theme]
      <4> QED BY <3>2, <3>3
    <3>4. CASE st' = Xs!QueueNotify(Xs!Translate(Xs!Changed([st EXCEPT !.gsettings.font = font])))
      <4> WITNESS [st EXCEPT !.gsettings.font = font]
      <4> QED BY <3>2, <3>4
    <3>5. CASE st' = Xs!QueueNotify(Xs!Translate(Xs!Changed([st EXCEPT !.gsettings.high_contrast = ~@])))
      <4> WITNESS [st EXCEPT !.gsettings.high_contrast = ~@]
      <4> QED BY <3>2, <3>5
    <3>6. CASE st' = Xs!QueueNotify(Xs!UpdateXftSettings(Xs!Changed([st EXCEPT !.gsettings.text = text])))
      <4> WITNESS [st EXCEPT !.gsettings.text = text]
      <4> QED BY <3>2, <3>6
    <3> QED
      BY <3>1, <3>3, <3>4, <3>5, <3>6
  <2> DEFINE u == Xs!Changed(s)
  <2>2. OnlySets(st, u)
    <3>1. /\ DOMAIN s = XsFields /\ s.serial = st.serial /\ s.published = st.published
          /\ s.settings = st.settings /\ s.fc = st.fc /\ s.may = st.may
      BY <2>1 DEF Serials, XsFields
    <3> QED
      BY <3>1, ChangedOps
  <2>3. st' = Xs!QueueNotify(Xs!Translate(u)) \/ st' = Xs!QueueNotify(Xs!UpdateXftSettings(u))
    BY <2>1
  <2> HIDE DEF u
  <2>4. OnlySets(u, Xs!Translate(u)) /\ OnlySets(u, Xs!UpdateXftSettings(u))
    BY <2>2, TranslateOps, UpdateXftOps DEF OnlySets
  <2>5. /\ OnlySets(Xs!Translate(u), Xs!QueueNotify(Xs!Translate(u)))
        /\ OnlySets(Xs!UpdateXftSettings(u), Xs!QueueNotify(Xs!UpdateXftSettings(u)))
    BY <2>4, QueueNotifyOps DEF OnlySets
  <2> QED
    BY <2>2, <2>3, <2>4, <2>5, SetsTransitive
<1>2. CASE Xs!ImModuleSet
  <2>1. PICK module \in {"", "xim"} :
          st' = Xs!UpdateGtkImModule(Xs!Changed([st EXCEPT !.gsettings.im_module = module]))
    BY <1>2 DEF Xs!ImModuleSet
  <2> DEFINE s == [st EXCEPT !.gsettings.im_module = module]
             u == Xs!Changed(s)
  <2>2. /\ DOMAIN s = XsFields /\ s.serial = st.serial /\ s.published = st.published
        /\ s.settings = st.settings /\ s.fc = st.fc /\ s.may = st.may
    BY DEF Serials, XsFields
  <2> HIDE DEF s
  <2>3. OnlySets(st, u)
    BY <2>2, ChangedOps
  <2> HIDE DEF u
  <2>4. OnlySets(u, Xs!UpdateGtkImModule(u))
    BY <2>3, UpdateGtkImModuleOps DEF OnlySets
  <2> QED
    BY <2>1, <2>3, <2>4, SetsTransitive DEF u, s
<1>3. CASE Xs!OverrideCallback
  <2> DEFINE u == Xs!Changed(st)
  <2>1. PICK new : st' = Xs!QueueNotify(Xs!SetOverrides(u, new))
    BY <1>3 DEF Xs!OverrideCallback
  <2>2. OnlySets(st, u)
    <3>1. DOMAIN st = XsFields
      BY DEF Serials
    <3> QED
      BY <3>1, ChangedOps
  <2> HIDE DEF u
  <2> DEFINE v == Xs!SetOverrides(u, new)
  <2>3. OnlySets(u, v)
    BY <2>2, SetOverridesOps DEF OnlySets
  <2>4. st' = Xs!QueueNotify(v)
    BY <2>1
  <2> HIDE DEF v
  <2>5. OnlySets(v, Xs!QueueNotify(v))
    BY <2>3, QueueNotifyOps DEF OnlySets
  <2> QED
    BY <2>2, <2>3, <2>4, <2>5, SetsTransitive
<1>4. CASE Xs!UiScalingFactorChanged
  <2>1. PICK scale :
          LET u == Xs!Changed([st EXCEPT !.mutter = scale])
          IN st' = Xs!QueueNotify(Xs!UpdateXftSettings(u)) \/ st' = u
    BY <1>4 DEF Xs!UiScalingFactorChanged
  <2> DEFINE s == [st EXCEPT !.mutter = scale]
             u == Xs!Changed(s)
             v == Xs!UpdateXftSettings(u)
  <2>2. /\ DOMAIN s = XsFields /\ s.serial = st.serial /\ s.published = st.published
        /\ s.settings = st.settings /\ s.fc = st.fc /\ s.may = st.may
    BY DEF Serials, XsFields
  <2>3. st' = Xs!QueueNotify(v) \/ st' = u
    BY <2>1
  <2> HIDE DEF s
  <2>4. OnlySets(st, u)
    BY <2>2, ChangedOps
  <2> HIDE DEF u
  <2>5. OnlySets(u, v)
    BY <2>4, UpdateXftOps DEF OnlySets
  <2> HIDE DEF v
  <2>6. OnlySets(v, Xs!QueueNotify(v))
    BY <2>5, QueueNotifyOps DEF OnlySets
  <2> QED
    BY <2>3, <2>4, <2>5, <2>6, SetsTransitive
<1>5. CASE Xs!ShellChanged
  <2>1. PICK shell : st' = Xs!AnimationsEnabledChanged(Xs!Changed([st EXCEPT !.shell = shell]))
    BY <1>5 DEF Xs!ShellChanged
  <2> DEFINE s == [st EXCEPT !.shell = shell]
             u == Xs!Changed(s)
  <2>2. /\ DOMAIN s = XsFields /\ s.serial = st.serial /\ s.published = st.published
        /\ s.settings = st.settings /\ s.fc = st.fc /\ s.may = st.may
    BY DEF Serials, XsFields
  <2>3. st' = Xs!AnimationsEnabledChanged(u)
    BY <2>1
  <2> HIDE DEF s
  <2>4. OnlySets(st, u)
    BY <2>2, ChangedOps
  <2> HIDE DEF u
  <2>5. OnlySets(u, Xs!AnimationsEnabledChanged(u))
    BY <2>4, AnimationsOps DEF OnlySets
  <2> QED
    BY <2>3, <2>4, <2>5, SetsTransitive
<1> QED
  BY <1>1, <1>2, <1>3, <1>4, <1>5

LEMMA ModulesStep ==
  ASSUME XsInv(st), \/ Xs!ModulesListed \/ Xs!CondSettingChanged \/ Xs!ModuleInstalled
                    \/ Xs!GtkModulesDirChanged
  PROVE  OnlySets(st, st')
<1> USE DEF XsInv
<1>0. DOMAIN st = XsFields
  BY DEF Serials
<1>1. CASE Xs!ModulesListed
  <2>1. PICK m \in GtkModules :
          \/ st' = Xs!Changed([st EXCEPT !.gsettings.enabled = @ \cup {m}])
          \/ st' = Xs!Changed([st EXCEPT !.gsettings.disabled = @ \cup {m}])
    BY <1>1 DEF Xs!ModulesListed
  <2> DEFINE e == [st EXCEPT !.gsettings.enabled = @ \cup {m}]
             d == [st EXCEPT !.gsettings.disabled = @ \cup {m}]
  <2>2. /\ DOMAIN e = XsFields /\ e.serial = st.serial /\ e.published = st.published
        /\ e.settings = st.settings /\ e.fc = st.fc /\ e.may = st.may
    BY <1>0 DEF XsFields
  <2>3. /\ DOMAIN d = XsFields /\ d.serial = st.serial /\ d.published = st.published
        /\ d.settings = st.settings /\ d.fc = st.fc /\ d.may = st.may
    BY <1>0 DEF XsFields
  <2>4. st' = Xs!Changed(e) \/ st' = Xs!Changed(d)
    BY <2>1
  <2> HIDE DEF e, d
  <2> QED
    BY <2>2, <2>3, <2>4, ChangedOps
<1>2. CASE Xs!CondSettingChanged
  <2>1. PICK m \in CondModules :
          LET set == Xs!Changed([st EXCEPT !.gsettings.wanted =
                                   IF m \in @ THEN @ \ {m} ELSE @ \cup {m}])
              on  == m \in set.gsettings.wanted
          IN st' = IF m \notin set.cond_settings THEN set
                   ELSE Xs!UpdateGtkModules(
                          [set EXCEPT !.dir_modules = IF on THEN @ \cup {m} ELSE @ \ {m}])
    BY <1>2 DEF Xs!CondSettingChanged
  <2> DEFINE s == [st EXCEPT !.gsettings.wanted = IF m \in @ THEN @ \ {m} ELSE @ \cup {m}]
             u == Xs!Changed(s)
             on == m \in u.gsettings.wanted
             v == [u EXCEPT !.dir_modules = IF on THEN @ \cup {m} ELSE @ \ {m}]
  <2>2. /\ DOMAIN s = XsFields /\ s.serial = st.serial /\ s.published = st.published
        /\ s.settings = st.settings /\ s.fc = st.fc /\ s.may = st.may
    BY <1>0 DEF XsFields
  <2>3. st' = u \/ st' = Xs!UpdateGtkModules(v)
    BY <2>1
  <2> HIDE DEF s
  <2>4. OnlySets(st, u)
    BY <2>2, ChangedOps
  <2> HIDE DEF u, on
  <2>5. /\ DOMAIN v = XsFields /\ v.serial = u.serial /\ v.published = u.published
        /\ v.settings = u.settings /\ v.fc = u.fc /\ v.may = u.may
    BY <2>4 DEF OnlySets, Serials, XsFields
  <2> HIDE DEF v
  <2>6. OnlySets(u, v)
    BY <2>4, <2>5, OtherFieldsOps DEF OnlySets
  <2>7. OnlySets(v, Xs!UpdateGtkModules(v))
    BY <2>6, UpdateGtkModulesOps DEF OnlySets
  <2> QED
    BY <2>3, <2>4, <2>6, <2>7, SetsTransitive
<1>3. CASE Xs!ModuleInstalled
  <2>1. PICK dir, mtime :
          st' = Xs!Changed([st EXCEPT !.dir = dir, !.mtime = mtime, !.dir_event = TRUE])
    BY <1>3 DEF Xs!ModuleInstalled
  <2> DEFINE s == [st EXCEPT !.dir = dir, !.mtime = mtime, !.dir_event = TRUE]
  <2>2. /\ DOMAIN s = XsFields /\ s.serial = st.serial /\ s.published = st.published
        /\ s.settings = st.settings /\ s.fc = st.fc /\ s.may = st.may
    BY <1>0 DEF XsFields
  <2>3. st' = Xs!Changed(s)
    BY <2>1
  <2> HIDE DEF s
  <2> QED
    BY <2>2, <2>3, ChangedOps
<1>4. CASE Xs!GtkModulesDirChanged
  <2> DEFINE s == [st EXCEPT !.dir_event = FALSE]
             u == Xs!GetGtkModulesFromDir(s)
  <2>1. st' = Xs!UpdateGtkModules(u)
    BY <1>4 DEF Xs!GtkModulesDirChanged
  <2>2. /\ DOMAIN s = XsFields /\ s.serial = st.serial /\ s.published = st.published
        /\ s.settings = st.settings /\ s.fc = st.fc /\ s.may = st.may
    BY <1>0 DEF XsFields
  <2> HIDE DEF s
  <2>3. OnlySets(st, s)
    BY <2>2, OtherFieldsOps DEF OnlySets
  <2>4. OnlySets(s, u)
    BY <2>3, ModulesFromDirOps DEF OnlySets
  <2> HIDE DEF u
  <2>5. OnlySets(u, Xs!UpdateGtkModules(u))
    BY <2>4, UpdateGtkModulesOps DEF OnlySets
  <2> QED
    BY <2>1, <2>3, <2>4, <2>5, SetsTransitive
<1> QED
  BY <1>1, <1>2, <1>3, <1>4

-------------------------------------------------------------------------------
\* fc_monitor writes nothing; only the last of its steps sets a setting.
LEMMA FontsStep ==
  ASSUME XsInv(st),
         \/ Xs!StartFontconfigMonitor \/ Xs!FontsInstalled \/ Xs!StuffChanged
         \/ Xs!StartUpdate \/ Xs!CacheUpdateThread
  PROVE  XsInv(st') /\ Xs!SerialsTellChanges
<1>0. DOMAIN st = XsFields /\ st.fc \in FontStates /\ Serials(st) /\ FontsInv(st.fc, st.may)
  BY DEF XsInv, Serials, FontsInv
<1>1. CASE Xs!FontsInstalled
  <2> DEFINE s == [st EXCEPT !.fc.stale = TRUE, !.fc.event = st.fc.monitors,
                            !.fc.missed = ~st.fc.monitors]
  <2>1. /\ DOMAIN s = XsFields /\ s.serial = st.serial /\ s.published = st.published
        /\ s.settings = st.settings /\ s.may = st.may
        /\ s.fc = [st.fc EXCEPT !.stale = TRUE, !.event = st.fc.monitors,
                                !.missed = ~st.fc.monitors]
    BY <1>0 DEF XsFields
  <2>2. st' = Xs!Changed(s)
    BY <1>1 DEF Xs!FontsInstalled
  <2> HIDE DEF s
  <2>3. /\ DOMAIN st' = XsFields /\ st'.serial = st.serial /\ st'.published = st.published
        /\ st'.settings = st.settings /\ st'.may = st.may /\ st'.fc = s.fc
    BY <2>1, <2>2 DEF Xs!Changed, XsFields
  <2>4. Serials(st')
    BY <1>0, <2>3, OtherFieldsOps
  <2>5. FontsInv(st'.fc, st'.may)
    <3> DEFINE no == ~st.fc.monitors
               fc == [st.fc EXCEPT !.stale = TRUE, !.event = st.fc.monitors, !.missed = no]
    <3>1. no \in BOOLEAN /\ st.fc.monitors \in BOOLEAN /\ (no <=> st.fc.monitors = FALSE)
      BY <1>0 DEF FontStates
    <3>2. st'.fc = fc
      BY <2>1, <2>3
    <3> HIDE DEF no
    <3>3. /\ fc \in FontStates /\ fc.event = st.fc.monitors /\ fc.missed = no
          /\ fc.state = st.fc.state /\ fc.thread = st.fc.thread
          /\ fc.notify = st.fc.notify /\ fc.untold = st.fc.untold
      BY <1>0, <3>1 DEF FontStates
    <3> HIDE DEF fc
    <3> QED
      BY <1>0, <2>3, <3>1, <3>2, <3>3 DEF FontsInv
  <2> QED
    BY <2>3, <2>4, <2>5 DEF XsInv, Xs!SerialsTellChanges
<1>2. CASE \/ Xs!StartFontconfigMonitor \/ Xs!StuffChanged \/ Xs!StartUpdate
           \/ Xs!CacheUpdateThread
  <2>1. /\ DOMAIN st' = XsFields /\ st'.serial = st.serial /\ st'.published = st.published
        /\ st'.settings = st.settings /\ st'.may = st.may
    BY <1>0, <1>2 DEF Xs!StartFontconfigMonitor, Xs!StuffChanged, Xs!StartTimeout,
                      Xs!StartUpdate, Xs!CacheUpdateThread, XsFields
  <2>2. Serials(st')
    BY <1>0, <2>1, OtherFieldsOps
  <2>3. FontsInv(st'.fc, st'.may)
    <3>1. CASE Xs!StuffChanged
      <4>1. /\ st.fc.event
            /\ \/ /\ st.fc.state \in {"idle", "pending"}
                  /\ st'.fc = [st.fc EXCEPT !.event = FALSE, !.state = "pending"]
               \/ /\ st.fc.state \notin {"idle", "pending"}
                  /\ st'.fc = [st.fc EXCEPT !.event = FALSE, !.state = "restart"]
        BY <1>0, <3>1 DEF Xs!StuffChanged, Xs!StartTimeout, XsFields, FontStates
      <4> QED
        BY <1>0, <2>1, <4>1 DEF FontsInv, FontStates
    <3>2. CASE Xs!StartUpdate
      <4>1. /\ st.fc.state = "pending"
            /\ st'.fc = [st.fc EXCEPT !.state = "running", !.thread = "started"]
        BY <1>0, <3>2 DEF Xs!StartUpdate, XsFields
      <4> QED
        BY <1>0, <2>1, <4>1 DEF FontsInv, FontStates
    <3>3. CASE Xs!CacheUpdateThread
      <4>1. /\ st.fc.thread = "started"
            /\ \/ ~st.fc.stale /\ st'.fc = [st.fc EXCEPT !.thread = "unnecessary"]
               \/ st'.fc = [st.fc EXCEPT !.thread = "updated", !.stale = FALSE, !.untold = TRUE,
                                         !.missed = FALSE]
               \/ "failures" \in st.may /\ st'.fc = [st.fc EXCEPT !.thread = "failed"]
        BY <1>0, <3>3 DEF Xs!CacheUpdateThread, XsFields
      <4> QED
        BY <1>0, <2>1, <4>1 DEF FontsInv, FontStates
    <3>4. CASE Xs!StartFontconfigMonitor
      <4>1. st'.fc = [st.fc EXCEPT !.monitors = TRUE]
        BY <1>0, <3>4 DEF Xs!StartFontconfigMonitor, XsFields
      <4> QED
        BY <1>0, <2>1, <4>1 DEF FontsInv, FontStates
    <3> QED
      BY <1>2, <3>1, <3>2, <3>3, <3>4
  <2> QED
    BY <2>1, <2>2, <2>3 DEF XsInv, Xs!SerialsTellChanges
<1> QED
  BY <1>1, <1>2

\* update_done
LEMMA ThreadDoneStep ==
  ASSUME XsInv(st), Xs!ThreadDone
  PROVE  XsInv(st') /\ Xs!SerialsTellChanges
<1>0. DOMAIN st = XsFields /\ st.fc \in FontStates /\ Serials(st) /\ FontsInv(st.fc, st.may)
  BY DEF XsInv, Serials, FontsInv
<1> DEFINE notify == st.fc.notify \/ st.fc.thread = "updated"
           done == [st EXCEPT !.fc.state = "idle", !.fc.thread = "none", !.fc.notify = notify]
           missed == st.fc.missed \/ (st.fc.event /\ st.fc.stale)
           told == [done EXCEPT !.fc.notify = FALSE, !.fc.event = FALSE, !.fc.missed = missed]
           fc   == [told EXCEPT !.fc.untold = FALSE]
           set  == Xs!SetSetting(fc, "Fontconfig/Timestamp", <<fc.changes>>)
<1>1. /\ st.fc.thread \in {"updated", "unnecessary", "failed"}
      /\ st' = IF st.fc.state = "restart" THEN Xs!StartTimeout(done)
               ELSE IF done.fc.notify THEN Xs!FontconfigCallback(told) ELSE done
  <2> DEFINE quiet == [done EXCEPT !.fc.notify = FALSE]
  <2>1. st' = IF st.fc.state = "restart" THEN Xs!StartTimeout(done)
              ELSE IF done.fc.notify THEN Xs!FontconfigCallback(Xs!RestartMonitors(quiet)) ELSE done
    BY DEF Xs!ThreadDone, Xs!UpdateDone
  <2>2. Xs!RestartMonitors(quiet) = told
    BY <1>0 DEF Xs!RestartMonitors, FontStates, XsFields
  <2>3. st.fc.thread \in {"updated", "unnecessary", "failed"}
    BY DEF Xs!ThreadDone
  <2> HIDE DEF quiet, told, done
  <2> QED
    BY <2>1, <2>2, <2>3
<1>2. /\ DOMAIN done = XsFields /\ done.serial = st.serial /\ done.published = st.published
      /\ done.settings = st.settings /\ done.may = st.may
      /\ done.fc = [st.fc EXCEPT !.state = "idle", !.thread = "none", !.notify = notify]
  BY <1>0 DEF XsFields
<1>3. done.fc.notify = notify
  <2> HIDE DEF done, notify
  <2> QED
    BY <1>0, <1>2 DEF FontStates
<1> HIDE DEF done
<1>4. CASE st.fc.state = "restart"
  <2>1. st' = [done EXCEPT !.fc.state = "pending"]
    BY <1>1, <1>4 DEF Xs!StartTimeout
  <2>2. /\ DOMAIN st' = XsFields /\ st'.serial = st.serial /\ st'.published = st.published
        /\ st'.settings = st.settings /\ st'.may = st.may
        /\ st'.fc = [st.fc EXCEPT !.state = "pending", !.thread = "none", !.notify = notify]
    BY <1>0, <1>2, <2>1 DEF XsFields, FontStates
  <2>3. Serials(st')
    BY <1>0, <2>2, OtherFieldsOps
  <2>4. FontsInv(st'.fc, st'.may)
    <3>1. notify \in BOOLEAN
      BY <1>0 DEF FontStates
    <3>2. st.fc.untold => notify
      BY <1>0 DEF FontsInv
    <3> HIDE DEF notify
    <3>3. /\ st'.fc \in FontStates /\ st'.fc.state = "pending" /\ st'.fc.thread = "none"
          /\ st'.fc.notify = notify /\ st'.fc.untold = st.fc.untold
      BY <1>0, <2>2, <3>1 DEF FontStates
    <3> QED
      BY <3>2, <3>3 DEF FontsInv
  <2> QED
    BY <2>2, <2>3, <2>4 DEF XsInv, Xs!SerialsTellChanges
<1>5. CASE st.fc.state # "restart" /\ done.fc.notify
  <2>1. st' = Xs!QueueNotify(set)
    BY <1>0, <1>1, <1>2, <1>5 DEF Xs!FontconfigCallback, XsFields
  <2>2. /\ DOMAIN fc = XsFields /\ fc.serial = st.serial /\ fc.published = st.published
        /\ fc.settings = st.settings /\ fc.may = st.may
        /\ fc.fc = [done.fc EXCEPT !.notify = FALSE, !.event = FALSE, !.missed = missed,
                                   !.untold = FALSE]
    BY <1>2 DEF XsFields
  <2>3. fc.fc = [st.fc EXCEPT !.state = "idle", !.thread = "none", !.notify = FALSE, !.event = FALSE,
                              !.missed = missed, !.untold = FALSE]
    BY <1>0, <1>2, <2>2 DEF FontStates
  <2> HIDE DEF fc, notify
  <2>4. Serials(fc)
    BY <1>0, <2>2, OtherFieldsOps
  <2>5. OnlySets(fc, set)
    BY <2>4, SetSettingOps DEF Xs!XNames
  <2> HIDE DEF set
  <2>6. OnlySets(set, st')
    BY <2>1, <2>5, QueueNotifyOps DEF OnlySets
  <2>7. OnlySets(fc, st')
    BY <2>5, <2>6, SetsTransitive
  <2>8. FontsInv(fc.fc, fc.may)
    <3>1. missed \in BOOLEAN
      BY <1>0 DEF FontStates
    <3>2. missed => fc.fc.missed
      BY <1>0, <2>3 DEF FontStates
    <3>3. st.fc.stale /\ "failures" \notin st.may => missed
      BY <1>0, <1>1, <1>5 DEF FontsInv, FontStates
    <3> HIDE DEF missed
    <3>4. /\ fc.fc \in FontStates /\ fc.fc.state = "idle" /\ fc.fc.thread = "none"
          /\ ~fc.fc.notify /\ ~fc.fc.untold /\ fc.fc.stale = st.fc.stale
      BY <1>0, <2>3, <3>1 DEF FontStates
    <3> QED
      BY <2>2, <3>2, <3>3, <3>4 DEF FontsInv
  <2> QED
    BY <2>2, <2>7, <2>8 DEF XsInv, OnlySets, Xs!SerialsTellChanges
<1>6. CASE st.fc.state # "restart" /\ ~done.fc.notify
  <2>1. st' = done
    BY <1>1, <1>6
  <2>2. Serials(done)
    BY <1>0, <1>2, OtherFieldsOps
  <2>3. FontsInv(done.fc, done.may)
    BY <1>0, <1>1, <1>2, <1>3, <1>6 DEF FontsInv, FontStates
  <2> QED
    BY <1>2, <2>1, <2>2, <2>3 DEF XsInv, Xs!SerialsTellChanges
<1> QED
  BY <1>4, <1>5, <1>6

LEMMA XsStep ==
  ASSUME XsInv(st), Xs!XsNext
  PROVE  XsInv(st') /\ Xs!SerialsTellChanges
BY NotifyIdleStep, SettingsStep, ModulesStep, SetsKeepInv, FontsStep, ThreadDoneStep DEF Xs!XsNext

LEMMA XsSafe == ASSUME XsInv(st) PROVE Xs!FontsAreFollowed
BY DEF XsInv, FontsInv, FontStates, Xs!FontsAreFollowed

\* Fonts that are installed are loaded unless loading failed or the monitors were
\* not there to tell of them, and clients are told of those that are loaded
\* (gsd-xsettings, fc-monitor.c: stuff_changed, update_done).
THEOREM FontsCorrect == SessionSpec => []FontsAreFollowed
<1> DEFINE Inv == daemon = "xsettings" => XsInv(st)
<1>1. SessionInit => Inv
  BY XsInitInv DEF SessionInit
<1>2. Inv /\ [SessionNext]_vars => Inv'
  <2> SUFFICES ASSUME Inv, [SessionNext]_vars, (daemon = "xsettings")' PROVE XsInv(st')
    OBVIOUS
  <2>1. daemon = "xsettings" /\ [Xs!XsNext]_st
    BY DEF SessionNext, Of, vars
  <2> QED
    BY <2>1, XsStep
<1>3. Inv => FontsAreFollowed
  BY XsSafe DEF FontsAreFollowed
<1> QED
  BY <1>1, <1>2, <1>3, PTL DEF SessionSpec

\* A setting that is written with another value is written with a later serial
\* (xsettings-manager.c: xsettings_setting_set, xsettings_manager_notify), so that a
\* client that compares serials misses no change.
THEOREM SerialsCorrect == SessionSpec => SerialsTellChanges
<1> DEFINE Inv == daemon = "xsettings" => XsInv(st)
<1>1. SessionInit => Inv
  BY XsInitInv DEF SessionInit
<1>2. Inv /\ [SessionNext]_vars => Inv' /\ [daemon = "xsettings" => Xs!SerialsTellChanges]_vars
  <2>1. CASE UNCHANGED vars
    BY <2>1 DEF vars
  <2>2. CASE SessionNext
    <3> SUFFICES ASSUME Inv, SessionNext, daemon = "xsettings" \/ (daemon = "xsettings")'
                 PROVE  XsInv(st') /\ Xs!SerialsTellChanges
      BY <2>2
    <3>1. daemon = "xsettings" /\ Xs!XsNext
      BY DEF SessionNext, Of
    <3> QED
      BY <3>1, XsStep
  <2> QED
    BY <2>1, <2>2
<1> QED
  BY <1>1, <1>2, PTL DEF SessionSpec, SerialsTellChanges
-------------------------------------------------------------------------------
(***************************************************************************)
(* gsd-usb-protection: USBGuard ends with the policy that the settings and    *)
(* the lock screen ask for.  Calls keep their order, so that the policy is     *)
(* going to be the one that is set last; and the allow rule is there as soon as *)
(* what is asked of USBGuard, and its answers, are all dealt with.           *)
(***************************************************************************)

\* The state is a record of these fields.
Guards ==
  [may : UpWorlds, protection : BOOLEAN, level : Up!Levels, ready : SUBSET Up!UpProxies,
   active : BOOLEAN, screensaver_active : BOOLEAN, signals : Seq(BOOLEAN), running : BOOLEAN,
   policy : Up!Policies, rule : BOOLEAN, available : BOOLEAN, calls : Seq(Up!UpCalls),
   messages : Seq(Up!UpMessages), notification : BOOLEAN, locking : BOOLEAN, aborted : BOOLEAN,
   overridden : BOOLEAN, missed : BOOLEAN]

\* The policy is going to be v: it is, or the last call that sets it says so.
Ends(s, v) ==
  \/ \E i \in DOMAIN s.calls :
       /\ s.calls[i].op = "set" /\ s.calls[i].value = v
       /\ \A j \in DOMAIN s.calls : j > i => s.calls[j].op # "set"
  \/ s.policy = v /\ \A i \in DOMAIN s.calls : s.calls[i].op # "set"

\* Something is asked that ends with the allow rule in place.
Asks(s) ==
  \/ \E i \in DOMAIN s.calls : s.calls[i].op \in {"get", "list", "append"}
  \/ \E i \in DOMAIN s.messages : s.messages[i].kind \in {"got", "rules"}

\* The first proxy comes first, and nothing is heard or set before it; the rule an
\* answer tells of is there.
Begins(s) ==
  /\ s.ready # {} => "usb" \in s.ready
  /\ s.ready = {} => s.overridden /\ s.signals = <<>>
  /\ \A i \in DOMAIN s.messages : s.messages[i].kind = "rules" /\ s.messages[i].present => s.rule

\* The last signal is about the screen as it is.
Hears(s) ==
  ~s.missed /\ s.ready # {} =>
    IF s.signals = <<>> THEN s.screensaver_active = s.active
    ELSE s.signals[Len(s.signals)] = s.active

Enforces(s) == ~s.missed /\ s.protection /\ ~s.overridden => Ends(s, Up!Wanted(s))

Allows(s) ==
  ~s.missed /\ s.protection /\ s.level = "lockscreen" /\ "policy" \in s.ready => s.rule \/ Asks(s)

Sound(s) == s \in Guards /\ Begins(s) /\ Hears(s)
UpInv(s) == Sound(s) /\ Enforces(s) /\ Allows(s)

\* From s to t nothing is done but calls.
OnlyCalls(s, t) ==
  /\ t.protection = s.protection /\ t.level = s.level /\ t.ready = s.ready /\ t.active = s.active
  /\ t.screensaver_active = s.screensaver_active /\ t.signals = s.signals
  /\ t.policy = s.policy /\ t.rule = s.rule /\ t.messages = s.messages
  /\ s.missed => t.missed

-------------------------------------------------------------------------------
LEMMA OnlyCallsSound ==
  ASSUME NEW s \in Guards, NEW t \in Guards, Sound(s), OnlyCalls(s, t),
         t.overridden = s.overridden \/ s.ready # {}
  PROVE  Sound(t)
BY DEF Sound, Begins, Hears, OnlyCalls, Guards

\* A call goes out behind those that wait, or is missed.
LEMMA CallOps ==
  ASSUME NEW s \in Guards, NEW c \in Up!UpCalls
  PROVE  LET t == Up!Call(s, c)
         IN /\ t \in Guards /\ OnlyCalls(s, t) /\ t.overridden = s.overridden
            /\ ~t.missed => t.calls = Append(s.calls, c) /\ ~s.missed
<1> DEFINE t == Up!Call(s, c)
<1>1. CASE s.running
  <2>1. t = [s EXCEPT !.calls = Append(s.calls, c)]
    BY <1>1 DEF Up!Call, Guards
  <2>2. Append(s.calls, c) \in Seq(Up!UpCalls)
    BY Appended DEF Guards
  <2> HIDE DEF t
  <2>3. t \in Guards
    BY <2>1, <2>2 DEF Guards
  <2> QED
    BY <2>1, <2>3 DEF Guards, OnlyCalls, t
<1>2. CASE ~s.running
  <2>1. t = [s EXCEPT !.missed = TRUE]
    BY <1>2 DEF Up!Call
  <2> HIDE DEF t
  <2>2. t \in Guards
    BY <2>1 DEF Guards
  <2> QED
    BY <2>1, <2>2 DEF Guards, OnlyCalls, t
<1> QED
  BY <1>1, <1>2

\* What a call behind the others does to what is going to be.
LEMMA CallEnds ==
  ASSUME NEW s \in Guards, NEW t \in Guards, NEW c \in Up!UpCalls, t.calls = Append(s.calls, c),
         t.policy = s.policy, t.messages = s.messages
  PROVE  /\ c.op = "set" => Ends(t, c.value)
         /\ c.op # "set" => \A v : Ends(s, v) => Ends(t, v)
         /\ c.op \in {"get", "list", "append"} \/ Asks(s) => Asks(t)
<1>1. /\ Len(s.calls) \in Nat /\ DOMAIN s.calls = 1 .. Len(s.calls)
      /\ DOMAIN t.calls = 1 .. Len(s.calls) + 1
      /\ t.calls[Len(s.calls) + 1] = c
      /\ \A i \in 1 .. Len(s.calls) : t.calls[i] = s.calls[i]
  <2>1. s.calls \in Seq(Up!UpCalls)
    BY DEF Guards
  <2> QED
    BY <2>1, Appended
<1> DEFINE n == Len(s.calls) + 1
<1>2. n \in DOMAIN t.calls
  BY <1>1
<1>3. ASSUME c.op = "set" PROVE Ends(t, c.value)
  <2>1. \A j \in DOMAIN t.calls : ~(j > n)
    BY <1>1
  <2> QED
    BY <1>1, <1>2, <1>3, <2>1 DEF Ends
<1>4. ASSUME c.op # "set", NEW v, Ends(s, v) PROVE Ends(t, v)
  <2>1. CASE \E i \in DOMAIN s.calls :
                 /\ s.calls[i].op = "set" /\ s.calls[i].value = v
                 /\ \A j \in DOMAIN s.calls : j > i => s.calls[j].op # "set"
    <3>1. PICK i \in DOMAIN s.calls :
                 /\ s.calls[i].op = "set" /\ s.calls[i].value = v
                 /\ \A j \in DOMAIN s.calls : j > i => s.calls[j].op # "set"
      BY <2>1
    <3>2. i \in DOMAIN t.calls /\ t.calls[i].op = "set" /\ t.calls[i].value = v
      BY <1>1, <3>1
    <3>3. \A j \in DOMAIN t.calls : j > i => t.calls[j].op # "set"
      BY <1>1, <1>4, <3>1
    <3> QED
      BY <3>2, <3>3 DEF Ends
  <2>2. CASE s.policy = v /\ \A i \in DOMAIN s.calls : s.calls[i].op # "set"
    BY <1>1, <1>4, <2>2 DEF Ends
  <2> QED
    BY <1>4, <2>1, <2>2 DEF Ends
<1>5. ASSUME c.op \in {"get", "list", "append"} \/ Asks(s) PROVE Asks(t)
  <2>1. CASE c.op \in {"get", "list", "append"}
    BY <1>1, <1>2, <2>1 DEF Asks
  <2>2. CASE Asks(s)
    BY <1>1, <2>2 DEF Asks
  <2> QED
    BY <1>5, <2>1, <2>2
<1> QED
  BY <1>3, <1>4, <1>5

\* A call that sets no policy takes nothing back.
LEMMA CallKeeps ==
  ASSUME NEW s, Sound(s), NEW c \in Up!UpCalls, c.op # "set"
  PROVE  LET t == Up!Call(s, c)
         IN /\ Sound(t) /\ OnlyCalls(s, t) /\ t.overridden = s.overridden
            /\ Enforces(s) => Enforces(t)
            /\ Allows(s) => Allows(t)
            /\ c.op \in {"get", "list", "append"} => Allows(t)
<1> DEFINE t == Up!Call(s, c)
<1>1. /\ s \in Guards /\ t \in Guards /\ OnlyCalls(s, t) /\ t.overridden = s.overridden
      /\ ~t.missed => t.calls = Append(s.calls, c) /\ ~s.missed
  BY CallOps DEF Sound
<1> HIDE DEF t
<1>2. Sound(t)
  BY <1>1, OnlyCallsSound
<1>3. ASSUME ~t.missed
      PROVE  /\ \A v : Ends(s, v) => Ends(t, v)
             /\ c.op \in {"get", "list", "append"} \/ Asks(s) => Asks(t)
  BY <1>1, <1>3, CallEnds DEF OnlyCalls
<1>4. Up!Wanted(t) = Up!Wanted(s)
  BY <1>1 DEF Up!Wanted, OnlyCalls
<1>5. Enforces(s) => Enforces(t)
  BY <1>1, <1>3, <1>4 DEF Enforces, OnlyCalls
<1>6. Allows(s) \/ c.op \in {"get", "list", "append"} => Allows(t)
  BY <1>1, <1>3 DEF Allows, OnlyCalls
<1> QED
  BY <1>1, <1>2, <1>5, <1>6 DEF t

\* setParameter, with a value that ignores at most the lock screen.
LEMMA SetParameterOps ==
  ASSUME NEW s, Sound(s), NEW value \in Up!Policies, "usb" \in s.ready,
         s.protection /\ s.level = "always" => value = "block"
  PROVE  LET t == Up!SetParameter(s, value)
         IN Sound(t) /\ OnlyCalls(s, t) /\ Enforces(t) /\ (Allows(s) => Allows(t))
<1> DEFINE c == [op |-> "set", value |-> value]
           u == Up!Call(s, c)
           ignores == value # Up!Wanted(s) /\ s.level = "lockscreen"
           t == Up!SetParameter(s, value)
<1>1. s \in Guards /\ c \in Up!UpCalls /\ c.op = "set" /\ c.value = value
  BY DEF Sound, Up!UpCalls
<1>2. t = [u EXCEPT !.overridden = ignores]
  BY DEF Up!SetParameter
<1> HIDE DEF c
<1>3. /\ u \in Guards /\ OnlyCalls(s, u)
      /\ ~u.missed => u.calls = Append(s.calls, c) /\ ~s.missed
  BY <1>1, CallOps
<1>4. ignores \in BOOLEAN
  OBVIOUS
<1> HIDE DEF u, t, ignores
<1>5. /\ t \in Guards /\ OnlyCalls(s, t) /\ t.overridden = ignores
      /\ ~t.missed => t.calls = Append(s.calls, c) /\ ~s.missed
  <2>1. /\ t \in Guards /\ t.overridden = ignores /\ OnlyCalls(u, t) /\ t.calls = u.calls
        /\ t.missed = u.missed
    BY <1>2, <1>3, <1>4 DEF Guards, OnlyCalls
  <2> QED
    BY <1>3, <2>1 DEF OnlyCalls
<1>6. Sound(t)
  <2>1. s.ready # {}
    OBVIOUS
  <2> QED
    BY <1>1, <1>5, <2>1, OnlyCallsSound
<1>7. ASSUME ~t.missed PROVE Ends(t, value) /\ (Asks(s) => Asks(t))
  BY <1>1, <1>5, <1>7, CallEnds DEF OnlyCalls
<1>8. s.protection /\ ~ignores => value = Up!Wanted(s)
  BY <1>1 DEF ignores, Up!Wanted, Guards, Up!Levels
<1>9. Up!Wanted(t) = Up!Wanted(s)
  BY <1>5 DEF Up!Wanted, OnlyCalls
<1>10. Enforces(t)
  BY <1>5, <1>7, <1>8, <1>9 DEF Enforces, OnlyCalls
<1>11. Allows(s) => Allows(t)
  BY <1>5, <1>7 DEF Allows, OnlyCalls
<1> QED
  BY <1>5, <1>6, <1>10, <1>11 DEF t

\* usbguard_ensure_allow_rule
LEMMA EnsureAllowRuleOps ==
  ASSUME NEW s, Sound(s)
  PROVE  LET t == Up!EnsureAllowRule(s)
         IN /\ Sound(t) /\ OnlyCalls(s, t) /\ t.overridden = s.overridden
            /\ (Enforces(s) => Enforces(t)) /\ Allows(t)
<1> DEFINE c == [op |-> "list"]
<1>1. CASE "policy" \notin s.ready
  <2>1. Up!EnsureAllowRule(s) = s
    BY <1>1 DEF Up!EnsureAllowRule
  <2> QED
    BY <1>1, <2>1 DEF OnlyCalls, Allows
<1>2. CASE "policy" \in s.ready
  <2>1. c \in Up!UpCalls /\ c.op = "list"
    BY DEF Up!UpCalls
  <2>2. Up!EnsureAllowRule(s) = Up!Call(s, c)
    BY <1>2 DEF Up!EnsureAllowRule
  <2> HIDE DEF c
  <2> QED
    BY <2>1, <2>2, CallKeeps
<1> QED
  BY <1>1, <1>2

\* settings_changed_callback brings everything in step.
LEMMA SettingsChangedOps ==
  ASSUME NEW s, Sound(s), NEW key \in {"protection", "level"}
  PROVE  UpInv(Up!SettingsChanged(s, key))
<1> DEFINE t == Up!SettingsChanged(s, key)
           set == Up!SetParameter(s, "apply-policy")
           cleaned == Up!EnsureAllowRule(set)
<1>1. CASE "usb" \notin s.ready \/ (~s.protection /\ key = "level")
  <2>1. t = s
    BY <1>1 DEF Up!SettingsChanged
  <2>2. ~s.protection \/ (s.overridden /\ "policy" \notin s.ready)
    BY <1>1 DEF Sound, Begins
  <2> QED
    BY <2>1, <2>2 DEF UpInv, Enforces, Allows
<1>2. CASE "usb" \in s.ready /\ ((~s.protection /\ key = "protection")
                                \/ (s.protection /\ s.level = "lockscreen"))
  <2>1. t = cleaned
    BY <1>2 DEF Up!SettingsChanged
  <2>2. Sound(set) /\ Enforces(set)
    BY <1>2, SetParameterOps DEF Up!Policies
  <2> HIDE DEF set
  <2> QED
    BY <2>1, <2>2, EnsureAllowRuleOps DEF UpInv
<1>3. CASE "usb" \in s.ready /\ s.protection /\ s.level # "lockscreen"
  <2>1. t = Up!SetParameter(s, "block")
    BY <1>3 DEF Up!SettingsChanged
  <2>2. Sound(t) /\ OnlyCalls(s, t) /\ Enforces(t)
    BY <1>3, <2>1, SetParameterOps DEF Up!Policies
  <2> QED
    BY <1>3, <2>2 DEF UpInv, Allows, OnlyCalls
<1> QED
  BY <1>1, <1>2, <1>3

\* update_usb_protection_store
LEMMA UpdateStoreOps ==
  ASSUME NEW s, UpInv(s), NEW value
  PROVE  UpInv(Up!UpdateUsbProtectionStore(s, value))
<1> DEFINE given == [s EXCEPT !.protection = FALSE]
<1>1. Sound(given)
  BY DEF UpInv, Sound, Guards, Begins, Hears
<1>2. \/ Up!UpdateUsbProtectionStore(s, value) = s
      \/ Up!UpdateUsbProtectionStore(s, value) = Up!SettingsChanged(given, "protection")
  BY DEF Up!UpdateUsbProtectionStore
<1> HIDE DEF given
<1> QED
  BY <1>1, <1>2, SettingsChangedOps

\* handle_screensaver_active, with the signal that is the newest when no other waits.
LEMMA ScreensaverOps ==
  ASSUME NEW s, s \in Guards, Begins(s), Enforces(s), Allows(s), "usb" \in s.ready, NEW active \in BOOLEAN,
         ~s.missed => IF s.signals = <<>> THEN active = s.active
                      ELSE s.signals[Len(s.signals)] = s.active
  PROVE  UpInv(Up!HandleScreensaverActive(s, active))
<1> DEFINE seen == [s EXCEPT !.screensaver_active = active]
           value == IF active THEN "block" ELSE "apply-policy"
           t == Up!HandleScreensaverActive(s, active)
<1>1. /\ seen \in Guards /\ seen.screensaver_active = active /\ seen.protection = s.protection
      /\ seen.level = s.level /\ seen.ready = s.ready /\ seen.active = s.active
      /\ seen.signals = s.signals /\ seen.policy = s.policy /\ seen.rule = s.rule
      /\ seen.messages = s.messages /\ seen.calls = s.calls /\ seen.missed = s.missed
      /\ seen.overridden = s.overridden
  BY DEF Guards
<1>2. t = IF s.screensaver_active # active /\ s.protection /\ s.level = "lockscreen"
          THEN Up!SetParameter(seen, value) ELSE seen
  BY DEF Up!HandleScreensaverActive
<1>3. value \in Up!Policies
  BY DEF Up!Policies
<1> HIDE DEF seen, value, t
<1>4. Sound(seen) /\ Allows(seen)
  BY <1>1 DEF Sound, Begins, Hears, Allows, Asks
<1>5. CASE s.screensaver_active # active /\ s.protection /\ s.level = "lockscreen"
  <2>1. t = Up!SetParameter(seen, value)
    BY <1>2, <1>5
  <2> QED
    BY <1>1, <1>3, <1>4, <1>5, <2>1, SetParameterOps DEF UpInv, t
<1>6. CASE ~(s.screensaver_active # active /\ s.protection /\ s.level = "lockscreen")
  <2>1. s.protection => Up!Wanted(seen) = Up!Wanted(s)
    BY <1>1, <1>6 DEF Up!Wanted, Guards, Up!Levels
  <2>2. Enforces(seen)
    BY <1>1, <2>1 DEF Enforces, Ends
  <2>3. t = seen
    BY <1>2, <1>6
  <2> QED
    BY <1>4, <2>2, <2>3 DEF UpInv, t
<1> QED
  BY <1>5, <1>6

\* get_parameter_cb, when the answer is no longer waited for.
LEMMA GetParameterOps ==
  ASSUME NEW s, Sound(s), Enforces(s), NEW value \in Up!Policies
  PROVE  UpInv(Up!GetParameterDone(s, value))
<1> DEFINE asked == IF s.level = "always" THEN "block" ELSE "apply-policy"
           synced == IF value = asked THEN s ELSE Up!SetParameter(s, asked)
           t == Up!GetParameterDone(s, value)
<1>1. t = IF s.level = "lockscreen" THEN Up!EnsureAllowRule(synced) ELSE synced
  BY DEF Up!GetParameterDone
<1>2. asked \in Up!Policies /\ (s.level = "always" => asked = "block")
  BY DEF Up!Policies
<1> HIDE DEF asked, t
<1>3. Sound(synced) /\ OnlyCalls(s, synced) /\ Enforces(synced)
  <2>1. CASE value = asked \/ "usb" \notin s.ready
    BY <2>1 DEF OnlyCalls, Up!SetParameter
  <2>2. CASE value # asked /\ "usb" \in s.ready
    BY <1>2, <2>2, SetParameterOps
  <2> QED
    BY <2>1, <2>2
<1> HIDE DEF synced
<1>4. CASE s.level = "lockscreen"
  BY <1>1, <1>3, <1>4, EnsureAllowRuleOps DEF UpInv, t
<1>5. CASE s.level # "lockscreen"
  <2>1. Allows(synced)
    BY <1>3, <1>5 DEF Allows, OnlyCalls
  <2> QED
    BY <1>1, <1>3, <1>5, <2>1 DEF UpInv, t
<1> QED
  BY <1>4, <1>5

\* What is about the notification, the lock that is waited for, or the abort alone.
LEMMA NotifiedOps ==
  ASSUME NEW s, UpInv(s), NEW t \in Guards, OnlyCalls(s, t), t.calls = s.calls,
         t.missed = s.missed, t.overridden = s.overridden
  PROVE  UpInv(t)
<1>1. Sound(t)
  BY OnlyCallsSound DEF UpInv, Sound
<1>2. Enforces(t)
  BY DEF UpInv, Enforces, Ends, Up!Wanted, OnlyCalls
<1>3. Allows(t)
  BY DEF UpInv, Allows, Asks, OnlyCalls
<1> QED
  BY <1>1, <1>2, <1>3 DEF UpInv

LEMMA AllowOps ==
  ASSUME NEW s, UpInv(s), NEW c \in Up!UpCalls, c.op # "set"
  PROVE  UpInv(Up!Call(s, c))
BY CallKeeps DEF UpInv

\* show_notification
LEMMA ShowNotificationOps ==
  ASSUME NEW s, UpInv(s)
  PROVE  UpInv(Up!ShowNotification(s))
<1> DEFINE t == Up!ShowNotification(s)
<1>1. /\ t \in Guards /\ OnlyCalls(s, t) /\ t.calls = s.calls /\ t.missed = s.missed
      /\ t.overridden = s.overridden
  BY DEF Up!ShowNotification, UpInv, Sound, Guards, OnlyCalls
<1> HIDE DEF t
<1> QED
  BY <1>1, NotifiedOps DEF t

\* on_usbguard_signal
LEMMA DevicePolicyOps ==
  ASSUME NEW s, UpInv(s), NEW m \in Up!UpMessages, m.kind = "inserted", NEW locked \in BOOLEAN
  PROVE  UpInv(Up!DevicePolicyApplied(s, m, locked))
<1> DEFINE allow == [op |-> "allow"]
           t == Up!DevicePolicyApplied(s, m, locked)
           aborted == [s EXCEPT !.aborted = TRUE]
           locking == [s EXCEPT !.locking = TRUE]
<1>1. m.class \in {"hid", "hardwired", "other"} /\ m.allowed \in BOOLEAN /\ allow \in Up!UpCalls /\ allow.op # "set"
  BY DEF Up!UpMessages, Up!UpCalls
<1>2. UpInv(Up!ShowNotification(s)) /\ UpInv(Up!Call(s, allow))
  BY <1>1, ShowNotificationOps, AllowOps
<1>3. UpInv(Up!Call(Up!ShowNotification(s), allow))
  BY <1>1, <1>2, AllowOps
<1>4. UpInv(aborted)
  <2>1. /\ aborted \in Guards /\ OnlyCalls(s, aborted) /\ aborted.calls = s.calls
        /\ aborted.missed = s.missed /\ aborted.overridden = s.overridden
    BY DEF UpInv, Sound, Guards, OnlyCalls
  <2> HIDE DEF aborted
  <2> QED
    BY <2>1, NotifiedOps
<1>5. UpInv(locking)
  <2>1. /\ locking \in Guards /\ OnlyCalls(s, locking) /\ locking.calls = s.calls
        /\ locking.missed = s.missed /\ locking.overridden = s.overridden
    BY DEF UpInv, Sound, Guards, OnlyCalls
  <2> HIDE DEF locking
  <2> QED
    BY <2>1, NotifiedOps
<1>6. \/ t = s \/ t = Up!Call(s, allow) \/ t = aborted \/ t = Up!Call(Up!ShowNotification(s), allow)
      \/ t = Up!ShowNotification(s) \/ t = locking
  <2> HIDE DEF allow
  <2>1. CASE m.allowed \/ ~s.protection
    BY <2>1 DEF Up!DevicePolicyApplied
  <2>2. CASE m.class = "hardwired" /\ ~m.allowed /\ s.protection
    BY <2>2 DEF Up!DevicePolicyApplied, allow
  <2>3. CASE m.class # "hardwired" /\ ~m.allowed /\ s.protection
    <3>1. CASE "logind" \notin s.ready
      BY <2>3, <3>1 DEF Up!DevicePolicyApplied
    <3>2. CASE "logind" \in s.ready /\ locked
      BY <2>3, <3>2 DEF Up!DevicePolicyApplied, allow
    <3>3. CASE "logind" \in s.ready /\ ~locked
      BY <2>3, <3>3 DEF Up!DevicePolicyApplied
    <3> QED
      BY <3>1, <3>2, <3>3
  <2> QED
    BY <1>1, <2>1, <2>2, <2>3
<1> QED
  BY <1>2, <1>3, <1>4, <1>5, <1>6

\* A message of USBGuard comes behind those that wait.
LEMMA MessageOps ==
  ASSUME NEW s \in Guards, NEW m \in Up!UpMessages,
         m.kind = "rules" /\ m.present => s.rule
  PROVE  LET messages == Append(s.messages, m)
         IN /\ messages \in Seq(Up!UpMessages)
            /\ \A t : t.messages = messages =>
                 /\ m.kind \in {"got", "rules"} => Asks(t)
                 /\ Asks(s) /\ t.calls = s.calls => Asks(t)
                 /\ Begins(s) /\ t.ready = s.ready /\ t.overridden = s.overridden
                    /\ t.signals = s.signals /\ (s.rule => t.rule) => Begins(t)
<1> DEFINE messages == Append(s.messages, m)
           n == Len(s.messages)
<1>1. /\ messages \in Seq(Up!UpMessages)
      /\ n \in Nat /\ DOMAIN s.messages = 1 .. n /\ DOMAIN messages = 1 .. n + 1
      /\ messages[n + 1] = m /\ \A i \in 1 .. n : messages[i] = s.messages[i]
  <2>1. s.messages \in Seq(Up!UpMessages)
    BY DEF Guards
  <2> QED
    BY <2>1, Appended
<1> HIDE DEF messages, n
<1>2. ASSUME NEW t, t.messages = messages
      PROVE  /\ m.kind \in {"got", "rules"} => Asks(t)
             /\ Asks(s) /\ t.calls = s.calls => Asks(t)
             /\ Begins(s) /\ t.ready = s.ready /\ t.overridden = s.overridden
                /\ t.signals = s.signals /\ (s.rule => t.rule) => Begins(t)
  <2>1. n + 1 \in DOMAIN t.messages /\ t.messages[n + 1] = m
    BY <1>1, <1>2
  <2>2. \A i \in DOMAIN s.messages : i \in DOMAIN t.messages /\ t.messages[i] = s.messages[i]
    BY <1>1, <1>2
  <2>3. \A i \in DOMAIN t.messages : t.messages[i] = m \/ (i \in DOMAIN s.messages /\ t.messages[i] = s.messages[i])
    BY <1>1, <1>2
  <2>4. m.kind \in {"got", "rules"} => Asks(t)
    BY <2>1 DEF Asks
  <2>5. Asks(s) /\ t.calls = s.calls => Asks(t)
    BY <2>2 DEF Asks
  <2>6. Begins(s) /\ t.ready = s.ready /\ t.overridden = s.overridden
          /\ t.signals = s.signals /\ (s.rule => t.rule) => Begins(t)
    BY <2>3 DEF Begins
  <2> QED
    BY <2>4, <2>5, <2>6
<1> QED
  BY <1>1, <1>2 DEF messages

\* USBGuard has handled the first of the calls.
LEMMA HandledOps ==
  ASSUME NEW s \in Guards, s.calls # <<>>
  PROVE  LET c == Head(s.calls)
             calls == Tail(s.calls)
         IN /\ c \in Up!UpCalls /\ calls \in Seq(Up!UpCalls)
            /\ \A t : t.calls = calls =>
                 /\ t.policy = (IF c.op = "set" THEN c.value ELSE s.policy) =>
                      \A v : Ends(s, v) => Ends(t, v)
                 /\ c.op \notin {"get", "list", "append"} /\ Asks(s)
                    /\ (\A i \in DOMAIN s.messages : \E j \in DOMAIN t.messages : t.messages[j] = s.messages[i])
                    => Asks(t)
<1> DEFINE c == Head(s.calls)
           calls == Tail(s.calls)
           n == Len(s.calls)
<1>1. /\ c \in Up!UpCalls /\ calls \in Seq(Up!UpCalls) /\ n \in Nat /\ n > 0
      /\ DOMAIN s.calls = 1 .. n /\ DOMAIN calls = 1 .. n - 1 /\ c = s.calls[1]
      /\ \A i \in 1 .. n - 1 : calls[i] = s.calls[i + 1]
  <2>1. s.calls \in Seq(Up!UpCalls)
    BY DEF Guards
  <2>2. /\ c \in Up!UpCalls /\ c = s.calls[1] /\ 1 \in DOMAIN s.calls
        /\ calls \in Seq(Up!UpCalls) /\ Len(calls) = n - 1
        /\ \A i \in DOMAIN calls : i + 1 \in DOMAIN s.calls /\ calls[i] = s.calls[i + 1]
    BY <2>1, Tailed
  <2>3. n \in Nat /\ DOMAIN s.calls = 1 .. n
    BY <2>1
  <2> HIDE DEF calls, c
  <2>4. DOMAIN calls = 1 .. n - 1
    BY <2>2
  <2> QED
    BY <2>2, <2>3, <2>4
<1> HIDE DEF c, calls, n
<1>2. \A i \in DOMAIN s.calls : i # 1 => i - 1 \in DOMAIN calls /\ calls[i - 1] = s.calls[i]
  BY <1>1
<1>5. \A j \in DOMAIN calls : /\ j \in Nat /\ j + 1 > 1 /\ j + 1 \in DOMAIN s.calls
                             /\ calls[j] = s.calls[j + 1]
  BY <1>1
<1>3. ASSUME NEW t, t.calls = calls, t.policy = (IF c.op = "set" THEN c.value ELSE s.policy),
             NEW v, Ends(s, v)
      PROVE  Ends(t, v)
  <2>1. CASE \E i \in DOMAIN s.calls :
                 /\ s.calls[i].op = "set" /\ s.calls[i].value = v
                 /\ \A j \in DOMAIN s.calls : j > i => s.calls[j].op # "set"
    <3>1. PICK i \in DOMAIN s.calls :
                 /\ s.calls[i].op = "set" /\ s.calls[i].value = v
                 /\ \A j \in DOMAIN s.calls : j > i => s.calls[j].op # "set"
      BY <2>1
    <3>2. CASE i = 1
      <4>1. t.policy = v /\ \A j \in DOMAIN t.calls : t.calls[j].op # "set"
        BY <1>1, <1>3, <1>5, <3>1, <3>2
      <4> QED
        BY <4>1 DEF Ends
    <3>3. CASE i # 1
      <4>1. i - 1 \in DOMAIN t.calls /\ t.calls[i - 1].op = "set" /\ t.calls[i - 1].value = v
        BY <1>2, <1>3, <3>1, <3>3
      <4>2. \A j \in DOMAIN t.calls : j > i - 1 => t.calls[j].op # "set"
        <5> SUFFICES ASSUME NEW j \in DOMAIN calls, j > i - 1 PROVE calls[j].op # "set"
          BY <1>3
        <5>1. j + 1 > i
          BY <1>1, <1>5
        <5> QED
          BY <1>5, <3>1, <5>1
      <4> QED
        BY <4>1, <4>2 DEF Ends
    <3> QED
      BY <3>2, <3>3
  <2>2. CASE s.policy = v /\ \A i \in DOMAIN s.calls : s.calls[i].op # "set"
    <3>1. c.op # "set" /\ t.policy = v
      BY <1>1, <1>3, <2>2
    <3>2. \A j \in DOMAIN t.calls : t.calls[j].op # "set"
      BY <1>3, <1>5, <2>2
    <3> QED
      BY <3>1, <3>2 DEF Ends
  <2> QED
    BY <1>3, <2>1, <2>2 DEF Ends
<1>4. ASSUME NEW t, t.calls = calls, c.op \notin {"get", "list", "append"}, Asks(s),
             \A i \in DOMAIN s.messages : \E j \in DOMAIN t.messages : t.messages[j] = s.messages[i]
      PROVE  Asks(t)
  BY <1>1, <1>2, <1>4 DEF Asks
<1> QED
  BY <1>1, <1>3, <1>4 DEF c, calls

-------------------------------------------------------------------------------
LEMMA UpInitInv == ASSUME Up!UpInit PROVE UpInv(st)
<1>1. /\ <<>> \in Seq(BOOLEAN) /\ <<>> \in Seq(Up!UpCalls) /\ <<>> \in Seq(Up!UpMessages)
      /\ "apply-policy" \in Up!Policies
  BY DEF Up!Policies
<1> QED
  BY <1>1 DEF Up!UpInit, UpInv, Sound, Guards, Begins, Hears, Enforces, Allows

LEMMA ProxyReadyInv == ASSUME UpInv(st), Up!UsbProtectionProxyReady PROVE UpInv(st')
<1>1. PICK active \in {st.active, st.screensaver_active} :
        st' = Up!HandleScreensaverActive(
                [st EXCEPT !.ready = {"usb"}, !.available = st.running,
                           !.missed = (active # st.active)], active)
  BY DEF Up!UsbProtectionProxyReady
<1> DEFINE s == [st EXCEPT !.ready = {"usb"}, !.available = st.running,
                           !.missed = (active # st.active)]
<1>2. st \in Guards /\ st.ready = {} /\ Begins(st) /\ active \in BOOLEAN
  BY DEF UpInv, Sound, Guards, Up!UsbProtectionProxyReady
<1>3. /\ s \in Guards /\ s.ready = {"usb"} /\ s.missed = (active # st.active)
      /\ s.active = st.active /\ s.signals = st.signals /\ s.overridden = st.overridden
      /\ s.messages = st.messages /\ s.rule = st.rule
  <2>1. (active # st.active) \in BOOLEAN /\ {"usb"} \in SUBSET Up!UpProxies
    BY DEF Up!UpProxies
  <2> QED
    BY <1>2, <2>1 DEF Guards
<1> HIDE DEF s
<1>4. Begins(s) /\ Enforces(s) /\ Allows(s)
  BY <1>2, <1>3 DEF Begins, Enforces, Allows
<1>5. ~s.missed => s.signals = <<>> /\ active = s.active
  BY <1>2, <1>3 DEF Begins
<1> QED
  BY <1>1, <1>2, <1>3, <1>4, <1>5, ScreensaverOps DEF s

LEMMA OtherProxyReadyInv == ASSUME UpInv(st), Up!OtherProxyReady PROVE UpInv(st')
<1> DEFINE get == [op |-> "get"]
<1>1. PICK proxy \in Up!UpProxies \ st.ready :
        LET s == [st EXCEPT !.ready = @ \cup {proxy}]
        IN st' = IF proxy = "policy" /\ s.protection THEN Up!Call(s, get) ELSE s
  BY DEF Up!OtherProxyReady
<1> DEFINE s == [st EXCEPT !.ready = @ \cup {proxy}]
<1>2. st \in Guards /\ st.ready # {} /\ get \in Up!UpCalls /\ get.op = "get"
  BY DEF UpInv, Sound, Up!OtherProxyReady, Up!UpCalls
<1>3. /\ s \in Guards /\ s.ready = st.ready \cup {proxy}
      /\ s.protection = st.protection /\ s.level = st.level /\ s.active = st.active
      /\ s.screensaver_active = st.screensaver_active /\ s.signals = st.signals
      /\ s.policy = st.policy /\ s.rule = st.rule /\ s.messages = st.messages /\ s.calls = st.calls
      /\ s.overridden = st.overridden /\ s.missed = st.missed
  BY <1>2 DEF Guards
<1>4. st' = IF proxy = "policy" /\ s.protection THEN Up!Call(s, get) ELSE s
  BY <1>1
<1> HIDE DEF s, get
<1>5. Sound(s) /\ Enforces(s)
  BY <1>2, <1>3 DEF UpInv, Sound, Begins, Hears, Enforces, Ends, Up!Wanted
<1>6. proxy # "policy" \/ ~s.protection => Allows(s)
  BY <1>3 DEF UpInv, Allows, Asks
<1>7. UpInv(Up!Call(s, get)) \/ ~(proxy = "policy" /\ s.protection)
  BY <1>2, <1>5, CallKeeps DEF UpInv
<1> QED
  BY <1>4, <1>5, <1>6, <1>7 DEF UpInv

LEMMA UserChangesInv == ASSUME UpInv(st), Up!UserChangesSettings PROVE UpInv(st')
<1> DEFINE s(v) == [st EXCEPT !.protection = v]
           u(v) == [st EXCEPT !.level = v]
<1>1. \/ \E v \in BOOLEAN : st' = Up!SettingsChanged(s(v), "protection")
      \/ \E v \in Up!Levels : st' = Up!SettingsChanged(u(v), "level")
  BY DEF Up!UserChangesSettings, UpInv, Sound, Guards
<1>2. \A v \in BOOLEAN : Sound(s(v))
  BY DEF UpInv, Sound, Guards, Begins, Hears
<1>3. \A v \in Up!Levels : Sound(u(v))
  BY DEF UpInv, Sound, Guards, Begins, Hears
<1> HIDE DEF s, u
<1> QED
  BY <1>1, <1>2, <1>3, SettingsChangedOps

LEMMA ScreenChangesInv == ASSUME UpInv(st), Up!ScreenChanges PROVE UpInv(st')
<1> DEFINE active == ~st.active
           signals == IF st.ready = {} THEN st.signals ELSE Append(st.signals, active)
<1>1. st \in Guards /\ st' = [st EXCEPT !.active = active, !.signals = signals]
  BY DEF UpInv, Sound, Guards, Up!ScreenChanges
<1>2. active \in BOOLEAN /\ st.signals \in Seq(BOOLEAN)
  BY <1>1 DEF Guards
<1> HIDE DEF active
<1>3. /\ signals \in Seq(BOOLEAN) /\ (st.ready = {} => signals = st.signals)
      /\ st.ready # {} => signals # <<>> /\ signals[Len(signals)] = active
  <2>1. CASE st.ready = {}
    BY <1>2, <2>1
  <2>2. CASE st.ready # {}
    <3>1. signals = Append(st.signals, active)
      BY <2>2
    <3>2. Append(st.signals, active) \in Seq(BOOLEAN) /\ Append(st.signals, active) # <<>>
      BY <1>2
    <3>3. /\ Len(st.signals) \in Nat /\ Len(Append(st.signals, active)) = Len(st.signals) + 1
          /\ Append(st.signals, active)[Len(st.signals) + 1] = active
      BY <1>2
    <3> QED
      BY <2>2, <3>1, <3>2, <3>3
  <2> QED
    BY <2>1, <2>2
<1> HIDE DEF signals
<1>4. /\ st' \in Guards /\ st'.active = active /\ st'.signals = signals /\ st'.ready = st.ready
      /\ st'.protection = st.protection /\ st'.level = st.level
      /\ st'.screensaver_active = st.screensaver_active /\ st'.policy = st.policy
      /\ st'.rule = st.rule /\ st'.messages = st.messages /\ st'.calls = st.calls
      /\ st'.overridden = st.overridden /\ st'.missed = st.missed
  BY <1>1, <1>2, <1>3 DEF Guards
<1>5. Begins(st') /\ Hears(st')
  BY <1>3, <1>4 DEF UpInv, Sound, Begins, Hears
<1> QED
  BY <1>4, <1>5 DEF UpInv, Sound, Enforces, Ends, Up!Wanted, Allows, Asks

LEMMA ScreensaverSignalInv == ASSUME UpInv(st), Up!ScreensaverSignal PROVE UpInv(st')
<1> DEFINE active == Head(st.signals)
           left == Tail(st.signals)
           s == [st EXCEPT !.signals = left]
<1>1. st \in Guards /\ st.signals \in Seq(BOOLEAN) /\ st.signals # <<>>
      /\ st' = Up!HandleScreensaverActive(s, active)
  BY DEF UpInv, Sound, Guards, Up!ScreensaverSignal
<1>2. /\ active \in BOOLEAN /\ left \in Seq(BOOLEAN)
      /\ IF left = <<>> THEN active = st.signals[Len(st.signals)]
         ELSE left[Len(left)] = st.signals[Len(st.signals)]
  <2> DEFINE S == BOOLEAN
  <2>0. st.signals \in Seq(S)
    BY <1>1
  <2> HIDE DEF S
  <2>1. /\ active \in S /\ active = st.signals[1] /\ left \in Seq(S)
        /\ Len(left) = Len(st.signals) - 1 /\ Len(st.signals) \in Nat
        /\ \A i \in DOMAIN left : i + 1 \in DOMAIN st.signals /\ left[i] = st.signals[i + 1]
    <3>1. Len(st.signals) \in Nat
      BY <2>0
    <3> QED
      BY <1>1, <2>0, <3>1, Tailed
  <2> HIDE DEF active, left
  <2>2. active \in BOOLEAN /\ left \in Seq(BOOLEAN)
    BY <2>1 DEF S
  <2>3. CASE left = <<>>
    <3>1. Len(st.signals) = 1
      BY <2>1, <2>3
    <3> QED
      BY <2>1, <2>3, <2>2, <3>1
  <2>4. CASE left # <<>>
    <3>1. Len(left) \in DOMAIN left
      BY <2>1, <2>4
    <3> QED
      BY <2>1, <2>4, <2>2, <3>1
  <2> QED
    BY <2>3, <2>4
<1> HIDE DEF active, left
<1>3. /\ s \in Guards /\ s.signals = left /\ s.active = st.active /\ s.ready = st.ready
      /\ s.protection = st.protection /\ s.level = st.level
      /\ s.screensaver_active = st.screensaver_active /\ s.policy = st.policy
      /\ s.rule = st.rule /\ s.messages = st.messages /\ s.calls = st.calls
      /\ s.overridden = st.overridden /\ s.missed = st.missed
  BY <1>1, <1>2 DEF Guards
<1> HIDE DEF s
<1>4. st.ready # {} /\ "usb" \in st.ready
  BY <1>1 DEF UpInv, Sound, Begins
<1>5. Begins(s) /\ Enforces(s) /\ Allows(s)
  BY <1>3, <1>4 DEF UpInv, Sound, Begins, Enforces, Ends, Up!Wanted, Allows, Asks
<1>6. ~s.missed => IF s.signals = <<>> THEN active = s.active
                   ELSE s.signals[Len(s.signals)] = s.active
  BY <1>1, <1>2, <1>3, <1>4 DEF UpInv, Sound, Hears
<1> QED
  BY <1>1, <1>2, <1>3, <1>4, <1>5, <1>6, ScreensaverOps

\* A message is added, and nothing that it does not tell of.
LEMMA HeardInv ==
  ASSUME UpInv(st), NEW m \in Up!UpMessages, m.kind # "rules",
         st' = [st EXCEPT !.messages = Append(@, m)]
  PROVE  UpInv(st')
<1> DEFINE messages == Append(st.messages, m)
<1>1. st \in Guards /\ messages \in Seq(Up!UpMessages)
  BY MessageOps DEF UpInv, Sound
<1>2. st' = [st EXCEPT !.messages = messages]
  BY <1>1 DEF Guards
<1>5. \A t : t.messages = messages =>
        /\ Asks(st) /\ t.calls = st.calls => Asks(t)
        /\ Begins(st) /\ t.ready = st.ready /\ t.overridden = st.overridden
           /\ t.signals = st.signals /\ (st.rule => t.rule) => Begins(t)
  BY <1>1, MessageOps
<1> HIDE DEF messages
<1>3. /\ st' \in Guards /\ st'.messages = messages /\ st'.signals = st.signals
      /\ st'.active = st.active /\ st'.ready = st.ready
      /\ st'.protection = st.protection /\ st'.level = st.level
      /\ st'.screensaver_active = st.screensaver_active /\ st'.policy = st.policy
      /\ st'.rule = st.rule /\ st'.calls = st.calls
      /\ st'.overridden = st.overridden /\ st'.missed = st.missed
  BY <1>1, <1>2 DEF Guards
<1>4. Begins(st') /\ (Asks(st) => Asks(st'))
  BY <1>3, <1>5 DEF UpInv, Sound
<1> QED
  BY <1>3, <1>4 DEF UpInv, Sound, Hears, Enforces, Ends, Up!Wanted, Allows

LEMMA DeviceInsertedInv == ASSUME UpInv(st), Up!DeviceInserted PROVE UpInv(st')
<1>1. PICK class \in {"hid", "hardwired", "other"} :
        st' = [st EXCEPT !.messages =
                 Append(@, [kind |-> "inserted", class |-> class,
                            allowed |-> st.rule /\ st.policy = "apply-policy"])]
  BY DEF Up!DeviceInserted
<1> DEFINE m == [kind |-> "inserted", class |-> class,
                 allowed |-> st.rule /\ st.policy = "apply-policy"]
<1>2. m \in Up!UpMessages /\ m.kind # "rules"
  BY DEF Up!UpMessages
<1> HIDE DEF m
<1> QED
  BY <1>1, <1>2, HeardInv DEF m

\* What others do to USBGuard counts as missed.
LEMMA UsbGuardChangesInv == ASSUME UpInv(st), Up!UsbGuardChanges PROVE UpInv(st')
<1>0. st \in Guards /\ Begins(st) /\ st.ready # {}
  BY DEF UpInv, Sound, Up!UsbGuardChanges
<1>1. CASE \E value \in Up!Policies \ {st.policy} :
             st' = [st EXCEPT !.policy = value, !.missed = TRUE,
                              !.messages = Append(@, [kind |-> "changed", value |-> value, own |-> FALSE])]
  <2>1. PICK value \in Up!Policies :
             st' = [st EXCEPT !.policy = value, !.missed = TRUE,
                              !.messages = Append(@, [kind |-> "changed", value |-> value, own |-> FALSE])]
    BY <1>1
  <2> DEFINE m == [kind |-> "changed", value |-> value, own |-> FALSE]
             messages == Append(st.messages, m)
  <2>2. m \in Up!UpMessages /\ m.kind # "rules"
    BY DEF Up!UpMessages
  <2>3. st' = [st EXCEPT !.policy = value, !.missed = TRUE, !.messages = messages]
    BY <1>0, <2>1 DEF Guards
  <2> HIDE DEF m
  <2>4. messages \in Seq(Up!UpMessages)
    BY <1>0, <2>2, MessageOps
  <2> HIDE DEF messages
  <2>5. /\ st' \in Guards /\ st'.messages = messages /\ st'.missed /\ st'.ready = st.ready
        /\ st'.overridden = st.overridden /\ st'.signals = st.signals /\ st'.rule = st.rule
    BY <1>0, <2>3, <2>4 DEF Guards
  <2>6. Begins(st')
    BY <1>0, <2>2, <2>5, MessageOps DEF messages
  <2> QED
    BY <2>5, <2>6 DEF UpInv, Sound, Hears, Enforces, Allows
<1>2. CASE st' = [st EXCEPT !.running = ~@, !.available = ~@, !.calls = <<>>, !.missed = TRUE]
  <2> DEFINE running == ~st.running
             available == ~st.available
  <2>1. <<>> \in Seq(Up!UpCalls) /\ running \in BOOLEAN /\ available \in BOOLEAN
    OBVIOUS
  <2>2. st' = [st EXCEPT !.running = running, !.available = available, !.calls = <<>>,
                         !.missed = TRUE]
    BY <1>0, <1>2 DEF Guards
  <2> HIDE DEF running, available
  <2>3. /\ st' \in Guards /\ st'.messages = st.messages /\ st'.missed /\ st'.ready = st.ready
        /\ st'.overridden = st.overridden /\ st'.signals = st.signals /\ st'.rule = st.rule
    BY <1>0, <2>1, <2>2 DEF Guards
  <2> QED
    BY <1>0, <2>3 DEF UpInv, Sound, Begins, Hears, Enforces, Allows
<1> QED
  BY <1>1, <1>2 DEF Up!UsbGuardChanges

\* What keeps what is going to be, and neither setting nor screen changes.
LEMMA StillGoingToBe ==
  ASSUME UpInv(st), st' \in Guards, Begins(st'),
         st'.protection = st.protection, st'.level = st.level, st'.ready = st.ready,
         st'.active = st.active, st'.screensaver_active = st.screensaver_active,
         st'.signals = st.signals, st'.overridden = st.overridden, st'.missed = st.missed,
         \A v : Ends(st, v) => Ends(st', v),
         st.rule \/ Asks(st) => st'.rule \/ Asks(st')
  PROVE  UpInv(st')
BY DEF UpInv, Sound, Hears, Enforces, Up!Wanted, Allows

LEMMA UsbGuardHandlesInv == ASSUME UpInv(st), Up!UsbGuardHandles PROVE UpInv(st')
<1> DEFINE c == Head(st.calls)
           calls == Tail(st.calls)
           changed == [kind |-> "changed", value |-> c.value, own |-> TRUE]
           got == [kind |-> "got", value |-> st.policy]
           rules == [kind |-> "rules", present |-> st.rule]
<1>0. st \in Guards /\ st.calls # <<>>
  BY DEF UpInv, Sound, Up!UsbGuardHandles
<1>1. /\ c \in Up!UpCalls /\ calls \in Seq(Up!UpCalls)
      /\ \A t : t.calls = calls =>
           /\ t.policy = (IF c.op = "set" THEN c.value ELSE st.policy) => \A v : Ends(st, v) => Ends(t, v)
           /\ c.op \notin {"get", "list", "append"} /\ Asks(st)
              /\ (\A i \in DOMAIN st.messages : \E j \in DOMAIN t.messages : t.messages[j] = st.messages[i])
              => Asks(t)
  BY <1>0, HandledOps
<1>2. \/ c.op = "set" /\ c.value \in Up!Policies
         /\ st' = [st EXCEPT !.calls = calls, !.policy = c.value, !.messages = Append(@, changed)]
      \/ c.op = "get" /\ st' = [st EXCEPT !.calls = calls, !.messages = Append(@, got)]
      \/ c.op = "list" /\ st' = [st EXCEPT !.calls = calls, !.messages = Append(@, rules)]
      \/ c.op = "append" /\ st' = [st EXCEPT !.calls = calls, !.rule = TRUE]
      \/ c.op = "allow" /\ st' = [st EXCEPT !.calls = calls]
  <2>1. c.op \in {"set", "get", "list", "append", "allow"} /\ (c.op = "set" => c.value \in Up!Policies)
    BY <1>1 DEF Up!UpCalls
  <2> HIDE DEF c, calls
  <2> QED
    BY <1>0, <2>1 DEF Up!UsbGuardHandles, c, calls, Guards
<1>3. ASSUME NEW m \in Up!UpMessages, m.kind = "rules" /\ m.present => st.rule,
             NEW policy \in Up!Policies,
             st' = [st EXCEPT !.calls = calls, !.policy = policy, !.messages = Append(@, m)],
             policy = IF c.op = "set" THEN c.value ELSE st.policy,
             m.kind \in {"got", "rules"} \/ c.op \notin {"get", "list", "append"}
      PROVE  UpInv(st')
  <2> DEFINE messages == Append(st.messages, m)
  <2>1. /\ messages \in Seq(Up!UpMessages)
        /\ \A t : t.messages = messages =>
             /\ m.kind \in {"got", "rules"} => Asks(t)
             /\ Begins(st) /\ t.ready = st.ready /\ t.overridden = st.overridden
                /\ t.signals = st.signals /\ (st.rule => t.rule) => Begins(t)
    BY <1>0, <1>3, MessageOps
  <2>2. \A i \in DOMAIN st.messages : \E j \in DOMAIN messages : messages[j] = st.messages[i]
    <3>1. st.messages \in Seq(Up!UpMessages)
      BY <1>0 DEF Guards
    <3>2. \A i \in DOMAIN st.messages : i \in DOMAIN messages /\ messages[i] = st.messages[i]
      BY <1>3, <3>1
    <3> QED
      BY <3>2
  <2>3. st' = [st EXCEPT !.calls = calls, !.policy = policy, !.messages = messages]
    BY <1>0, <1>3 DEF Guards
  <2> HIDE DEF c, calls, messages
  <2>4. /\ st' \in Guards /\ st'.calls = calls /\ st'.policy = policy /\ st'.messages = messages
        /\ st'.protection = st.protection /\ st'.level = st.level /\ st'.ready = st.ready
        /\ st'.active = st.active /\ st'.screensaver_active = st.screensaver_active
        /\ st'.signals = st.signals /\ st'.overridden = st.overridden /\ st'.missed = st.missed
        /\ st'.rule = st.rule
    BY <1>0, <1>1, <1>3, <2>1, <2>3 DEF Guards
  <2>5. Begins(st')
    BY <2>1, <2>4 DEF UpInv, Sound
  <2>6. \A v : Ends(st, v) => Ends(st', v)
    BY <1>1, <1>3, <2>4
  <2>7. Asks(st) => Asks(st')
    <3>1. CASE m.kind \in {"got", "rules"}
      BY <2>1, <2>4, <3>1
    <3>2. CASE c.op \notin {"get", "list", "append"}
      BY <1>1, <2>2, <2>4, <3>2
    <3> QED
      BY <1>3, <3>1, <3>2
  <2> QED
    BY <2>4, <2>5, <2>6, <2>7, StillGoingToBe
<1>4. CASE \/ c.op = "append" /\ st' = [st EXCEPT !.calls = calls, !.rule = TRUE]
           \/ c.op = "allow" /\ st' = [st EXCEPT !.calls = calls]
  <2> HIDE DEF c, calls
  <2>1. /\ st' \in Guards /\ st'.calls = calls /\ st'.policy = st.policy
        /\ st'.messages = st.messages
        /\ st'.protection = st.protection /\ st'.level = st.level /\ st'.ready = st.ready
        /\ st'.active = st.active /\ st'.screensaver_active = st.screensaver_active
        /\ st'.signals = st.signals /\ st'.overridden = st.overridden /\ st'.missed = st.missed
        /\ st.rule => st'.rule
        /\ c.op = "append" => st'.rule
    BY <1>0, <1>1, <1>4 DEF Guards
  <2>2. Begins(st')
    BY <2>1 DEF UpInv, Sound, Begins
  <2>3. \A v : Ends(st, v) => Ends(st', v)
    BY <1>1, <1>4, <2>1
  <2>4. c.op = "allow" /\ Asks(st) => Asks(st')
    BY <1>1, <2>1
  <2> QED
    BY <1>4, <2>1, <2>2, <2>3, <2>4, StillGoingToBe
<1>5. CASE c.op = "set" /\ c.value \in Up!Policies
           /\ st' = [st EXCEPT !.calls = calls, !.policy = c.value, !.messages = Append(@, changed)]
  <2>1. changed \in Up!UpMessages /\ changed.kind = "changed"
    BY <1>5 DEF Up!UpMessages
  <2> HIDE DEF c, calls, changed
  <2> QED
    BY <1>3, <1>5, <2>1
<1>6. CASE \/ c.op = "get" /\ st' = [st EXCEPT !.calls = calls, !.messages = Append(@, got)]
           \/ c.op = "list" /\ st' = [st EXCEPT !.calls = calls, !.messages = Append(@, rules)]
  <2>1. /\ got \in Up!UpMessages /\ got.kind = "got"
        /\ rules \in Up!UpMessages /\ rules.kind = "rules" /\ rules.present = st.rule
        /\ st.policy \in Up!Policies
    BY <1>0 DEF Up!UpMessages, Guards
  <2> HIDE DEF c, calls, got, rules
  <2>2. CASE c.op = "get" /\ st' = [st EXCEPT !.calls = calls, !.messages = Append(@, got)]
    <3>1. st' = [st EXCEPT !.calls = calls, !.policy = st.policy, !.messages = Append(@, got)]
      BY <1>0, <2>2 DEF Guards
    <3> QED
      BY <1>3, <2>1, <2>2, <3>1
  <2>3. CASE c.op = "list" /\ st' = [st EXCEPT !.calls = calls, !.messages = Append(@, rules)]
    <3>1. st' = [st EXCEPT !.calls = calls, !.policy = st.policy, !.messages = Append(@, rules)]
      BY <1>0, <2>3 DEF Guards
    <3> QED
      BY <1>3, <2>1, <2>3, <3>1
  <2> QED
    BY <1>6, <2>2, <2>3
<1> HIDE DEF c, calls, changed, got, rules
<1> QED
  BY <1>2, <1>4, <1>5, <1>6

LEMMA MessageReadInv == ASSUME UpInv(st), Up!MessageRead PROVE UpInv(st')
<1> DEFINE m == Head(st.messages)
           left == Tail(st.messages)
           s == [st EXCEPT !.messages = left]
<1>1. /\ st \in Guards /\ st.messages \in Seq(Up!UpMessages) /\ st.messages # <<>>
      /\ \/ m.kind = "changed" /\ st' = Up!UpdateUsbProtectionStore(s, m.value)
         \/ m.kind = "got" /\ st' = Up!GetParameterDone(s, m.value)
         \/ m.kind = "rules" /\ st' = Up!ListRulesDone(s, m.present)
         \/ /\ m.kind = "inserted" /\ ~st.locking
            /\ \E locked \in {st.active, FALSE} : st' = Up!DevicePolicyApplied(s, m, locked)
  BY DEF UpInv, Sound, Guards, Up!MessageRead
<1>2. /\ m \in Up!UpMessages /\ m = st.messages[1] /\ 1 \in DOMAIN st.messages
      /\ left \in Seq(Up!UpMessages)
      /\ \A i \in DOMAIN left : i + 1 \in DOMAIN st.messages /\ left[i] = st.messages[i + 1]
      /\ \A i \in DOMAIN st.messages : i # 1 => i - 1 \in DOMAIN left /\ left[i - 1] = st.messages[i]
  <2>1. /\ m \in Up!UpMessages /\ m = st.messages[1] /\ 1 \in DOMAIN st.messages
        /\ left \in Seq(Up!UpMessages) /\ Len(left) = Len(st.messages) - 1
        /\ \A i \in DOMAIN left : i + 1 \in DOMAIN st.messages /\ left[i] = st.messages[i + 1]
    BY <1>1, Tailed
  <2> HIDE DEF m, left
  <2>2. Len(st.messages) \in Nat /\ DOMAIN st.messages = 1 .. Len(st.messages) /\ DOMAIN left = 1 .. Len(left)
    BY <1>1, <2>1
  <2>3. \A i \in DOMAIN st.messages : i # 1 => i - 1 \in DOMAIN left /\ (i - 1) + 1 = i
    BY <2>1, <2>2
  <2>4. \A i \in DOMAIN st.messages : i # 1 => left[i - 1] = st.messages[i]
    BY <2>1, <2>3
  <2> QED
    BY <2>1, <2>3, <2>4
<1> HIDE DEF m, left
<1>3. /\ s \in Guards /\ s.messages = left /\ s.signals = st.signals
      /\ s.active = st.active /\ s.ready = st.ready
      /\ s.protection = st.protection /\ s.level = st.level
      /\ s.screensaver_active = st.screensaver_active /\ s.policy = st.policy
      /\ s.rule = st.rule /\ s.calls = st.calls
      /\ s.overridden = st.overridden /\ s.missed = st.missed
  BY <1>1, <1>2 DEF Guards
<1> HIDE DEF s
<1>4. Sound(s) /\ Enforces(s)
  BY <1>2, <1>3 DEF UpInv, Sound, Begins, Hears, Enforces, Ends, Up!Wanted
<1>5. m.kind \notin {"got", "rules"} => Allows(s)
  <2>1. m.kind \notin {"got", "rules"} /\ Asks(st) => Asks(s)
    BY <1>2, <1>3 DEF Asks
  <2> QED
    BY <1>3, <2>1 DEF UpInv, Allows
<1>6. CASE m.kind = "changed" /\ st' = Up!UpdateUsbProtectionStore(s, m.value)
  BY <1>4, <1>5, <1>6, UpdateStoreOps DEF UpInv
<1>7. CASE m.kind = "got" /\ st' = Up!GetParameterDone(s, m.value)
  <2>1. m.value \in Up!Policies
    BY <1>2, <1>7 DEF Up!UpMessages
  <2> QED
    BY <1>4, <1>7, <2>1, GetParameterOps
<1>8. CASE m.kind = "rules" /\ st' = Up!ListRulesDone(s, m.present)
  <2> DEFINE append == [op |-> "append"]
  <2>1. append \in Up!UpCalls /\ append.op = "append"
    BY DEF Up!UpCalls
  <2>2. CASE m.present
    <3>1. st' = s
      BY <1>8, <2>2 DEF Up!ListRulesDone
    <3>2. s.rule
      BY <1>2, <1>3, <1>8, <2>2 DEF UpInv, Sound, Begins
    <3> QED
      BY <1>4, <3>1, <3>2 DEF UpInv, Allows
  <2>3. CASE ~m.present
    <3>1. st' = Up!Call(s, append)
      BY <1>8, <2>3 DEF Up!ListRulesDone
    <3> HIDE DEF append
    <3> QED
      BY <1>4, <2>1, <3>1, CallKeeps DEF UpInv
  <2> QED
    BY <2>2, <2>3
<1>9. CASE m.kind = "inserted" /\ \E locked \in {st.active, FALSE} : st' = Up!DevicePolicyApplied(s, m, locked)
  <2>1. PICK locked \in {st.active, FALSE} : st' = Up!DevicePolicyApplied(s, m, locked)
    BY <1>9
  <2>2. locked \in BOOLEAN
    BY <1>1 DEF Guards
  <2>3. UpInv(s)
    BY <1>4, <1>5, <1>9 DEF UpInv
  <2> QED
    BY <1>2, <1>9, <2>1, <2>2, <2>3, DevicePolicyOps
<1> QED
  BY <1>1, <1>6, <1>7, <1>8, <1>9

LEMMA LockAnsweredInv == ASSUME UpInv(st), Up!LockAnswered PROVE UpInv(st')
<1> DEFINE s == [st EXCEPT !.locking = FALSE]
           allow == [op |-> "allow"]
<1>1. st' = Up!Call(Up!ShowNotification(s), allow)
  BY DEF Up!LockAnswered, Up!ScreenLocked
<1>2. /\ s \in Guards /\ OnlyCalls(st, s) /\ s.calls = st.calls /\ s.missed = st.missed
      /\ s.overridden = st.overridden
  BY DEF UpInv, Sound, Guards, OnlyCalls
<1>3. allow \in Up!UpCalls /\ allow.op # "set"
  BY DEF Up!UpCalls
<1> HIDE DEF s, allow
<1>4. UpInv(s)
  BY <1>2, NotifiedOps
<1>5. UpInv(Up!ShowNotification(s))
  BY <1>4, ShowNotificationOps
<1> QED
  BY <1>1, <1>3, <1>5, AllowOps

LEMMA NotificationOverInv == ASSUME UpInv(st), Up!NotificationClosed PROVE UpInv(st')
<1>1. /\ st' \in Guards /\ OnlyCalls(st, st') /\ st'.calls = st.calls /\ st'.missed = st.missed
      /\ st'.overridden = st.overridden
  BY DEF UpInv, Sound, Guards, OnlyCalls, Up!NotificationClosed
<1> QED
  BY <1>1, NotifiedOps

LEMMA UpNextInv == ASSUME UpInv(st), Up!UpNext PROVE UpInv(st')
BY ProxyReadyInv, OtherProxyReadyInv, UserChangesInv, ScreenChangesInv, ScreensaverSignalInv,
   UsbGuardHandlesInv, UsbGuardChangesInv, DeviceInsertedInv, MessageReadInv, LockAnsweredInv,
   NotificationOverInv DEF Up!UpNext

\* With no call and no message left that is what the property says.
LEMMA UpSafe == ASSUME UpInv(st) PROVE Up!UsbGuardFollows
<1> SUFFICES ASSUME st.ready = Up!UpProxies, st.calls = <<>>, st.messages = <<>>,
                    st.protection, ~st.missed
             PROVE  /\ st.level = "lockscreen" => st.rule
                    /\ st.overridden \/ st.signals # <<>>
                       \/ st.policy = IF st.level = "always" \/ st.active THEN "block" ELSE "apply-policy"
  BY DEF Up!UsbGuardFollows
<1>1. "policy" \in st.ready /\ st.ready # {}
  BY DEF Up!UpProxies
<1>2. ~Asks(st)
  BY DEF Asks
<1>3. st.signals = <<>> => st.screensaver_active = st.active
  BY <1>1 DEF UpInv, Sound, Hears
<1>4. ~st.overridden => st.policy = Up!Wanted(st)
  BY DEF UpInv, Enforces, Ends
<1> QED
  BY <1>1, <1>2, <1>3, <1>4 DEF UpInv, Allows, Up!Wanted

\* When USBGuard and the daemon are done with each other, protection that is on has
\* the policy the settings and the lock screen ask for, and the allow rule that the
\* lockscreen level counts on (gsd-usb-protection-manager.c: settings_changed_callback,
\* handle_screensaver_active, get_parameter_cb, usbguard_listrules_cb).
THEOREM PolicyCorrect == SessionSpec => []UsbPolicyFollows
<1> DEFINE Inv == daemon = "usb" => UpInv(st)
<1>1. SessionInit => Inv
  BY UpInitInv DEF SessionInit
<1>2. Inv /\ [SessionNext]_vars => Inv'
  <2> SUFFICES ASSUME Inv, [SessionNext]_vars, (daemon = "usb")' PROVE UpInv(st')
    OBVIOUS
  <2>1. daemon = "usb" /\ [Up!UpNext]_st
    BY DEF SessionNext, Of, vars
  <2> QED
    BY <2>1, UpNextInv
<1>3. Inv => UsbPolicyFollows
  BY UpSafe DEF UsbPolicyFollows
<1> QED
  BY <1>1, <1>2, <1>3, PTL DEF SessionSpec
==============================================================================
