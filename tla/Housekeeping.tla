------------------------------ MODULE Housekeeping ------------------------------
(***************************************************************************)
(* gsd-housekeeping-manager.c, gsd-systemd-notify.c and                     *)
(* gsd-donation-reminder.c: the thumbnail cache is cleaned by age and size,  *)
(* two minutes after a change and once a day; a unit that was killed for     *)
(* memory is told of; once in a while the user is asked for a donation.      *)
(***************************************************************************)
EXTENDS Integers, FiniteSets, FiniteSetsExt, Sequences, SequencesExt

CONSTANTS
  Thumbs,         \* thumbnail -> its size
  MaxAges, MaxSizes,   \* values of maximum-age and maximum-size; -1 is none
  IntHalf,        \* half the range of an int, in the unit of the times
  Year,           \* time between two reminders
  MaxTime,        \* bound: time in a behaviour
  HkWorlds        \* bound: the happenings of a behaviour are from one of these sets

VARIABLE hk

Names   == DOMAIN Thumbs
Unknown == -1    \* neither access nor modification time could be read

HkTypeOK ==
  /\ hk.may \in HkWorlds /\ hk.phase \in {"new", "running", "stopped"}
  /\ hk.there \subseteq Names /\ hk.time \in [Names -> Unknown .. MaxTime]
  /\ hk.max_age \in MaxAges /\ hk.max_size \in MaxSizes
  /\ hk.changed \in BOOLEAN /\ hk.short_term_cb \in BOOLEAN /\ hk.long_term_cb \in BOOLEAN
  /\ hk.cleaned \in BOOLEAN /\ hk.now \in 0 .. MaxTime
  /\ hk.session \in BOOLEAN /\ hk.stopped_apps \in BOOLEAN
  /\ hk.donations \in BOOLEAN /\ hk.reminder \in BOOLEAN /\ hk.last_shown \in -Year .. MaxTime
  /\ hk.notification \in BOOLEAN

-------------------------------------------------------------------------------
Size(names) == MapThenSumSet(LAMBDA n : Thumbs[n], names)

\* sort_file_time, whose difference of two times is cut to an int.
ToInt(x) == ((x + IntHalf) % (2 * IntHalf)) - IntHalf
SortFileTime(s, m, n) ==
  CASE s.time[m] = Unknown /\ s.time[n] = Unknown -> 0
    [] s.time[m] = Unknown /\ s.time[n] # Unknown -> 1
    [] s.time[m] # Unknown /\ s.time[n] = Unknown -> -1
    [] OTHER -> ToInt(s.time[m] - s.time[n])

\* The orders g_list_sort may end with: it has compared each two neighbours.
Orders(s, names) ==
  {order \in SetToSeqs(names) :
     \A i \in 1 .. Cardinality(names) - 1 : SortFileTime(s, order[i], order[i + 1]) <= 0}

\* purge_old_thumbnails
TooOld(s, n) == s.time[n] # Unknown /\ s.now - s.time[n] > s.max_age

\* total_size: what purge_old_thumbnails has added up, if it was called.
Counted(s, kept) == IF s.max_age < 0 THEN 0 ELSE Size(kept)

\* Mistake: the last thumbnail is kept even if it is too large by itself.
SurvivorsKeepOne(s, kept, order, total) ==
  LET first == {k \in 0 .. Len(order) - 1 : total - Size(ToSet(SubSeq(order, 1, k))) <= s.max_size}
  IN kept \ ToSet(SubSeq(order, 1, IF first = {} THEN Len(order) - 1 ELSE Min(first)))

\* purge_thumbnail_cache: from the first on, until what was counted fits.
Survivors(s, kept, order, total) ==
  LET enough == {k \in 0 .. Len(order) : total - Size(ToSet(SubSeq(order, 1, k))) <= s.max_size}
  IN kept \ ToSet(SubSeq(order, 1, IF enough = {} THEN Len(order) ELSE Min(enough)))

\* purge_thumbnail_cache.  cleaned is history: nothing has changed since.
Cleanup(s) ==
  LET kept  == IF s.max_age < 0 THEN s.there ELSE {n \in s.there : ~TooOld(s, n)}
      total == Counted(s, kept)
      after(names) == [s EXCEPT !.there = names, !.cleaned = TRUE]
  IN IF s.max_age < 0 /\ s.max_size < 0 THEN {after(s.there)}
     ELSE IF s.max_size < 0 \/ total <= s.max_size THEN {after(kept)}
     ELSE {after(Survivors(s, kept, order, total)) : order \in Orders(s, kept)}

-------------------------------------------------------------------------------
HkInit ==
  \E may \in HkWorlds, time \in [Names -> {Unknown, 0}], max_age \in MaxAges,
     max_size \in MaxSizes, donations \in BOOLEAN, last_shown \in {-Year, 0} :
   /\ "donations" \notin may => ~donations /\ last_shown = 0
   /\ hk = [may |-> may, phase |-> "new", there |-> Names, time |-> time, max_age |-> max_age,
             max_size |-> max_size, changed |-> FALSE, short_term_cb |-> FALSE,
             long_term_cb |-> FALSE, cleaned |-> FALSE, now |-> 0, session |-> FALSE,
             stopped_apps |-> FALSE, donations |-> donations, reminder |-> FALSE,
             last_shown |-> last_shown, notification |-> FALSE]

\* gsd_housekeeping_manager_startup and gsd_donation_reminder_init, which looks
\* at the setting this once.
HkStartup ==
  /\ hk.phase = "new"
  /\ hk' = [hk EXCEPT !.phase = "running", !.short_term_cb = TRUE, !.long_term_cb = TRUE,
                      !.reminder = hk.donations]

\* do_cleanup_once and do_cleanup, when their timers run out.
DoCleanupOnce ==
  hk.short_term_cb /\ hk' \in {[s EXCEPT !.short_term_cb = FALSE] : s \in Cleanup(hk)}
DoCleanup == hk.long_term_cb /\ hk' \in Cleanup(hk)

\* settings_changed_callback
HkSettingsChanged ==
  /\ hk.changed /\ hk.phase = "running"
  /\ hk' = [hk EXCEPT !.changed = FALSE, !.short_term_cb = TRUE]

\* gsd_housekeeping_manager_shutdown: "paranoid" limits clean once more.
HkShutdown ==
  /\ hk.phase = "running"
  /\ LET s == [hk EXCEPT !.phase = "stopped", !.short_term_cb = FALSE, !.long_term_cb = FALSE,
                         !.reminder = FALSE, !.notification = FALSE, !.session = FALSE]
     IN IF hk.max_age = 0 \/ hk.max_size = 0 THEN hk' \in Cleanup(s) ELSE hk' = s

\* gsd_systemd_notify: on_bus_gotten subscribes, on_unit_properties_changed
\* tells of a unit whose result is oom-kill.
SystemdBusGotten ==
  "oom" \in hk.may /\ hk.phase = "running" /\ ~hk.session /\ hk' = [hk EXCEPT !.session = TRUE]
UnitKilled ==
  "oom" \in hk.may /\ hk.session /\ ~hk.stopped_apps /\ hk' = [hk EXCEPT !.stopped_apps = TRUE]

\* show_notification_timeout_cb: the time is set whether or not there is
\* still a reminder to be seen.
DonationTimeout ==
  /\ hk.reminder /\ hk.now - Year > hk.last_shown
  /\ hk' = [hk EXCEPT !.last_shown = hk.now, !.notification = TRUE]
DonationClosed == hk.notification /\ hk' = [hk EXCEPT !.notification = FALSE]

\* Thumbnails are made, and read; the settings change; time passes.
ThumbTouched(n) ==
  /\ "thumbs" \in hk.may
  /\ hk' = [hk EXCEPT !.there = @ \cup {n}, !.time[n] = IF @ = Unknown THEN @ ELSE hk.now,
                      !.cleaned = FALSE]
LimitsSet ==
  /\ "settings" \in hk.may /\ hk.phase # "stopped"
  /\ \E max_age \in MaxAges, max_size \in MaxSizes :
       hk' = [hk EXCEPT !.max_age = max_age, !.max_size = max_size, !.changed = hk.phase = "running",
                        !.cleaned = FALSE]
DonationsToggled == "donations" \in hk.may /\ hk' = [hk EXCEPT !.donations = ~@]
TimePasses == hk.now < MaxTime /\ hk' = [hk EXCEPT !.now = @ + 1, !.cleaned = FALSE]

HkNext ==
  \/ HkStartup
  \/ DoCleanupOnce
  \/ DoCleanup
  \/ HkSettingsChanged
  \/ HkShutdown
  \/ SystemdBusGotten
  \/ UnitKilled
  \/ DonationTimeout
  \/ DonationClosed
  \/ \E n \in Names : ThumbTouched(n)
  \/ LimitsSet
  \/ DonationsToggled
  \/ TimePasses

-------------------------------------------------------------------------------
WithinLimits(s) ==
  /\ s.max_age >= 0 => \A n \in s.there : ~TooOld(s, n)
  /\ s.max_size >= 0 => Size(s.there) <= s.max_size

\* "If both are set to -1, we don't need to read anything"
\* (gsd-housekeeping-manager.c:270): a cleanup keeps either limit.
CleanedMeansWithinLimits == hk.cleaned => WithinLimits(hk)

\* With an age limit it does, whatever order the truncated comparison of the
\* times sorts the thumbnails in.
AgedMeansWithinLimits == hk.cleaned /\ hk.max_age >= 0 => WithinLimits(hk)
==============================================================================
