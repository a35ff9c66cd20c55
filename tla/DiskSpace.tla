------------------------------- MODULE DiskSpace -------------------------------
(***************************************************************************)
(* gsd-disk-space.c of gsd-housekeeping: the warnings about volumes that    *)
(* run low.  ldsm_notified_hash keeps, for each volume that was warned      *)
(* about, the free space and the time of that; one warning is shown at a    *)
(* time.  Purging is in TrashPurge.                                        *)
(***************************************************************************)
EXTENDS Naturals, Sequences, SequencesExt, FiniteSets, FiniteSetsExt

CONSTANTS
  Fstab,         \* the volumes of /etc/fstab, in its order
  IgnoredKinds,  \* those gsd_should_ignore_unix_mount passes over
  FullSpace,     \* bound: free space, in steps, of an empty volume
  FreePercentNotify, FreePercentNotifyAgain,   \* in the same steps
  MinNotifyPeriod,                             \* in checks
  MaxMinutes,    \* bound: checks in a behaviour
  DkWorlds       \* bound: the happenings of a behaviour are from one of these sets

VARIABLE dk

Volumes == ToSet(Fstab)
NoEntry == [free |-> 0, time |-> 0, known |-> FALSE]
Entries == [free : 0 .. FullSpace, time : 0 .. MaxMinutes, known : BOOLEAN]

DkTypeOK ==
  /\ dk.may \in DkWorlds
  /\ dk.free \in [Volumes -> 0 .. FullSpace]
  /\ dk.mounted \subseteq Volumes /\ dk.mounts_changed \in BOOLEAN
  /\ dk.ignore \subseteq Volumes /\ dk.ignore_paths \subseteq Volumes
  /\ dk.hash \in [Volumes -> Entries]
  /\ dk.notification \in Volumes \cup {"none"}
  /\ dk.minute \in 0 .. MaxMinutes /\ dk.shown \in [Volumes -> 0 .. MaxMinutes]
  /\ dk.warned \subseteq Volumes

-------------------------------------------------------------------------------
\* ldsm_mount_has_space; the limit in gigabytes is left out.
HasSpace(s, v) == s.free[v] > FreePercentNotify

\* ldsm_check_all_mounts: what is looked at.
Checked(s) == {v \in s.mounted : v \notin s.ignore_paths /\ v \notin IgnoredKinds}

\* ldsm_maybe_warn_mounts: what becomes of a volume that is low.
Verdict(s, v) ==
  LET entry == s.hash[v]
      fell  == entry.known /\ entry.free > s.free[v] + FreePercentNotifyAgain
  IN IF ~entry.known THEN "warn"
     ELSE IF ~fell THEN "leave"
     ELSE IF s.minute > entry.time + MinNotifyPeriod THEN "warn" ELSE "too_soon"

\* ldsm_notify: not while one is displayed.  shown and warned are history.
LdsmNotify(s, v) ==
  IF s.notification # "none" THEN s
  ELSE [s EXCEPT !.notification = v, !.shown[v] = s.minute, !.warned = @ \cup {v}]

\* Mistake: a second warning keeps the time of the first.
NotedKeepsTime(s, v) ==
  [free |-> s.free[v], known |-> TRUE,
   time |-> IF s.hash[v].known THEN s.hash[v].time ELSE s.minute]

\* The entry of a volume that is warned about, or is not because it is too soon:
\* that one has the space of now and the time of the last warning.
Noted(s, v) ==
  [free |-> s.free[v], known |-> TRUE,
   time |-> IF Verdict(s, v) = "warn" THEN s.minute ELSE s.hash[v].time]

\* ldsm_maybe_warn_mounts: in the order of fstab, up to the first warning.
MaybeWarnMounts(s) ==
  LET low     == {i \in DOMAIN Fstab : Fstab[i] \in Checked(s) /\ ~HasSpace(s, Fstab[i])}
      warn    == {i \in low : Verdict(s, Fstab[i]) = "warn"}
      reached == {Fstab[i] : i \in {k \in low : \A j \in warn : k <= j}}
      noted   == {v \in reached : Verdict(s, v) # "leave"}
      t       == [s EXCEPT !.hash = [v \in Volumes |-> IF v \in noted THEN Noted(s, v) ELSE @[v]]]
  IN IF warn = {} THEN t ELSE LdsmNotify(t, Fstab[Min(warn)])

\* ldsm_check_all_mounts: the entry of a volume that has space again goes.
ForgetRecovered(s) ==
  [s EXCEPT !.hash = [v \in Volumes |-> IF v \in Checked(s) /\ HasSpace(s, v) THEN NoEntry ELSE @[v]]]

LdsmCheckAllMounts(s) == MaybeWarnMounts(ForgetRecovered(s))

\* gsd_ldsm_get_config, as far as it is about warnings.
GetConfig(s) ==
  [s EXCEPT !.ignore_paths = s.ignore,
            !.hash = [v \in Volumes |-> IF v \in s.ignore THEN NoEntry ELSE @[v]]]

\* gsd_ldsm_setup, with check_now FALSE.
DkInit ==
  \E may \in DkWorlds, free \in [Volumes -> {0, FullSpace}], mounted, ignore \in SUBSET Volumes :
   /\ "mounts" \notin may => mounted = Volumes
   /\ "ignore" \notin may => ignore = {}
   /\ dk = [may |-> may, free |-> free, mounted |-> mounted, mounts_changed |-> FALSE,
             ignore |-> ignore, ignore_paths |-> ignore, hash |-> [v \in Volumes |-> NoEntry],
             notification |-> "none", minute |-> 0, shown |-> [v \in Volumes |-> 0],
             warned |-> {}]

\* The timer, each minute.
CheckTimer ==
  /\ dk.minute < MaxMinutes
  /\ dk' = LdsmCheckAllMounts([dk EXCEPT !.minute = @ + 1])

\* ldsm_mounts_changed, which starts the timer again.
MountsChanged ==
  /\ dk.mounts_changed
  /\ dk' = LdsmCheckAllMounts(
             [dk EXCEPT !.mounts_changed = FALSE,
                        !.hash = [v \in Volumes |-> IF v \in dk.mounted THEN @[v] ELSE NoEntry]])

\* gsd_ldsm_update_config
UpdateConfig == dk.ignore # dk.ignore_paths /\ dk' = GetConfig(dk)

\* on_notification_closed: by the user, by itself, or after one of its actions.
DkNotificationClosed == dk.notification # "none" /\ dk' = [dk EXCEPT !.notification = "none"]

\* The disks and the settings.
SpaceChanges(v) ==
  /\ v \in dk.may
  /\ \E free \in 0 .. FullSpace \ {dk.free[v]} : dk' = [dk EXCEPT !.free[v] = free]
MountOrUnmount(v) ==
  /\ {"mounts", v} \subseteq dk.may
  /\ dk' = [dk EXCEPT !.mounts_changed = TRUE, !.mounted = IF v \in @ THEN @ \ {v} ELSE @ \cup {v}]
IgnoreToggled(v) ==
  /\ {"ignore", v} \subseteq dk.may
  /\ dk' = [dk EXCEPT !.ignore = IF v \in @ THEN @ \ {v} ELSE @ \cup {v}]

DkNext ==
  \/ CheckTimer
  \/ MountsChanged
  \/ UpdateConfig
  \/ DkNotificationClosed
  \/ \E v \in Volumes : \/ SpaceChanges(v)
                        \/ MountOrUnmount(v)
                        \/ IgnoreToggled(v)

-------------------------------------------------------------------------------
\* "Subsequent warnings for a volume will not appear more often than this
\* period" (min-notify-period of the schema), of every two warnings.
WarnsAgain(v) == v \in dk.warned /\ dk.notification = "none" /\ dk'.notification = v
WarningsKeepPeriod ==
  [][\A v \in Volumes : WarnsAgain(v) => dk'.minute > dk.shown[v] + MinNotifyPeriod]_dk

\* The same of a volume that stays low: while it has an entry, it is warned
\* about again only when the period has passed since the last time it was.
RepeatsWait ==
  \A v \in Volumes : WarnsAgain(v) /\ dk.hash[v].known
                       => dk'.minute > dk.shown[v] + MinNotifyPeriod
==============================================================================
