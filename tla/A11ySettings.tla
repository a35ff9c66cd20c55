----------------------------- MODULE A11ySettings -----------------------------
(***************************************************************************)
(* gsd-a11y-settings: the screen reader is a systemd unit that follows a   *)
(* setting; where it cannot be started the daemon runs Orca by itself.     *)
(***************************************************************************)
EXTENDS Naturals, Sequences, SequencesExt

CONSTANTS
  MaxAyCalls,    \* bound: calls and answers on their way
  HaveSystemd    \* {TRUE}, {FALSE} or both: what gnome_settings_have_systemd finds

VARIABLE ay

AyApps == {"reader", "keyboard", "magnifier"}
AyJobs == [running : BOOLEAN, cancelled : BOOLEAN, ok : BOOLEAN]

AyTypeOK ==
  /\ ay.systemd \in BOOLEAN /\ ay.started \in BOOLEAN
  /\ ay.apps \subseteq AyApps /\ ay.changed \subseteq AyApps /\ ay.toolkit \in BOOLEAN
  /\ ay.calls \in Seq(AyJobs) /\ ay.replies \in Seq(AyJobs)
  /\ ay.unit \in BOOLEAN /\ ay.linked \in BOOLEAN
  /\ ay.fallback_orca \in {"none", "alive", "dead"}

-------------------------------------------------------------------------------
\* kill_fallback_orca; a process that is gone is only warned of.
KillFallbackOrca(s) == [s EXCEPT !.fallback_orca = "none"]

Cancelled(jobs) == [i \in DOMAIN jobs |-> [jobs[i] EXCEPT !.cancelled = TRUE]]

\* gnome_settings_systemd_manage_unit, with change_enabled: StartUnit and
\* EnableUnitFiles, or their opposites, are sent; without systemd the task
\* fails at once.
ManageUnit(s, running) ==
  LET job == [running |-> running, cancelled |-> FALSE, ok |-> FALSE]
  IN IF s.systemd THEN [s EXCEPT !.calls = Append(@, job)]
     ELSE [s EXCEPT !.replies = Append(@, job)]

\* manage_orca: cancelling hides the answer, the call is made all the same.
ManageOrca(s, enabled) ==
  ManageUnit([KillFallbackOrca(s) EXCEPT !.calls = Cancelled(@), !.replies = Cancelled(@)], enabled)

\* Mistake: the answer of a call that was cancelled counts as a failure too.
UnitStartStopAnswered(s, job) ==
  {s} \cup (IF job.running /\ (~job.ok \/ job.cancelled)
            THEN {[s EXCEPT !.fallback_orca = "alive"]} ELSE {})

\* unit_start_stop_cb and spawn_fallback_orca, which may fail as well; a task
\* that was cancelled ends as cancelled whatever its call has answered.
UnitStartStop(s, job) ==
  {s} \cup (IF job.running /\ ~job.ok /\ ~job.cancelled
            THEN {[s EXCEPT !.fallback_orca = "alive"]} ELSE {})

AyInit ==
  \E systemd \in HaveSystemd, apps \in SUBSET AyApps, toolkit, unit \in BOOLEAN :
    ay = [systemd |-> systemd, started |-> FALSE, apps |-> apps, changed |-> {},
          toolkit |-> toolkit, calls |-> <<>>, replies |-> <<>>, unit |-> unit /\ systemd,
          linked |-> unit, fallback_orca |-> "none"]

AyMayCall == Len(ay.calls) + Len(ay.replies) < MaxAyCalls

\* gsd_a11y_settings_manager_startup: the toolkits are only ever switched on.
AyStartup ==
  /\ ~ay.started /\ AyMayCall
  /\ ay' = [ManageOrca(ay, "reader" \in ay.apps) EXCEPT !.started = TRUE,
                                                        !.toolkit = @ \/ ay.apps # {}]

\* apps_settings_changed, which reads the settings as they are by now.
AppsSettingsChanged(key) ==
  /\ key \in ay.changed /\ (key = "reader" => AyMayCall)
  /\ LET s == [ay EXCEPT !.changed = @ \ {key}, !.toolkit = ay.apps # {}]
     IN ay' = IF key = "reader" THEN ManageOrca(s, "reader" \in s.apps) ELSE s

\* The user turns an assistive technology on or off.
AppToggled(key) ==
  /\ ay.started
  /\ ay' = [ay EXCEPT !.apps = IF key \in @ THEN @ \ {key} ELSE @ \cup {key}, !.changed = @ \cup {key}]

\* systemd starts or stops the unit and enables or disables it, or fails to.
SystemdRuns ==
  /\ ay.calls # <<>>
  /\ \E ok, linked \in BOOLEAN :
       LET job == Head(ay.calls)
           s   == [ay EXCEPT !.calls = Tail(@), !.replies = Append(@, [job EXCEPT !.ok = ok]),
                             !.linked = IF linked THEN job.running ELSE @]
       IN ay' = IF ok THEN [s EXCEPT !.unit = job.running]
                ELSE [s EXCEPT !.unit = @ /\ ~job.running]

\* start_stop_cb ends the task of a call.
UnitAnswered ==
  /\ ay.replies # <<>>
  /\ ay' \in UnitStartStop([ay EXCEPT !.replies = Tail(@)], Head(ay.replies))

\* Orca ends by itself: systemd knows of its own, the daemon not of its child.
OrcaExits ==
  \/ ay.unit /\ ay' = [ay EXCEPT !.unit = FALSE]
  \/ ay.fallback_orca = "alive" /\ ay' = [ay EXCEPT !.fallback_orca = "dead"]

\* gsd_a11y_settings_manager_shutdown; what is under way answers nobody.
AyShutdown ==
  /\ ay.started
  /\ ay' = [KillFallbackOrca(ay) EXCEPT !.started = FALSE, !.changed = {}, !.replies = <<>>,
                                        !.calls = Cancelled(@)]

AyNext ==
  \/ AyStartup
  \/ \E key \in AyApps : AppsSettingsChanged(key) \/ AppToggled(key)
  \/ SystemdRuns
  \/ UnitAnswered
  \/ OrcaExits
  \/ AyShutdown

-------------------------------------------------------------------------------
\* The Orca of the daemon runs only while the screen reader is wanted, and
\* never beside the one of systemd: once the daemon has seen the setting, an
\* answer to a call it has cancelled brings no screen reader back.
FallbackOnlyWhenWanted ==
  ay.fallback_orca # "none" /\ "reader" \notin ay.changed => "reader" \in ay.apps /\ ~ay.unit
==============================================================================
