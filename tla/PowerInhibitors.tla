--------------------------- MODULE PowerInhibitors ---------------------------
(***************************************************************************)
(* The two inhibitors gsd-power holds at logind (gsd-power-manager.c): a   *)
(* block inhibitor on the lid switch, taken for a few seconds after every  *)
(* change of the screens or the session and kept while an external monitor *)
(* is in use, and a delay inhibitor on sleep, held whenever the machine is *)
(* awake.  Each Inhibit call is asynchronous: its reply brings the file    *)
(* descriptor that keeps the inhibitor, closing it releases it.            *)
(***************************************************************************)
EXTENDS Naturals

VARIABLES
  session_is_active,  \* the session, which the idle machine follows as well
  sleeping,           \* between logind's two PrepareForSleep signals
  inh                 \* the fields of GsdPowerManager, and logind's replies

ivars == <<session_is_active, sleeping, inh>>

\* An inhibitor: the descriptor, the taken flag, a call without a reply, and
\* (for the properties) whether logind ever refused a call.
Slot == [fd : BOOLEAN, taken : BOOLEAN, pending : BOOLEAN, refused : BOOLEAN]

\* timer: the LID_CLOSE_SAFETY_TIMEOUT runs; external: an external monitor is
\* in use; prompt: logind answers sooner than that timeout, in this behaviour.
Inhs == [lid : Slot, suspend : Slot, timer : BOOLEAN, external : BOOLEAN, prompt : BOOLEAN]

InhTypeOK == session_is_active \in BOOLEAN /\ sleeping \in BOOLEAN /\ inh \in Inhs

Free == [fd |-> FALSE, taken |-> FALSE, pending |-> FALSE, refused |-> FALSE]

\* inhibit_lid_switch and inhibit_suspend: nothing when already taken, which
\* a call that failed still is.
Inhibit(slot) ==
  IF slot.taken THEN slot ELSE [slot EXCEPT !.taken = TRUE, !.pending = TRUE]

\* uninhibit_lid_switch and uninhibit_suspend: nothing without a descriptor,
\* even when one is on its way.
Uninhibit(slot) ==
  IF slot.fd THEN [slot EXCEPT !.fd = FALSE, !.taken = FALSE] ELSE slot

\* inhibit_lid_switch_done and inhibit_suspend_done.
Replied(slot, granted) ==
  [slot EXCEPT !.pending = FALSE, !.fd = @ \/ granted, !.refused = @ \/ ~granted]

SuspendOnLidClose == ~inh.external \/ ~session_is_active

\* sync_lid_inhibitor: grab it, and let the restarted timer decide.
SyncLid(i) == [i EXCEPT !.lid = Inhibit(@), !.timer = TRUE]

\* gsd_power_manager_startup.
InhInit ==
  /\ session_is_active \in BOOLEAN
  /\ sleeping = FALSE
  /\ \E external, prompt \in BOOLEAN :
       inh = SyncLid([lid |-> Free, suspend |-> Inhibit(Free),
                      timer |-> FALSE, external |-> external, prompt |-> prompt])

\* engine_session_properties_changed_cb, the inhibitors' part.
SessionSwitched ==
  /\ session_is_active' \in BOOLEAN
  /\ inh' = SyncLid(inh)
  /\ UNCHANGED sleeping

\* has_external_monitor_changed.
MonitorChanged ==
  /\ inh' = SyncLid([inh EXCEPT !.external = ~@])
  /\ UNCHANGED <<session_is_active, sleeping>>

\* Mistake: the timer does not look at the monitors again.
LidTimerReleases ==
  /\ inh.timer
  /\ inh.prompt => ~inh.lid.pending
  /\ inh' = [inh EXCEPT !.timer = FALSE, !.lid = Uninhibit(@)]
  /\ UNCHANGED <<session_is_active, sleeping>>

\* inhibit_lid_switch_timer_cb, LID_CLOSE_SAFETY_TIMEOUT after the last change.
LidTimerFires ==
  /\ inh.timer
  /\ inh.prompt => ~inh.lid.pending
  /\ inh' = [inh EXCEPT !.timer = FALSE,
                        !.lid = IF SuspendOnLidClose THEN Uninhibit(@) ELSE @]
  /\ UNCHANGED <<session_is_active, sleeping>>

LidReply ==
  /\ inh.lid.pending
  /\ \E granted \in BOOLEAN : inh' = [inh EXCEPT !.lid = Replied(@, granted)]
  /\ UNCHANGED <<session_is_active, sleeping>>

SuspendReply ==
  /\ inh.suspend.pending
  /\ \E granted \in BOOLEAN : inh' = [inh EXCEPT !.suspend = Replied(@, granted)]
  /\ UNCHANGED <<session_is_active, sleeping>>

\* logind_proxy_signal_cb: PrepareForSleep.
SuspendActions ==
  /\ ~sleeping /\ sleeping' = TRUE
  /\ inh' = [inh EXCEPT !.suspend = Uninhibit(@)]
  /\ UNCHANGED session_is_active

ResumeActions ==
  /\ sleeping /\ sleeping' = FALSE
  /\ inh' = [inh EXCEPT !.suspend = Inhibit(@)]
  /\ UNCHANGED session_is_active

InhNext ==
  \/ SessionSwitched \/ MonitorChanged
  \/ LidTimerFires \/ LidReply \/ SuspendReply
  \/ SuspendActions \/ ResumeActions

InhSpec == InhInit /\ [][InhNext]_ivars

-------------------------------------------------------------------------------
(* Properties.                                                             *)

\* Closing the lid of a docked laptop does not suspend it: while an external
\* monitor is in use in the active session, the daemon holds the lid switch
\* inhibitor or has asked for it, however monitors, session switches and late
\* replies follow each other (unless logind refused).
MonitorKeepsAwake ==
  inh.external /\ session_is_active /\ ~inh.lid.refused
    => inh.lid.fd \/ inh.lid.pending

\* An undocked laptop suspends when its lid is closed: an inhibitor that is
\* not wanted any more has the timer that will release it.  This is so when
\* logind answers before the timer fires; a later reply is never released.
NoForgottenInhibitor ==
  inh.prompt /\ SuspendOnLidClose /\ (inh.lid.fd \/ inh.lid.pending) => inh.timer

\* The screen can be locked before the machine sleeps: awake, the daemon holds
\* the delay inhibitor or has asked for it (unless logind refused), and no
\* descriptor is ever overwritten by the reply to a second call.
SuspendIsDelayed ==
  /\ ~sleeping /\ ~inh.suspend.refused => inh.suspend.fd \/ inh.suspend.pending
  /\ ~(inh.suspend.fd /\ inh.suspend.pending) /\ ~(inh.lid.fd /\ inh.lid.pending)
==============================================================================
