-------------------------------- MODULE Rfkill --------------------------------
(***************************************************************************)
(* gsd-rfkill: airplane mode.  rfkill-glib.c writes "change all" events to *)
(* /dev/rfkill and reads the kernel's events from it, the manager keeps a  *)
(* table of kill switches and what NetworkManager and ModemManager say,    *)
(* and announces the airplane-mode properties computed from them.          *)
(***************************************************************************)
EXTENDS Naturals, Sequences, SequencesExt, FiniteSetsExt, FiniteSets

CONSTANTS
  Radios,         \* kill switches the kernel may have
  RadioType,      \* "bluetooth", "wwan" or "wlan", of each of them
  RfWorlds,       \* bound: in a behaviour, what one of these sets allows happens
  MaxRfEvents,    \* bound: kernel events not read yet
  MaxRfWrites     \* bound: writes to /dev/rfkill that wait for their callback

VARIABLE rf

\* RFKILL_STATE_*; "gone" is a switch that is not in the table.
States == {"gone", "unblocked", "soft", "hard"}

\* struct rfkill_event of a CHANGE_ALL: the type it is for and its soft byte.
ChangeAll == [type : {"all", "bluetooth", "wwan"}, soft : BOOLEAN]
NoTask    == [type |-> "none", soft |-> FALSE]

Write(event, again, refused) ==
  [event |-> event, again |-> again, cancelled |-> FALSE, refused |-> refused]

Properties == {"airplane", "hardware", "has", "bt", "bt_hardware", "bt_has",
               "wwan", "wwan_hardware", "wwan_has"}

RfTypeOK ==
  /\ rf.may \in RfWorlds
  /\ rf.kernel \in [Radios -> States] /\ rf.killswitches \in [Radios -> States]
  /\ \A i \in DOMAIN rf.events :
       rf.events[i] \in [radio : Radios, op : {"add", "change", "del"}, state : States]
  /\ rf.stream \in BOOLEAN /\ rf.task \in ChangeAll \cup {NoTask} /\ rf.timer \in BOOLEAN
  /\ \A i \in DOMAIN rf.writes :
       rf.writes[i] \in [event : ChangeAll, again : BOOLEAN, cancelled : BOOLEAN,
                         refused : BOOLEAN]
  /\ rf.noinput \in BOOLEAN /\ rf.noinput_fd \in BOOLEAN /\ rf.session_is_active \in BOOLEAN
  /\ rf.nm_client \in BOOLEAN /\ rf.nm \in {"away", "on", "off"}
  /\ rf.wwan_enabled \in BOOLEAN /\ rf.wwan_interesting \in BOOLEAN /\ rf.modem \in BOOLEAN
  /\ rf.nm_calls \in Seq(BOOLEAN)
  /\ rf.shown \in [Properties -> BOOLEAN]

-------------------------------------------------------------------------------
(* The properties.                                                         *)

\* killswitches, bt_killswitches or wwan_killswitches.
Table(s, type) ==
  {r \in Radios : s.killswitches[r] # "gone" /\ type \in {"all", RadioType[r]}}

\* engine_get_airplane_mode_helper
AllDown(s, type) == Table(s, type) # {} /\ \A r \in Table(s, type) : s.killswitches[r] # "unblocked"

\* engine_get_hardware_airplane_mode and its two siblings.
AllHard(s, type) == Table(s, type) # {} /\ \A r \in Table(s, type) : s.killswitches[r] = "hard"

AirplaneMode(s) == AllDown(s, "all") /\ (s.wwan_interesting => ~s.wwan_enabled)

WwanAirplaneMode(s) ==
  IF (Table(s, "wwan") = {} \/ AllDown(s, "wwan")) /\ s.wwan_interesting
  THEN ~s.wwan_enabled
  ELSE AllDown(s, "wwan")

\* What the getters answer.
Getters(s) ==
  [airplane      |-> AirplaneMode(s),
   hardware      |-> AllHard(s, "all"),
   has           |-> Table(s, "all") # {} \/ s.wwan_interesting,
   bt            |-> AllDown(s, "bluetooth"),
   bt_hardware   |-> AllHard(s, "bluetooth"),
   bt_has        |-> Table(s, "bluetooth") # {},
   wwan          |-> WwanAirplaneMode(s),
   wwan_hardware |-> AllHard(s, "wwan"),
   wwan_has      |-> Table(s, "wwan") # {} \/ s.wwan_interesting]

\* engine_properties_changed
Announce(s) == [s EXCEPT !.shown = Getters(s)]

-------------------------------------------------------------------------------
(* rfkill-glib.c: the writes.                                              *)

\* The stream takes one write at a time: one made before the callback of the
\* previous one is refused (G_IO_ERROR_PENDING).
Busy(s) == \E i \in DOMAIN s.writes : ~s.writes[i].refused

Affected(s, event) ==
  {r \in Radios : /\ s.kernel[r] \in {"unblocked", "soft"}
                  /\ event.type \in {"all", RadioType[r]}
                  /\ s.kernel[r] # IF event.soft THEN "soft" ELSE "unblocked"}

\* The kernel blocks or unblocks what the event is for, and says so.
KernelTakes(s, event) ==
  LET state == IF event.soft THEN "soft" ELSE "unblocked"
      told  == SetToSeq(Affected(s, event))
  IN [s EXCEPT !.kernel = [r \in Radios |-> IF r \in Affected(s, event) THEN state ELSE @[r]],
               !.events = @ \o [i \in DOMAIN told |->
                                  [radio |-> told[i], op |-> "change", state |-> state]]]

WriteAsync(s, event, again) ==
  LET queued == [s EXCEPT !.writes = Append(@, Write(event, again, Busy(s)))]
  IN IF Busy(s) THEN queued ELSE KernelTakes(queued, event)

\* cancel_current_task: what the callbacks of its writes find is a cancelled task.
CancelCurrentTask(s) ==
  [s EXCEPT !.task = NoTask, !.timer = FALSE,
            !.writes = [i \in DOMAIN @ |-> [@[i] EXCEPT !.cancelled = TRUE]]]

\* cc_rfkill_glib_send_change_all_event
SendChangeAll(s, event) ==
  IF ~s.stream THEN s
  ELSE WriteAsync([CancelCurrentTask(s) EXCEPT !.task = event], event, FALSE)

\* Mistake: a superseded write clears the task of its successor.
ClearTaskAlways(s, w) == [s EXCEPT !.task = NoTask]

\* The end of both callbacks: a cancelled task may have been superseded.
ClearTask(s, w) == IF w.cancelled THEN s ELSE [s EXCEPT !.task = NoTask]

\* write_change_all_done_cb and write_change_all_again_done_cb; a write that
\* was cancelled is reported as failed.
WriteDone(s, fails) ==
  LET w    == Head(s.writes)
      rest == [s EXCEPT !.writes = Tail(@)]
  IN IF w.again \/ w.refused \/ w.cancelled \/ fails \/ w.event.soft \/ w.event.type # "bluetooth"
     THEN ClearTask(rest, w)
     ELSE [rest EXCEPT !.timer = TRUE]

\* rfkill_changed: each event is put in the tables, the last of a radio stays.
RfkillChanged(s) ==
  [r \in Radios |->
     LET told == {i \in DOMAIN s.events : s.events[i].radio = r}
         last == s.events[Max(told)]
     IN IF told = {} THEN s.killswitches[r] ELSE IF last.op = "del" THEN "gone" ELSE last.state]

\* emit_changed_signal_and_free after rfkill_changed: the tables, the signal,
\* and the second write of a Bluetooth unblock.
EventsRead(s) ==
  LET seen   == Announce([s EXCEPT !.killswitches = RfkillChanged(s), !.events = <<>>])
      change == \E i \in DOMAIN s.events : s.events[i].op = "change"
  IN IF s.timer /\ change
     THEN [WriteAsync(seen, s.task, TRUE) EXCEPT !.timer = FALSE]
     ELSE seen

\* cc_rfkill_glib_set_rfkill_input_inhibited; opening the device may fail.
InhibitInput(s, inhibit, opens) ==
  IF ~s.stream THEN [s EXCEPT !.noinput = inhibit]
  ELSE IF inhibit /\ ~s.noinput_fd /\ ~opens THEN s
  ELSE [s EXCEPT !.noinput_fd = inhibit, !.noinput = inhibit]

-------------------------------------------------------------------------------
RfInit ==
  \E may \in RfWorlds, present \in SUBSET Radios :
    LET table == [r \in Radios |-> IF r \in present THEN "soft" ELSE "gone"]
        s == [may |-> may, kernel |-> table, killswitches |-> table, events |-> <<>>,
              stream |-> "late" \notin may, task |-> NoTask, timer |-> FALSE, writes |-> <<>>,
              noinput |-> TRUE, noinput_fd |-> "late" \notin may, session_is_active |-> TRUE,
              nm_client |-> FALSE, nm |-> "on", wwan_enabled |-> FALSE,
              wwan_interesting |-> FALSE, modem |-> FALSE, nm_calls |-> <<>>,
              shown |-> [p \in Properties |-> FALSE]]
    IN /\ "late" \in may => present = {}
       /\ rf = Announce(s)

Room == Len(rf.writes) < MaxRfWrites /\ Len(rf.events) + Cardinality(Radios) <= MaxRfEvents

\* engine_set_airplane_mode, engine_set_bluetooth_airplane_mode and
\* engine_set_wwan_airplane_mode; NetworkManager is told of the first and last.
SetAirplaneMode ==
  /\ Room /\ Len(rf.nm_calls) < MaxRfWrites
  /\ \E event \in ChangeAll :
       /\ event.type = "wwan" => "modem" \in rf.may
       /\ LET s == SendChangeAll(rf, event)
          IN rf' = IF rf.nm_client /\ event.type # "bluetooth"
                   THEN [s EXCEPT !.nm_calls = Append(@, ~event.soft)]
                   ELSE s

WriteCompletes ==
  /\ rf.writes # <<>>
  /\ \E fails \in BOOLEAN :
       /\ fails => "failures" \in rf.may
       /\ rf' = WriteDone(rf, fails)

\* write_change_all_timeout_cb: 500 ms without a change event.
WriteTimeout == rf.timer /\ rf' = [rf EXCEPT !.timer = FALSE, !.task = NoTask]

\* event_cb: everything there is to read.
ReadEvents ==
  /\ rf.stream /\ rf.events # <<>> /\ Len(rf.writes) < MaxRfWrites
  /\ rf' = EventsRead(rf)

\* A device appears, disappears, or is switched by hand or by another program.
KernelChange ==
  /\ "kernel" \in rf.may /\ rf.stream /\ Room
  /\ \E r \in Radios, state \in States :
       /\ state # rf.kernel[r]
       /\ rf' = [rf EXCEPT !.kernel[r] = state,
                           !.events = Append(@, [radio |-> r, state |-> state,
                                                 op |-> IF state = "gone" THEN "del"
                                                        ELSE IF rf.kernel[r] = "gone" THEN "add"
                                                        ELSE "change"])]

\* uevent_cb: /dev/rfkill is created after the daemon has started.
DeviceFileAppears ==
  /\ ~rf.stream
  /\ \E opens \in BOOLEAN : rf' = InhibitInput([rf EXCEPT !.stream = TRUE], rf.noinput, opens)

\* The binding of session-is-active to rfkill-input-inhibited.
SessionSwitches ==
  /\ "session" \in rf.may
  /\ \E opens \in BOOLEAN :
       rf' = InhibitInput([rf EXCEPT !.session_is_active = ~@], ~rf.session_is_active, opens)

\* sync_wwan_enabled: nothing is learned while NetworkManager is away.
SyncWwanEnabled(s) ==
  IF s.nm = "away" THEN s ELSE Announce([s EXCEPT !.wwan_enabled = (s.nm = "on")])

\* Mistake: a modem that comes or goes is not announced.
SyncWwanInterestingQuietly(s) == [s EXCEPT !.wwan_interesting = s.modem]

\* sync_wwan_interesting
SyncWwanInteresting(s) == Announce([s EXCEPT !.wwan_interesting = s.modem])

\* on_nm_proxy_gotten
NmProxyGotten ==
  /\ "modem" \in rf.may /\ ~rf.nm_client
  /\ rf' = SyncWwanEnabled([rf EXCEPT !.nm_client = TRUE])

\* NetworkManager handles our call, or changes, exits or starts by itself;
\* nm_properties_changed hears of a new value and not of the exit.
NmChanges ==
  /\ rf.nm_client
  /\ \/ /\ rf.nm_calls # <<>>
        /\ rf' = LET s == [rf EXCEPT !.nm_calls = Tail(@)]
                 IN IF s.nm = "away" THEN s
                    ELSE SyncWwanEnabled([s EXCEPT !.nm = IF Head(rf.nm_calls) THEN "on" ELSE "off"])
     \/ \E nm \in {"away", "on", "off"} \ {rf.nm} :
          rf' = SyncWwanEnabled([rf EXCEPT !.nm = nm])

\* ModemManager lists its first modem, or loses its last.
ModemChanges ==
  /\ "modem" \in rf.may
  /\ rf' = SyncWwanInteresting([rf EXCEPT !.modem = ~@])

RfNext ==
  \/ SetAirplaneMode
  \/ WriteCompletes
  \/ WriteTimeout
  \/ ReadEvents
  \/ KernelChange
  \/ DeviceFileAppears
  \/ SessionSwitches
  \/ NmProxyGotten
  \/ NmChanges
  \/ ModemChanges

-------------------------------------------------------------------------------
\* While the 500 ms timer runs there is a task, it is the newest request, and
\* it is a Bluetooth unblock whose first write is done: the timer and the
\* change event that re-sends the write both read through rfkill->task.
TimerHasTask ==
  rf.timer => /\ rf.task = [type |-> "bluetooth", soft |-> FALSE]
              /\ \A i \in DOMAIN rf.writes : rf.writes[i].cancelled

\* Every event has been read: what clients were last told is that airplane
\* mode is on only if no radio the kernel or NetworkManager can name is on.
AirplaneModeIsOff ==
  rf.events = <<>> /\ rf.shown.airplane =>
    /\ \A r \in Radios : rf.kernel[r] # "unblocked"
    /\ rf.modem /\ rf.nm_client => rf.nm # "on"
==============================================================================
