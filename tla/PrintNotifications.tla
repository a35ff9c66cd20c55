-------------------------- MODULE PrintNotifications --------------------------
(***************************************************************************)
(* gsd-print-notifications: a subscription at the CUPS server, of which the *)
(* daemon reads the events one batch at a time, and what it shows for them: *)
(* jobs, and troubles of the printers that are printing.  A batch is worked  *)
(* through with blocking requests while the server goes on, so that what is  *)
(* asked about a printer may be newer than the event that is being handled.  *)
(***************************************************************************)
EXTENDS Integers, Sequences, SequencesExt, FiniteSets

CONSTANTS
  Printers,
  Jobs,                 \* of the user, each on one printer
  PrinterOf,            \* [Jobs -> Printers]
  Troubles,             \* reasons that are shown at once
  RenewInterval,        \* RENEW_INTERVAL and SUBSCRIPTION_DURATION: 3500 and 3600 s
  SubscriptionDuration,
  MaxPrintEvents,       \* bound: what the server tells in a behaviour
  MaxTests,             \* bound: connection tests
  PnWorlds              \* bound: the happenings of a behaviour are from one of these sets

VARIABLE pn

Connecting == "connecting-to-device"
Reasons    == Troubles \cup {Connecting}
JobStates  == {"none", "held", "processing", "stopped", "canceled", "aborted", "completed"}
NoReasons  == {"missing"}   \* printer_state_reasons is NULL: the event has none
Off        == -1
PnEvents ==
  [event : {"printer-state-changed"}, printer : Printers, reasons : (SUBSET Reasons) \cup {NoReasons}]
    \cup [event : {"job-created", "job-state-changed", "job-completed"}, job : Jobs, state : JobStates]
    \cup [event : {"printer-added", "printer-deleted"}, printer : Printers]

PnTypeOK ==
  /\ pn.may \in PnWorlds /\ pn.phase \in {"starting", "running", "stopped", "crashed"}
  /\ pn.local \in BOOLEAN
  \* the server
  /\ pn.up \in BOOLEAN /\ pn.lease \in Off .. SubscriptionDuration /\ pn.log \in Seq(PnEvents)
  /\ pn.installed \subseteq Printers /\ pn.reasons \in [Printers -> SUBSET Reasons]
  /\ pn.jobs \in [Jobs -> JobStates]
  \* the daemon
  /\ pn.subscription_id \in {-1, 1} /\ pn.renew_source \in Off .. RenewInterval
  /\ pn.check_sources \in 0 .. MaxTests /\ pn.cups_connection_timeout \in BOOLEAN
  /\ pn.tests \in 0 .. MaxTests /\ pn.tested \in 0 .. MaxTests /\ pn.renewing \in BOOLEAN
  /\ pn.dests \in [Printers -> (SUBSET Reasons) \cup {{"absent"}}]
  /\ pn.last_notify_sequence_number \in 0 .. MaxPrintEvents
  /\ pn.handled \in 0 .. pn.last_notify_sequence_number
  /\ pn.printing_printers \subseteq Printers /\ pn.held_jobs \in Seq(Jobs)
  /\ pn.timeouts \in [Printers -> Nat]
  /\ pn.active_notifications \in Seq([printer : Printers, reason : Reasons])
  /\ pn.scp_handler_spawned \in BOOLEAN

-------------------------------------------------------------------------------
(* process_cups_notification                                               *)

\* cupsGetDests: what the server says now; one that is away has no printers.
GetDests(s) ==
  [s EXCEPT !.dests = [p \in Printers |->
                         IF s.up /\ p \in s.installed THEN s.reasons[p] ELSE {"absent"}]]

\* Mistake: only a printer that prints has its timeout looked for.
StopConnectingPrinting(s, e) ==
  IF Connecting \in e.reasons \/ e.printer \notin s.printing_printers \/ s.timeouts[e.printer] = 0 THEN s
  ELSE [s EXCEPT !.timeouts[e.printer] = @ - 1]

\* The timeout of the first warning about the printer is dropped when it no
\* longer says that it is connecting.
StopConnecting(s, e) ==
  IF Connecting \in e.reasons \/ s.timeouts[e.printer] = 0 THEN s
  ELSE [s EXCEPT !.timeouts[e.printer] = @ - 1]

\* The notifications of reasons that have gone are closed, those of every printer
\* when the event names no reasons.  The loop steps over the one that follows a
\* notification it has closed.
CloseNotifications(s, e) ==
  LET active  == s.active_notifications
      Stale(n) == e.reasons = NoReasons \/ (n.printer = e.printer /\ n.reason \notin e.reasons)
      kept[i \in 1 .. Len(active) + 2] ==
        IF i > Len(active) THEN <<>>
        ELSE IF Stale(active[i]) /\ i = Len(active) THEN <<>>
        ELSE IF Stale(active[i]) THEN <<active[i + 1]>> \o kept[i + 2]
        ELSE <<active[i]>> \o kept[i + 1]
  IN [s EXCEPT !.active_notifications = IF active = <<>> THEN @ ELSE kept[1]]

\* What is new of a printer that prints; a printer that was deleted leaves
\* tmp_printer_state_reasons pointing into what was freed.
ShowReasons(s, printer) ==
  IF printer \notin s.printing_printers THEN {s}
  ELSE LET fetched == GetDests(s)
           added == fetched.dests[printer] \ s.dests[printer]
           troubles == SetToSeq({[printer |-> printer, reason |-> r] : r \in added \cap Troubles})
       IN IF fetched.dests[printer] = {"absent"}
          THEN {fetched} \cup IF s.dests[printer] = {"absent"} THEN {} ELSE {[fetched EXCEPT !.phase = "crashed"]}
          ELSE {[fetched EXCEPT
                   !.timeouts[printer] = IF Connecting \in added THEN @ + 1 ELSE @,
                   !.active_notifications = @ \o troubles]}

PrinterStateChanged(s, e) == ShowReasons(CloseNotifications(StopConnecting(s, e), e), e.printer)

\* A job is held: in three seconds it is asked whether it waits for a password.
JobStateChanged(s, e) ==
  LET printer == PrinterOf[e.job]
  IN CASE e.state = "processing" -> [s EXCEPT !.printing_printers = @ \cup {printer}]
       [] e.event = "job-completed" \/ e.state \in {"stopped", "canceled", "aborted", "completed"} ->
            [s EXCEPT !.printing_printers = @ \ {printer}]
       [] e.event = "job-state-changed" /\ e.state = "held" -> [s EXCEPT !.held_jobs = Append(@, e.job)]
       [] OTHER -> s

ProcessCupsNotification(s, e) ==
  CASE e.event = "printer-state-changed" -> PrinterStateChanged(s, e)
    [] e.event \in {"printer-added", "printer-deleted"} -> {GetDests(s)}
    [] OTHER -> {JobStateChanged(s, e)}

-------------------------------------------------------------------------------
(* The subscription.                                                       *)

\* Mistake: there is nothing to do once there is a subscription.
RenewSubscriptionOnce(s) ==
  IF ~s.up \/ s.subscription_id >= 0 THEN s
  ELSE [s EXCEPT !.lease = SubscriptionDuration, !.subscription_id = 1]

\* renew_subscription.  What the server answers to a renewal is not looked at:
\* of a subscription it has forgotten there is nothing to extend.
RenewSubscription(s) ==
  IF ~s.up THEN s
  ELSE IF s.subscription_id >= 0 THEN [s EXCEPT !.lease = IF @ = Off THEN Off ELSE SubscriptionDuration]
  ELSE [s EXCEPT !.lease = SubscriptionDuration, !.subscription_id = 1]

\* renew_subscription_timeout_enable
RenewTimeoutEnable(s) == [RenewSubscription(s) EXCEPT !.renew_source = RenewInterval]

\* cups_connection_test: while there are no printers a test is begun each time.
ConnectionTest(s) ==
  IF s.dests # [p \in Printers |-> {"absent"}] THEN [s EXCEPT !.cups_connection_timeout = FALSE]
  ELSE [s EXCEPT !.tests = @ + 1, !.tested = @ + 1]

\* cups_connection_test_cb
ConnectionTested(s, connected) ==
  LET over == [s EXCEPT !.tests = @ - 1]
  IN IF connected THEN [RenewTimeoutEnable(GetDests(over)) EXCEPT !.check_sources = @ + 1]
     ELSE [over EXCEPT !.cups_connection_timeout = TRUE]

\* cancel_subscription
CancelSubscription(s) ==
  [s EXCEPT !.subscription_id = -1, !.lease = IF s.up /\ s.subscription_id >= 0 THEN Off ELSE @]

\* scp_handler, which starts gsd-printer or tells it to end.
ScpHandler(s, start) == [s EXCEPT !.scp_handler_spawned = start]

-------------------------------------------------------------------------------
(* The daemon.  While it works through a batch it does nothing else.       *)

PnInit ==
  \E may \in PnWorlds, local \in BOOLEAN :
    pn = [may |-> may, phase |-> "starting", local |-> local, up |-> TRUE, lease |-> Off, log |-> <<>>,
          installed |-> Printers, reasons |-> [p \in Printers |-> {}], jobs |-> [j \in Jobs |-> "none"],
          subscription_id |-> -1, renew_source |-> Off, check_sources |-> 0,
          cups_connection_timeout |-> FALSE, tests |-> 0, tested |-> 0, renewing |-> FALSE,
          dests |-> [p \in Printers |-> {"absent"}], last_notify_sequence_number |-> 0, handled |-> 0,
          printing_printers |-> {}, held_jobs |-> <<>>,
          timeouts |-> [p \in Printers |-> 0], active_notifications |-> <<>>,
          scp_handler_spawned |-> FALSE]

Running == pn.phase = "running" /\ pn.handled = pn.last_notify_sequence_number

\* gsd_print_notifications_manager_start_idle
StartIdle ==
  /\ pn.phase = "starting"
  /\ LET started == ScpHandler([pn EXCEPT !.phase = "running"], TRUE)
     IN pn' = IF pn.local THEN RenewTimeoutEnable(IF pn.up THEN GetDests(started) ELSE started)
              ELSE ConnectionTest(started)

\* process_new_notifications, for a D-Bus signal of a local server or from a
\* timeout: the events since the last one that was read.
ProcessNewNotifications ==
  /\ Running /\ pn.up /\ pn.lease # Off
  /\ pn.local \/ pn.check_sources > 0
  /\ Len(pn.log) > pn.last_notify_sequence_number
  /\ pn' = [pn EXCEPT !.last_notify_sequence_number = Len(pn.log)]

ProcessNotification ==
  /\ pn.phase = "running" /\ pn.handled < pn.last_notify_sequence_number
  /\ pn' \in ProcessCupsNotification([pn EXCEPT !.handled = @ + 1], pn.log[pn.handled + 1])

\* show_notification: the printer has been connecting for a minute.
ShowNotification ==
  /\ Running
  /\ \E p \in Printers :
       /\ pn.timeouts[p] > 0
       /\ pn' = [pn EXCEPT !.timeouts[p] = @ - 1,
                           !.active_notifications = Append(@, [printer |-> p, reason |-> Connecting])]

\* notification_closed_cb
NotificationClosed ==
  /\ Running /\ "jobs" \in pn.may
  /\ \E i \in DOMAIN pn.active_notifications :
       pn' = [pn EXCEPT !.active_notifications = RemoveAt(@, i)]

\* check_job_for_authentication: the timeout of one job looks at the oldest.
CheckHeldJob == Running /\ pn.held_jobs # <<>> /\ pn' = [pn EXCEPT !.held_jobs = Tail(@)]

\* cups_connection_test from its timeout, and the answer of a test.
RetryConnection ==
  /\ Running /\ pn.cups_connection_timeout /\ pn.tested < MaxTests
  /\ pn' = ConnectionTest(pn)
ConnectionAnswers == Running /\ pn.tests > 0 /\ pn' = ConnectionTested(pn, pn.up)

\* renew_subscription from its timeout, of a remote server after
\* renew_subscription_with_connection_test has reached it.
RenewDue ==
  /\ Running /\ pn.renew_source = 0
  /\ LET again == [pn EXCEPT !.renew_source = RenewInterval]
     IN pn' = IF pn.local THEN RenewSubscription(again) ELSE [again EXCEPT !.renewing = TRUE]
RenewTested ==
  /\ Running /\ pn.renewing
  /\ pn' = RenewSubscription([pn EXCEPT !.renewing = FALSE])

\* gsd_print_notifications_manager_shutdown
PnShutdown ==
  /\ Running /\ "time" \in pn.may
  /\ pn' = ScpHandler([CancelSubscription(pn) EXCEPT
                          !.phase = "stopped", !.renew_source = Off, !.check_sources = 0,
                          !.printing_printers = {}, !.timeouts = [p \in Printers |-> 0],
                          !.active_notifications = <<>>, !.held_jobs = <<>>], FALSE)

-------------------------------------------------------------------------------
(* The server.                                                             *)

Tell(s, e) == IF s.lease = Off THEN s ELSE [s EXCEPT !.log = Append(@, e)]

ServerActs ==
  /\ "jobs" \in pn.may /\ pn.phase = "running" /\ Len(pn.log) < MaxPrintEvents
  /\ \/ \E p \in pn.installed, reasons \in SUBSET Reasons :
          /\ reasons # pn.reasons[p]
          /\ \E told \in {reasons} \cup (IF "no_reasons" \in pn.may THEN {NoReasons} ELSE {}) :
               pn' = Tell([pn EXCEPT !.reasons[p] = reasons],
                          [event |-> "printer-state-changed", printer |-> p, reasons |-> told])
     \/ \E j \in Jobs, state \in {"held", "processing"} :
          /\ pn.jobs[j] \in {"none", "held"} /\ state # pn.jobs[j]
          /\ pn' = Tell([pn EXCEPT !.jobs[j] = state],
                        [event |-> IF pn.jobs[j] = "none" THEN "job-created" ELSE "job-state-changed",
                         job |-> j, state |-> state])
     \/ \E j \in Jobs, state \in {"stopped", "completed"} :
          /\ pn.jobs[j] = "processing"
          /\ pn' = Tell([pn EXCEPT !.jobs[j] = state],
                        [event |-> IF state = "stopped" THEN "job-state-changed" ELSE "job-completed",
                         job |-> j, state |-> state])
     \/ \E p \in Printers, there \in BOOLEAN :
          /\ "printers" \in pn.may /\ there # (p \in pn.installed)
          /\ pn' = Tell([pn EXCEPT !.installed = IF there THEN @ \cup {p} ELSE @ \ {p}],
                        [event |-> IF there THEN "printer-added" ELSE "printer-deleted", printer |-> p])

\* Time passes for whoever waits for it; a due renewal is not waited with
\* unless the machine sleeps, which stops the daemon's clock only.
Passed(n) == IF n = Off THEN Off ELSE IF n = 0 THEN 0 ELSE n - 1
Tick ==
  /\ "time" \in pn.may /\ pn.renew_source # 0 /\ ~pn.renewing
  /\ pn' = [pn EXCEPT !.renew_source = Passed(@), !.lease = IF @ = 0 THEN Off ELSE Passed(@)]
MachineSleeps ==
  /\ "sleep" \in pn.may /\ pn.lease > 0
  /\ pn' = [pn EXCEPT !.lease = Off]

\* The server may be away; subscriptions survive that.
ServerLeaves  == "outage" \in pn.may /\ pn.up /\ pn' = [pn EXCEPT !.up = FALSE]
ServerReturns == ~pn.up /\ pn' = [pn EXCEPT !.up = TRUE]

PnNext ==
  \/ StartIdle \/ ProcessNewNotifications \/ ProcessNotification \/ ShowNotification
  \/ NotificationClosed \/ CheckHeldJob \/ RetryConnection \/ ConnectionAnswers \/ RenewDue
  \/ RenewTested \/ PnShutdown \/ ServerActs \/ Tick \/ MachineSleeps \/ ServerLeaves \/ ServerReturns

PnSpec == PnInit /\ [][PnNext]_pn

-------------------------------------------------------------------------------
(* Properties                                                              *)

CaughtUp == Running /\ pn.last_notify_sequence_number = Len(pn.log) /\ pn.lease # Off

\* When every event of the server has been worked through, a warning that is
\* about to be shown, that a printer may not be connected, is about a printer
\* that is still connecting, and there is one for a printer: though the
\* troubles of a printer are read when an event is handled, which may be
\* before or after the change the event is about.  A printer that was not
\* there when they were read is warned of again when it is back: the property
\* is about printers and a server that stay.
ConnectingIsWithdrawn ==
  CaughtUp /\ pn.may \cap {"printers", "outage"} = {} =>
    \A p \in Printers : /\ pn.timeouts[p] > 0 => Connecting \in pn.reasons[p]
                        /\ pn.timeouts[p] <= 1

\* While server and machine stay up the server keeps the subscription: it is
\* renewed before its time has run out.
SubscriptionIsKept ==
  pn.phase = "running" /\ pn.subscription_id >= 0 /\ pn.may \cap {"sleep", "outage"} = {} => pn.lease # Off
=============================================================================
