-------------------------------- MODULE Sharing --------------------------------
(***************************************************************************)
(* gsd-sharing: starts and stops user services through systemd.  The       *)
(* configurable ones run where the user has enabled them and the network   *)
(* is fit for sharing; the assigned one follows a system service, with a   *)
(* delay before it is stopped.                                             *)
(***************************************************************************)
CONSTANTS
  Services,       \* the configurable services
  Networks,       \* connections NetworkManager may make primary
  CarrierType,    \* of each: "wired", "wifi", "open_wifi", "mobile" or "missing"
  ShWorlds        \* bound: in a behaviour, what one of these sets allows happens

VARIABLE sh

Handover  == "handover"      \* gnome-remote-desktop-handover
NoNetwork == "none"
Units     == Services \cup {Handover}
Statuses  == {"offline", "available", "disabled_mobile_broadband", "disabled_low_security"}

ShTypeOK ==
  /\ sh.may \in ShWorlds /\ sh.running \in BOOLEAN
  /\ sh.client \in BOOLEAN /\ sh.connection \in BOOLEAN /\ sh.synced \in BOOLEAN
  /\ sh.primary \in Networks \cup {NoNetwork} /\ sh.current_network \in Networks \cup {NoNetwork}
  /\ sh.sharing_status \in Statuses /\ sh.shown \in Statuses
  /\ sh.enabled \in [Services -> SUBSET Networks]
  /\ sh.job \in [Units -> {"none", "start", "stop"}] /\ sh.unit \in [Units -> BOOLEAN]
  /\ sh.assigned \in BOOLEAN /\ sh.system_service \in BOOLEAN
  /\ sh.system_service_running \in BOOLEAN /\ sh.waiting \in BOOLEAN /\ sh.leftover \in BOOLEAN

-------------------------------------------------------------------------------
\* gnome_settings_systemd_manage_unit: a job replaces the one that is pending;
\* a call without a connection is lost.  leftover is a history variable: the
\* handover service runs that an earlier daemon started, and this one has not
\* asked for anything of it.
ManageUnit(s, unit, job) ==
  IF s.connection THEN [s EXCEPT !.job[unit] = job, !.leftover = @ /\ unit # Handover] ELSE s

\* service_is_enabled_on_current_connection, on a network that allows sharing.
ShouldBeStarted(s, service) ==
  s.sharing_status = "available" /\ s.current_network \in s.enabled[service]

\* gsd_sharing_manager_sync_configurable_services; synced is a history
\* variable: the last time, there was a connection.
SyncConfigurableServices(s) ==
  [s EXCEPT !.synced = s.connection,
            !.job = [u \in Units |-> IF u = Handover \/ ~s.connection THEN @[u]
                                     ELSE IF ShouldBeStarted(s, u) THEN "start" ELSE "stop"]]

StatusOn(network) ==
  IF network = NoNetwork THEN "offline"
  ELSE CASE CarrierType[network] = "missing"   -> "offline"
         [] CarrierType[network] = "mobile"    -> "disabled_mobile_broadband"
         [] CarrierType[network] = "open_wifi" -> "disabled_low_security"
         [] OTHER -> "available"

\* Mistake: leaving for a network without sharing does not stop the services.
PrimaryConnectionOnlyStarts(s) ==
  LET known == [s EXCEPT !.current_network = s.primary, !.sharing_status = StatusOn(s.primary)]
  IN IF StatusOn(s.primary) = "available" THEN SyncConfigurableServices(known)
     ELSE [known EXCEPT !.synced = s.connection]

\* primary_connection_changed, properties_changed included.
PrimaryConnectionChanged(s) ==
  LET status == StatusOn(s.primary)
  IN SyncConfigurableServices(
       [s EXCEPT !.current_network = s.primary, !.sharing_status = status,
                 !.shown = IF s.connection THEN status ELSE @])

\* start_assigned_service: the pending stop is cancelled.
StartAssignedService(s) == ManageUnit([s EXCEPT !.waiting = FALSE], Handover, "start")

ShInit ==
  \E may \in ShWorlds, network \in Networks \cup {NoNetwork}, left, leftover, assigned, service \in BOOLEAN,
     enabled \in SUBSET Networks :
    \* what a daemon that crashed has started is still running
    sh = [may |-> may, running |-> TRUE, client |-> FALSE, connection |-> FALSE, synced |-> FALSE,
          primary |-> network, current_network |-> NoNetwork, sharing_status |-> "offline",
          shown |-> "offline", enabled |-> [s \in Services |-> enabled],
          job |-> [u \in Units |-> "none"], unit |-> [u \in Units |-> IF u = Handover THEN leftover ELSE left],
          assigned |-> assigned, system_service |-> service,
          system_service_running |-> FALSE, waiting |-> FALSE, leftover |-> leftover]

\* nm_client_ready
NmClientReady ==
  /\ sh.running /\ ~sh.client
  /\ sh' = PrimaryConnectionChanged([sh EXCEPT !.client = TRUE])

\* on_bus_gotten, gsd_sharing_manager_start_assigned_services included: the
\* session bus may come before NetworkManager's client, or after it.
OnBusGotten == sh.running /\ ~sh.connection /\ sh' = [sh EXCEPT !.connection = TRUE]

PrimaryConnectionChanges ==
  /\ "network" \in sh.may
  /\ \E network \in (Networks \cup {NoNetwork}) \ {sh.primary} :
       sh' = IF sh.running /\ sh.client
             THEN PrimaryConnectionChanged([sh EXCEPT !.primary = network])
             ELSE [sh EXCEPT !.primary = network]

\* gsd_sharing_manager_enable_service
EnableService(service) ==
  /\ sh.running /\ sh.connection /\ "calls" \in sh.may /\ sh.sharing_status = "available"
  /\ sh' = ManageUnit([sh EXCEPT !.enabled[service] = @ \cup {sh.current_network}],
                      service, "start")

\* gsd_sharing_manager_disable_service
DisableService(service, network) ==
  /\ sh.running /\ sh.connection /\ "calls" \in sh.may
  /\ LET s == [sh EXCEPT !.enabled[service] = @ \ {network}]
     IN sh' = IF network = sh.current_network THEN ManageUnit(s, service, "stop") ELSE s

\* The system service starts or stops.
SystemServiceChanges ==
  /\ "system" \in sh.may /\ sh' = [sh EXCEPT !.system_service = ~@]

\* on_system_bus_name_appeared
NameAppeared ==
  /\ sh.running /\ sh.connection /\ sh.assigned /\ sh.system_service /\ ~sh.system_service_running
  /\ sh' = StartAssignedService([sh EXCEPT !.system_service_running = TRUE])

\* on_system_bus_name_vanished, stop_assigned_service_after_timeout included; of
\* a service that was not there when the daemon began nothing is done.
NameVanished ==
  /\ sh.running /\ ~sh.system_service /\ sh.system_service_running
  /\ sh' = [sh EXCEPT !.system_service_running = FALSE, !.waiting = TRUE]

\* on_timeout_reached and on_done_waiting_to_stop
TimeoutReached ==
  /\ sh.running /\ sh.waiting
  /\ sh' = ManageUnit([sh EXCEPT !.waiting = FALSE], Handover, "stop")

UnitJobDone(unit) ==
  /\ sh.job[unit] # "none"
  /\ sh' = [sh EXCEPT !.job[unit] = "none", !.unit[unit] = (sh.job[unit] = "start")]

\* gsd_sharing_manager_pre_shutdown, after which the main loop ends.
PreShutdown ==
  /\ sh.running /\ "leaves" \in sh.may
  /\ LET offline == [sh EXCEPT !.running = FALSE, !.waiting = FALSE, !.sharing_status = "offline"]
         stopped == IF sh.assigned THEN ManageUnit(offline, Handover, "stop") ELSE offline
     IN sh' = IF ~sh.connection THEN [sh EXCEPT !.running = FALSE, !.waiting = FALSE]
              ELSE IF sh.sharing_status = "offline" THEN stopped
              ELSE SyncConfigurableServices(stopped)

ShNext ==
  \/ NmClientReady
  \/ OnBusGotten
  \/ PrimaryConnectionChanges
  \/ \E service \in Services : \/ EnableService(service)
                               \/ \E network \in Networks : DisableService(service, network)
  \/ SystemServiceChanges
  \/ NameAppeared
  \/ NameVanished
  \/ TimeoutReached
  \/ \E unit \in Units : UnitJobDone(unit)
  \/ PreShutdown

-------------------------------------------------------------------------------
\* When systemd has done what it was asked, exactly the services run that are
\* enabled on the current network, and that network is fit for sharing; the
\* handover service runs while its system service does or has just left, or as
\* what an earlier daemon left behind: this one stops that only once the system
\* service has come and gone, or with the session it is assigned to.  A daemon
\* that left with the session has stopped all the others.  This counts on the
\* session bus coming before NetworkManager's client: a first synchronisation
\* without a connection is lost until the network changes.
UnitsFollowNetwork ==
  /\ \A s \in Services : sh.synced /\ sh.job[s] = "none" => sh.unit[s] = ShouldBeStarted(sh, s)
  /\ sh.connection /\ sh.job[Handover] = "none" =>
       sh.unit[Handover] = ((sh.running /\ (sh.system_service_running \/ sh.waiting)) \/ sh.leftover)
==============================================================================
