----------------------------- MODULE SessionProofs ----------------------------
(***************************************************************************)
(* Six of the daemons of Session keep what they promise, whatever the       *)
(* constants are.  In a behaviour one daemon runs, so that a property of it  *)
(* is an invariant of its own steps: each part has the invariant of one      *)
(* daemon, the lemmas that its handlers keep it, and the theorem.            *)
(***************************************************************************)
EXTENDS Session, TLAPS

-------------------------------------------------------------------------------
(***************************************************************************)
(* gsd-sharing: the units of systemd follow the network and the settings,   *)
(* for any services and networks.  What makes this inductive is that a job  *)
(* that is pending already goes the right way, and that nothing is asked of *)
(* systemd, and no system service followed, before there is a connection.  *)
(***************************************************************************)

\* The state is a record of these fields; ShTypeOK says as much.
Sharings ==
  [may : ShWorlds, running : BOOLEAN, client : BOOLEAN, connection : BOOLEAN, synced : BOOLEAN,
   primary : Networks \cup {Sh!NoNetwork}, current_network : Networks \cup {Sh!NoNetwork},
   sharing_status : Sh!Statuses, shown : Sh!Statuses, enabled : [Services -> SUBSET Networks],
   job : [Sh!Units -> {"none", "start", "stop"}], unit : [Sh!Units -> BOOLEAN], assigned : BOOLEAN,
   system_service : BOOLEAN, system_service_running : BOOLEAN, waiting : BOOLEAN, leftover : BOOLEAN]

\* A unit runs if it should, or a job is pending that makes it so.
Follows(s, unit, should) ==
  /\ s.job[unit] = "none" => (s.unit[unit] <=> should)
  /\ s.job[unit] = "start" => should
  /\ s.job[unit] = "stop" => ~should

HandoverWanted(s) == (s.running /\ (s.system_service_running \/ s.waiting)) \/ s.leftover

\* A system service is followed by the daemon of an assigned service only, and
\* is there or has left.
OneOfThem(s) ==
  /\ s.waiting => ~s.system_service_running
  /\ s.waiting \/ s.system_service_running => s.assigned

\* Without a connection nothing has happened to the handover service.
Untouched(s) ==
  /\ ~s.waiting /\ ~s.system_service_running
  /\ (s.unit[Sh!Handover] <=> s.leftover) /\ s.job[Sh!Handover] = "none"

ShInv(s) ==
  /\ s \in Sharings
  /\ s.sharing_status = "available" => s.current_network \in Networks
  /\ s.synced => s.connection
  /\ OneOfThem(s)
  /\ ~s.connection => Untouched(s)
  /\ s.synced => \A v \in Services : Follows(s, v, Sh!ShouldBeStarted(s, v))
  /\ s.connection => Follows(s, Sh!Handover, HandoverWanted(s))

-------------------------------------------------------------------------------
(* The helpers.                                                            *)

\* t is s when a job of one unit has been asked for, and nothing else.
Asked(s, unit, job, t) ==
  /\ t \in Sharings
  /\ t.running = s.running /\ t.connection = s.connection /\ t.synced = s.synced
  /\ t.sharing_status = s.sharing_status /\ t.current_network = s.current_network
  /\ t.enabled = s.enabled /\ t.unit = s.unit /\ t.assigned = s.assigned
  /\ t.system_service_running = s.system_service_running /\ t.waiting = s.waiting
  /\ s.connection /\ unit = Sh!Handover => ~t.leftover
  /\ ~s.connection \/ unit # Sh!Handover => t.leftover = s.leftover
  /\ s.connection => t.job[unit] = job
  /\ ~s.connection => t.job = s.job
  /\ \A u \in Sh!Units : u # unit => t.job[u] = s.job[u]

\* manage_unit does just that.
LEMMA ManageUnitOps ==
  ASSUME NEW s \in Sharings, NEW unit \in Sh!Units, NEW job \in {"start", "stop"}
  PROVE  Asked(s, unit, job, Sh!ManageUnit(s, unit, job))
<1>1. CASE s.connection
  <2> DEFINE jobs == [s.job EXCEPT ![unit] = job]
  <2>1. /\ jobs \in [Sh!Units -> {"none", "start", "stop"}] /\ jobs[unit] = job
        /\ \A u \in Sh!Units : u # unit => jobs[u] = s.job[u]
    BY DEF Sharings
  <2> DEFINE left == s.leftover /\ unit # Sh!Handover
  <2>2. Sh!ManageUnit(s, unit, job) = [s EXCEPT !.job = jobs, !.leftover = left]
    BY <1>1 DEF Sh!ManageUnit, Sharings
  <2>3. left \in BOOLEAN /\ (unit = Sh!Handover => ~left) /\ (unit # Sh!Handover => left = s.leftover)
    BY DEF Sharings
  <2> DEFINE t == Sh!ManageUnit(s, unit, job)
  <2> HIDE DEF jobs, left, t
  <2>4. /\ t \in Sharings /\ t.job = jobs /\ t.leftover = left
        /\ t.running = s.running /\ t.connection = s.connection /\ t.synced = s.synced
        /\ t.sharing_status = s.sharing_status /\ t.current_network = s.current_network
        /\ t.enabled = s.enabled /\ t.unit = s.unit /\ t.assigned = s.assigned
        /\ t.system_service_running = s.system_service_running /\ t.waiting = s.waiting
    BY <2>1, <2>2, <2>3 DEF Sharings, t
  <2> QED
    BY <1>1, <2>1, <2>3, <2>4 DEF Asked, t
<1>2. CASE ~s.connection
  BY <1>2 DEF Asked, Sh!ManageUnit
<1> QED
  BY <1>1, <1>2

\* Synchronising sends every configurable service where it should be.
LEMMA SyncOps ==
  ASSUME Sh!Handover \notin Services, NEW s \in Sharings
  PROVE  LET t == Sh!SyncConfigurableServices(s) IN
         /\ t \in Sharings /\ t.synced = s.connection
         /\ t.running = s.running /\ t.connection = s.connection
         /\ t.sharing_status = s.sharing_status /\ t.current_network = s.current_network
         /\ t.enabled = s.enabled /\ t.unit = s.unit /\ t.assigned = s.assigned
         /\ t.system_service_running = s.system_service_running /\ t.leftover = s.leftover /\ t.waiting = s.waiting
         /\ t.job[Sh!Handover] = s.job[Sh!Handover]
         /\ t.synced => \A v \in Services : Follows(t, v, Sh!ShouldBeStarted(t, v))
<1> DEFINE t    == Sh!SyncConfigurableServices(s)
           jobs == [u \in Sh!Units |-> IF u = Sh!Handover \/ ~s.connection THEN s.job[u]
                                    ELSE IF Sh!ShouldBeStarted(s, u) THEN "start" ELSE "stop"]
<1>1. /\ jobs \in [Sh!Units -> {"none", "start", "stop"}] /\ jobs[Sh!Handover] = s.job[Sh!Handover]
      /\ \A v \in Services :
           s.connection => jobs[v] = IF Sh!ShouldBeStarted(s, v) THEN "start" ELSE "stop"
  BY DEF Sharings, Sh!Units
<1>2. t = [s EXCEPT !.synced = s.connection, !.job = jobs]
  BY DEF Sh!SyncConfigurableServices, Sharings
<1> HIDE DEF jobs, t
<1>3. /\ t \in Sharings /\ t.synced = s.connection
      /\ t.running = s.running /\ t.connection = s.connection
      /\ t.sharing_status = s.sharing_status /\ t.current_network = s.current_network
      /\ t.enabled = s.enabled /\ t.unit = s.unit /\ t.assigned = s.assigned
      /\ t.system_service_running = s.system_service_running /\ t.leftover = s.leftover /\ t.waiting = s.waiting
      /\ t.job = jobs
  BY <1>1, <1>2 DEF Sharings
<1>4. \A v \in Services : Sh!ShouldBeStarted(t, v) <=> Sh!ShouldBeStarted(s, v)
  BY <1>3 DEF Sh!ShouldBeStarted
<1>5. t.synced => \A v \in Services : Follows(t, v, Sh!ShouldBeStarted(t, v))
  BY <1>1, <1>3, <1>4 DEF Follows
<1> QED
  BY <1>1, <1>3, <1>5 DEF t

\* What is not about the units leaves the invariant alone.
LEMMA SameInv ==
  ASSUME NEW s, ShInv(s), NEW t \in Sharings,
         t.job = s.job, t.unit = s.unit, t.enabled = s.enabled, t.synced = s.synced,
         t.sharing_status = s.sharing_status, t.current_network = s.current_network,
         t.connection = s.connection, t.running = s.running, t.waiting = s.waiting,
         t.assigned = s.assigned, t.system_service_running = s.system_service_running /\ t.leftover = s.leftover
  PROVE  ShInv(t)
BY DEF ShInv, OneOfThem, Untouched, Follows, Sh!ShouldBeStarted, HandoverWanted

\* primary_connection_changed, whatever the network has become.
LEMMA PrimaryConnectionInv ==
  ASSUME Sh!Handover \notin Services, NEW s, ShInv(s)
  PROVE  ShInv(Sh!PrimaryConnectionChanged(s))
<1> DEFINE status == Sh!StatusOn(s.primary)
           known  == [s EXCEPT !.current_network = s.primary, !.sharing_status = status,
                               !.shown = IF s.connection THEN status ELSE @]
<1>1. status \in Sh!Statuses /\ (status = "available" => s.primary \in Networks)
  BY DEF Sh!StatusOn, Sh!Statuses, ShInv, Sharings
<1>2. Sh!PrimaryConnectionChanged(s) = Sh!SyncConfigurableServices(known)
  BY DEF Sh!PrimaryConnectionChanged
<1> HIDE DEF status
<1>3. /\ known \in Sharings /\ known.running = s.running /\ known.connection = s.connection
      /\ known.unit = s.unit /\ known.assigned = s.assigned /\ known.waiting = s.waiting
      /\ known.system_service_running = s.system_service_running /\ known.leftover = s.leftover /\ known.job = s.job
      /\ known.sharing_status = "available" => known.current_network \in Networks
  BY <1>1 DEF ShInv, Sharings
<1> HIDE DEF known
<1> QED
  BY <1>2, <1>3, SyncOps DEF ShInv, OneOfThem, Untouched, Follows, HandoverWanted

-------------------------------------------------------------------------------
(* The steps.                                                              *)

\* The daemon begins without a connection; what a crashed one left is not
\* synchronised yet.
LEMMA ShInitInv == ASSUME Sh!Handover \notin Services, Sh!ShInit PROVE ShInv(st)
<1>1. PICK may \in ShWorlds, network \in Networks \cup {Sh!NoNetwork},
           left, leftover, assigned, service \in BOOLEAN, enabled \in SUBSET Networks :
        st = [may |-> may, running |-> TRUE, client |-> FALSE, connection |-> FALSE,
              synced |-> FALSE, primary |-> network, current_network |-> Sh!NoNetwork,
              sharing_status |-> "offline", shown |-> "offline",
              enabled |-> [v \in Services |-> enabled], job |-> [u \in Sh!Units |-> "none"],
              unit |-> [u \in Sh!Units |-> IF u = Sh!Handover THEN leftover ELSE left], assigned |-> assigned,
              system_service |-> service, system_service_running |-> FALSE, waiting |-> FALSE,
              leftover |-> leftover]
  BY DEF Sh!ShInit
<1>2. st \in Sharings
  BY <1>1 DEF Sharings, Sh!Statuses
<1>3. Untouched(st)
  BY <1>1 DEF Untouched, Sh!Units
<1> QED
  BY <1>1, <1>2, <1>3 DEF ShInv, OneOfThem

\* The network, and what is found of it.
LEMMA NetworkInv ==
  ASSUME Sh!Handover \notin Services, ShInv(st),
         Sh!NmClientReady \/ Sh!OnBusGotten \/ Sh!PrimaryConnectionChanges \/ Sh!SystemServiceChanges
  PROVE  ShInv(st')
<1>0. st \in Sharings
  BY DEF ShInv
<1>1. CASE Sh!NmClientReady
  <2> DEFINE ready == [st EXCEPT !.client = TRUE]
  <2>1. ShInv(ready)
    <3>1. ready \in Sharings
      BY <1>0 DEF Sharings
    <3> QED
      BY <1>0, <3>1, SameInv DEF Sharings
  <2> QED
    BY <1>1, <2>1, PrimaryConnectionInv DEF Sh!NmClientReady
<1>2. CASE Sh!OnBusGotten
  <2>1. /\ st' \in Sharings /\ ~st'.synced /\ st'.connection /\ st'.unit = st.unit
        /\ st'.job = st.job /\ st'.waiting = st.waiting /\ st'.assigned = st.assigned
        /\ st'.system_service_running = st.system_service_running /\ st'.leftover = st.leftover
        /\ st'.sharing_status = st.sharing_status /\ st'.current_network = st.current_network
    BY <1>2 DEF Sh!OnBusGotten, ShInv, Sharings
  <2> QED
    BY <1>2, <2>1 DEF Sh!OnBusGotten, ShInv, OneOfThem, Untouched, Follows, HandoverWanted
<1>3. CASE Sh!PrimaryConnectionChanges
  <2>1. PICK network \in Networks \cup {Sh!NoNetwork} :
          st' = IF st.running /\ st.client
                THEN Sh!PrimaryConnectionChanged([st EXCEPT !.primary = network])
                ELSE [st EXCEPT !.primary = network]
    BY <1>3 DEF Sh!PrimaryConnectionChanges
  <2> DEFINE moved == [st EXCEPT !.primary = network]
  <2>2. ShInv(moved)
    <3>1. moved \in Sharings
      BY <1>0 DEF Sharings
    <3> QED
      BY <1>0, <3>1, SameInv DEF Sharings
  <2> QED
    BY <2>1, <2>2, PrimaryConnectionInv
<1>4. CASE Sh!SystemServiceChanges
  <2>1. st' \in Sharings
    BY <1>0, <1>4 DEF Sh!SystemServiceChanges, Sharings
  <2> QED
    BY <1>0, <1>4, <2>1, SameInv DEF Sh!SystemServiceChanges, Sharings
<1> QED
  BY <1>1, <1>2, <1>3, <1>4

\* Enabling and disabling a service: the one unit is asked to follow, and what
\* the others should do is as before.
LEMMA ServiceInv ==
  ASSUME Sh!Handover \notin Services, ShInv(st), NEW service \in Services,
         Sh!EnableService(service) \/ \E network \in Networks : Sh!DisableService(service, network)
  PROVE  ShInv(st')
<1>1. service \in Sh!Units /\ Sh!Handover \in Sh!Units /\ service # Sh!Handover /\ st \in Sharings
  BY DEF Sh!Units, ShInv
<1>2. CASE Sh!EnableService(service)
  <2> DEFINE enabled == [st.enabled EXCEPT ![service] = @ \cup {st.current_network}]
             s == [st EXCEPT !.enabled = enabled]
  <2>1. st.current_network \in Networks
    BY <1>2 DEF Sh!EnableService, ShInv
  <2>2. /\ enabled \in [Services -> SUBSET Networks]
        /\ st.current_network \in enabled[service]
        /\ \A v \in Services : v # service => enabled[v] = st.enabled[v]
    BY <1>1, <2>1 DEF Sharings
  <2>3. st' = Sh!ManageUnit(s, service, "start") /\ st.connection
    BY <1>1, <1>2 DEF Sh!EnableService, Sharings
  <2> HIDE DEF enabled
  <2>4. /\ s \in Sharings /\ s.enabled = enabled /\ s.job = st.job /\ s.unit = st.unit
        /\ s.synced = st.synced /\ s.sharing_status = st.sharing_status
        /\ s.current_network = st.current_network /\ s.connection = st.connection
        /\ s.running = st.running /\ s.waiting = st.waiting /\ s.assigned = st.assigned
        /\ s.system_service_running = st.system_service_running /\ s.leftover = st.leftover
    BY <1>1, <2>2 DEF Sharings
  <2> HIDE DEF s
  <2>5. Asked(s, service, "start", st')
    BY <1>1, <2>3, <2>4, ManageUnitOps
  <2>6. st'.synced => \A v \in Services : Follows(st', v, Sh!ShouldBeStarted(st', v))
    <3>1. Follows(st', service, Sh!ShouldBeStarted(st', service))
      BY <1>2, <2>2, <2>3, <2>4, <2>5 DEF Asked, Sh!EnableService, Follows, Sh!ShouldBeStarted
    <3>2. ASSUME st'.synced, NEW v \in Services, v # service
          PROVE  Follows(st', v, Sh!ShouldBeStarted(st', v))
      <4>1. Sh!ShouldBeStarted(st', v) <=> Sh!ShouldBeStarted(st, v)
        BY <2>2, <2>4, <2>5, <3>2 DEF Asked, Sh!ShouldBeStarted
      <4>2. st'.job[v] = st.job[v] /\ st'.unit[v] = st.unit[v]
        BY <1>1, <2>4, <2>5, <3>2 DEF Asked, Sh!Units
      <4>3. Follows(st, v, Sh!ShouldBeStarted(st, v))
        BY <2>4, <2>5, <3>2 DEF Asked, ShInv
      <4> QED
        BY <4>1, <4>2, <4>3 DEF Follows
    <3> QED
      BY <3>1, <3>2
  <2> QED
    BY <1>1, <1>2, <2>3, <2>4, <2>5, <2>6
       DEF Sh!EnableService, Asked, ShInv, OneOfThem, Follows, HandoverWanted
<1>3. ASSUME NEW network \in Networks, Sh!DisableService(service, network)
      PROVE  ShInv(st')
  <2> DEFINE enabled == [st.enabled EXCEPT ![service] = @ \ {network}]
             s == [st EXCEPT !.enabled = enabled]
  <2>1. /\ enabled \in [Services -> SUBSET Networks]
        /\ enabled[service] = st.enabled[service] \ {network}
        /\ \A v \in Services : v # service => enabled[v] = st.enabled[v]
    BY <1>1 DEF Sharings
  <2>2. /\ st.connection
        /\ st' = IF network = st.current_network THEN Sh!ManageUnit(s, service, "stop") ELSE s
    BY <1>1, <1>3 DEF Sh!DisableService, Sharings
  <2> HIDE DEF enabled
  <2>3. /\ s \in Sharings /\ s.enabled = enabled /\ s.job = st.job /\ s.unit = st.unit
        /\ s.synced = st.synced /\ s.sharing_status = st.sharing_status
        /\ s.current_network = st.current_network /\ s.connection = st.connection
        /\ s.running = st.running /\ s.waiting = st.waiting /\ s.assigned = st.assigned
        /\ s.system_service_running = st.system_service_running /\ s.leftover = st.leftover
    BY <1>1, <2>1 DEF Sharings
  <2> HIDE DEF s
  <2>4. CASE network # st.current_network
    <3>1. \A v \in Services : Sh!ShouldBeStarted(st', v) <=> Sh!ShouldBeStarted(st, v)
      BY <2>1, <2>2, <2>3, <2>4 DEF Sh!ShouldBeStarted
    <3> QED
      BY <2>2, <2>3, <2>4, <3>1 DEF ShInv, OneOfThem, Follows, HandoverWanted
  <2>5. CASE network = st.current_network
    <3>1. st' = Sh!ManageUnit(s, service, "stop")
      BY <2>2, <2>5
    <3>2. Asked(s, service, "stop", st')
      BY <1>1, <2>3, <3>1, ManageUnitOps
    <3>3. Follows(st', service, Sh!ShouldBeStarted(st', service))
      BY <2>1, <2>2, <2>3, <2>5, <3>2 DEF Asked, Follows, Sh!ShouldBeStarted
    <3>4. ASSUME st'.synced, NEW v \in Services, v # service
          PROVE  Follows(st', v, Sh!ShouldBeStarted(st', v))
      <4>1. Sh!ShouldBeStarted(st', v) <=> Sh!ShouldBeStarted(st, v)
        BY <2>1, <2>3, <3>2, <3>4 DEF Asked, Sh!ShouldBeStarted
      <4>2. st'.job[v] = st.job[v] /\ st'.unit[v] = st.unit[v]
        BY <1>1, <2>3, <3>2, <3>4 DEF Asked, Sh!Units
      <4>3. Follows(st, v, Sh!ShouldBeStarted(st, v))
        BY <2>3, <3>2, <3>4 DEF Asked, ShInv
      <4> QED
        BY <4>1, <4>2, <4>3 DEF Follows
    <3> QED
      <4>1. st'.synced => \A v \in Services : Follows(st', v, Sh!ShouldBeStarted(st', v))
        BY <3>3, <3>4
      <4>2. st.connection /\ st'.job[Sh!Handover] = st.job[Sh!Handover]
        BY <1>1, <2>2, <2>3, <3>2 DEF Asked
      <4> QED
        BY <2>3, <3>2, <4>1, <4>2 DEF Asked, ShInv, OneOfThem, Follows, HandoverWanted
  <2> QED
    BY <2>4, <2>5
<1> QED
  BY <1>2, <1>3

\* The system service appears, vanishes, and stays away: the handover service
\* is wanted throughout the delay.
LEMMA HandoverInv ==
  ASSUME Sh!Handover \notin Services, ShInv(st), Sh!NameAppeared \/ Sh!NameVanished \/ Sh!TimeoutReached
  PROVE  ShInv(st')
<1>1. Sh!Handover \in Sh!Units /\ st \in Sharings /\ \A v \in Services : v \in Sh!Units /\ v # Sh!Handover
  BY DEF Sh!Units, ShInv
<1>2. CASE Sh!NameAppeared
  <2> DEFINE s == [st EXCEPT !.system_service_running = TRUE, !.waiting = FALSE]
  <2>1. s \in Sharings /\ st' = Sh!ManageUnit(s, Sh!Handover, "start") /\ st.connection
    BY <1>1, <1>2 DEF Sh!NameAppeared, Sh!StartAssignedService, Sharings
  <2>2. /\ s.enabled = st.enabled /\ s.job = st.job /\ s.unit = st.unit
        /\ s.synced = st.synced /\ s.sharing_status = st.sharing_status
        /\ s.current_network = st.current_network /\ s.connection = st.connection
        /\ s.running /\ ~s.waiting /\ s.assigned /\ s.system_service_running
    BY <1>1, <1>2 DEF Sh!NameAppeared, Sharings
  <2> HIDE DEF s
  <2>3. Asked(s, Sh!Handover, "start", st')
    BY <1>1, <2>1, ManageUnitOps
  <2>4. st'.synced => \A v \in Services : Follows(st', v, Sh!ShouldBeStarted(st', v))
    BY <1>1, <2>2, <2>3 DEF Asked, ShInv, Follows, Sh!ShouldBeStarted
  <2> QED
    BY <1>1, <2>1, <2>2, <2>3, <2>4 DEF Asked, ShInv, OneOfThem, Follows, HandoverWanted
<1>3. CASE Sh!NameVanished
  <2>1. /\ st' \in Sharings /\ st'.enabled = st.enabled /\ st'.job = st.job
        /\ st'.unit = st.unit /\ st'.synced = st.synced
        /\ st'.sharing_status = st.sharing_status /\ st'.running = st.running
        /\ st'.current_network = st.current_network /\ st'.connection = st.connection
        /\ st'.assigned = st.assigned /\ st'.waiting /\ ~st'.system_service_running
    BY <1>1, <1>3 DEF Sh!NameVanished, Sharings
  <2> QED
    BY <1>3, <2>1 DEF Sh!NameVanished, ShInv, OneOfThem, Untouched, Follows, HandoverWanted,
                      Sh!ShouldBeStarted
<1>4. CASE Sh!TimeoutReached
  <2> DEFINE s == [st EXCEPT !.waiting = FALSE]
  <2>1. s \in Sharings /\ st' = Sh!ManageUnit(s, Sh!Handover, "stop") /\ st.waiting /\ st.connection
    BY <1>1, <1>4 DEF Sh!TimeoutReached, ShInv, Untouched, Sharings
  <2>2. /\ s.enabled = st.enabled /\ s.job = st.job /\ s.unit = st.unit
        /\ s.synced = st.synced /\ s.sharing_status = st.sharing_status
        /\ s.current_network = st.current_network /\ s.connection = st.connection
        /\ ~s.waiting /\ s.system_service_running = st.system_service_running /\ s.leftover = st.leftover
    BY <1>1 DEF Sharings
  <2> HIDE DEF s
  <2>3. Asked(s, Sh!Handover, "stop", st')
    BY <1>1, <2>1, ManageUnitOps
  <2>4. st'.synced => \A v \in Services : Follows(st', v, Sh!ShouldBeStarted(st', v))
    BY <1>1, <2>2, <2>3 DEF Asked, ShInv, Follows, Sh!ShouldBeStarted
  <2> QED
    BY <1>1, <2>1, <2>2, <2>3, <2>4 DEF Asked, ShInv, OneOfThem, Follows, HandoverWanted
<1> QED
  BY <1>2, <1>3, <1>4

\* A job that is done has made its unit what it should be.
LEMMA UnitJobDoneInv ==
  ASSUME Sh!Handover \notin Services, ShInv(st), NEW unit \in Sh!Units, Sh!UnitJobDone(unit)
  PROVE  ShInv(st')
<1> DEFINE jobs  == [st.job EXCEPT ![unit] = "none"]
           units == [st.unit EXCEPT ![unit] = (st.job[unit] = "start")]
<1>1. /\ st \in Sharings /\ Sh!Handover \in Sh!Units /\ Services \subseteq Sh!Units
      /\ st.job[unit] \in {"start", "stop"}
  BY DEF ShInv, Sh!Units, Sh!UnitJobDone, Sharings
<1>2. /\ jobs \in [Sh!Units -> {"none", "start", "stop"}] /\ jobs[unit] = "none"
      /\ units \in [Sh!Units -> BOOLEAN] /\ (units[unit] <=> st.job[unit] = "start")
      /\ \A u \in Sh!Units : u # unit => jobs[u] = st.job[u] /\ units[u] = st.unit[u]
  BY <1>1 DEF Sharings
<1>3. st' = [st EXCEPT !.job = jobs, !.unit = units]
  BY <1>1 DEF Sh!UnitJobDone, Sharings
<1> HIDE DEF jobs, units
<1>4. /\ st' \in Sharings /\ st'.job = jobs /\ st'.unit = units
      /\ st'.enabled = st.enabled /\ st'.synced = st.synced
      /\ st'.sharing_status = st.sharing_status /\ st'.running = st.running
      /\ st'.current_network = st.current_network /\ st'.connection = st.connection
      /\ st'.waiting = st.waiting /\ st'.assigned = st.assigned
      /\ st'.system_service_running = st.system_service_running /\ st'.leftover = st.leftover
  BY <1>1, <1>2, <1>3 DEF Sharings
<1>5. ASSUME NEW u \in Sh!Units, NEW should \in BOOLEAN, Follows(st, u, should)
      PROVE  Follows(st', u, should)
  <2>1. CASE u = unit
    BY <1>1, <1>2, <1>4, <1>5, <2>1 DEF Follows
  <2>2. CASE u # unit
    BY <1>2, <1>4, <1>5, <2>2 DEF Follows
  <2> QED
    BY <2>1, <2>2
<1>6. /\ HandoverWanted(st') <=> HandoverWanted(st)
      /\ \A v \in Services : Sh!ShouldBeStarted(st', v) <=> Sh!ShouldBeStarted(st, v)
  BY <1>4 DEF HandoverWanted, Sh!ShouldBeStarted
<1>7. st.synced => \A v \in Services : Follows(st', v, Sh!ShouldBeStarted(st', v))
  BY <1>1, <1>5, <1>6 DEF ShInv, Follows
<1>8. st.connection => Follows(st', Sh!Handover, HandoverWanted(st'))
  BY <1>1, <1>5, <1>6 DEF ShInv, Follows
<1>9. ~st.connection => Untouched(st')
  BY <1>1, <1>2, <1>4 DEF ShInv, Untouched
<1> QED
  BY <1>4, <1>7, <1>8, <1>9 DEF ShInv, OneOfThem

\* The session ends: what runs is asked to stop.
LEMMA PreShutdownInv ==
  ASSUME Sh!Handover \notin Services, ShInv(st), Sh!PreShutdown
  PROVE  ShInv(st')
<1> DEFINE gone    == [st EXCEPT !.running = FALSE, !.waiting = FALSE]
           offline == [st EXCEPT !.running = FALSE, !.waiting = FALSE, !.sharing_status = "offline"]
           stopped == IF st.assigned THEN Sh!ManageUnit(offline, Sh!Handover, "stop") ELSE offline
<1>1. Sh!Handover \in Sh!Units /\ st \in Sharings /\ \A v \in Services : v \in Sh!Units /\ v # Sh!Handover
  BY DEF Sh!Units, ShInv
<1>2. /\ offline \in Sharings /\ offline.connection = st.connection
      /\ offline.enabled = st.enabled /\ offline.job = st.job /\ offline.unit = st.unit
      /\ offline.synced = st.synced /\ offline.assigned = st.assigned
      /\ offline.current_network = st.current_network /\ offline.sharing_status = "offline"
      /\ ~offline.running /\ ~offline.waiting
      /\ offline.system_service_running = st.system_service_running /\ offline.leftover = st.leftover
  BY <1>1 DEF Sharings, Sh!Statuses
<1>3. st' = IF ~st.connection THEN gone
            ELSE IF st.sharing_status = "offline" THEN stopped
            ELSE Sh!SyncConfigurableServices(stopped)
  BY DEF Sh!PreShutdown
<1>4. CASE ~st.connection
  <2>1. /\ gone \in Sharings /\ gone.connection = st.connection
        /\ gone.job = st.job /\ gone.unit = st.unit
        /\ gone.synced = st.synced /\ gone.assigned = st.assigned
        /\ gone.current_network = st.current_network /\ gone.sharing_status = st.sharing_status
        /\ ~gone.running /\ ~gone.waiting
        /\ gone.system_service_running = st.system_service_running /\ gone.leftover = st.leftover
    BY <1>1 DEF Sharings
  <2> QED
    BY <1>3, <1>4, <2>1 DEF ShInv, OneOfThem, Untouched
<1>5. CASE st.connection
  <2> HIDE DEF offline
  <2>1. /\ stopped \in Sharings /\ stopped.connection /\ stopped.enabled = st.enabled
        /\ stopped.unit = st.unit /\ stopped.synced = st.synced /\ stopped.assigned = st.assigned
        /\ stopped.current_network = st.current_network /\ stopped.sharing_status = "offline"
        /\ ~stopped.running /\ ~stopped.waiting
        /\ stopped.system_service_running = st.system_service_running
        /\ \A v \in Services : stopped.job[v] = st.job[v]
    <3>1. CASE st.assigned
      <4>1. Asked(offline, Sh!Handover, "stop", stopped)
        BY <1>1, <1>2, <3>1, ManageUnitOps
      <4> QED
        BY <1>1, <1>2, <1>5, <4>1 DEF Asked
    <3>2. CASE ~st.assigned
      BY <1>2, <1>5, <3>2
    <3> QED
      BY <3>1, <3>2
  <2>2. Follows(stopped, Sh!Handover, HandoverWanted(stopped))
    <3>1. CASE st.assigned
      <4>1. Asked(offline, Sh!Handover, "stop", stopped)
        BY <1>1, <1>2, <3>1, ManageUnitOps
      <4> QED
        BY <1>2, <1>5, <4>1 DEF Asked, Follows, HandoverWanted
    <3>2. CASE ~st.assigned
      BY <1>2, <1>5, <3>2 DEF ShInv, OneOfThem, Follows, HandoverWanted
    <3> QED
      BY <3>1, <3>2
  <2> HIDE DEF stopped
  <2>3. CASE st.sharing_status = "offline"
    BY <1>3, <1>5, <2>1, <2>2, <2>3 DEF ShInv, OneOfThem, Follows, Sh!ShouldBeStarted
  <2>4. CASE st.sharing_status # "offline"
    BY <1>3, <1>5, <2>1, <2>2, <2>4, SyncOps DEF ShInv, OneOfThem, Follows, HandoverWanted
  <2> QED
    BY <2>3, <2>4
<1> QED
  BY <1>4, <1>5

\* Every step keeps the invariant.
LEMMA ShNextInv ==
  ASSUME Sh!Handover \notin Services, ShInv(st), [Sh!ShNext]_st
  PROVE  ShInv(st')
<1>1. CASE Sh!NmClientReady \/ Sh!OnBusGotten \/ Sh!PrimaryConnectionChanges \/ Sh!SystemServiceChanges
  BY <1>1, NetworkInv
<1>2. ASSUME NEW service \in Services,
             Sh!EnableService(service) \/ \E network \in Networks : Sh!DisableService(service, network)
      PROVE  ShInv(st')
  BY <1>2, ServiceInv
<1>3. CASE Sh!NameAppeared \/ Sh!NameVanished \/ Sh!TimeoutReached
  BY <1>3, HandoverInv
<1>4. ASSUME NEW unit \in Sh!Units, Sh!UnitJobDone(unit)
      PROVE  ShInv(st')
  BY <1>4, UnitJobDoneInv
<1>5. CASE Sh!PreShutdown
  BY <1>5, PreShutdownInv
<1>6. CASE UNCHANGED st
  BY <1>6
<1> QED
  BY <1>1, <1>2, <1>3, <1>4, <1>5, <1>6 DEF Sh!ShNext

\* When systemd has done what it was asked, exactly the services run that are
\* enabled on a network fit for sharing, and the handover service runs while
\* its system service does or has just left, or as what an earlier daemon left
\* behind (gsd-sharing-manager.c: gsd_sharing_manager_sync_configurable_services,
\* on_done_waiting_to_stop, on_system_bus_name_vanished).
THEOREM UnitsCorrect == SessionSpec => []UnitsFollowNetwork
<1> DEFINE Inv == daemon = "sharing" => ShInv(st)
<1>1. SessionInit => Inv
  <2> SUFFICES ASSUME Sh!ShInit PROVE ShInv(st)
    BY DEF SessionInit
  <2> QED
    BY ShInitInv, SessionAssumption
<1>2. Inv /\ [SessionNext]_vars => Inv'
  <2> SUFFICES ASSUME Inv, [SessionNext]_vars, (daemon = "sharing")' PROVE ShInv(st)'
    OBVIOUS
  <2>1. daemon = "sharing" /\ [Sh!ShNext]_st
    BY DEF SessionNext, Of, vars
  <2> QED
    BY <2>1, SessionAssumption, ShNextInv
<1>3. Inv => UnitsFollowNetwork
  <2> SUFFICES ASSUME ShInv(st) PROVE Sh!UnitsFollowNetwork
    BY DEF UnitsFollowNetwork
  <2>1. ASSUME NEW v \in Services, st.synced, st.job[v] = "none"
        PROVE  st.unit[v] = Sh!ShouldBeStarted(st, v)
    BY <2>1 DEF ShInv, Sharings, Sh!Units, Follows, Sh!ShouldBeStarted
  <2>2. st.connection /\ st.job[Sh!Handover] = "none" =>
          st.unit[Sh!Handover] =
            ((st.running /\ (st.system_service_running \/ st.waiting)) \/ st.leftover)
    BY DEF ShInv, Sharings, Sh!Units, Follows, HandoverWanted
  <2> QED
    BY <2>1, <2>2 DEF Sh!UnitsFollowNetwork
<1> QED
  BY <1>1, <1>2, <1>3, PTL DEF SessionSpec

-------------------------------------------------------------------------------
(***************************************************************************)
(* gsd-housekeeping never deletes a file that is too young or not to be      *)
(* purged, for any tree, days, purges and order of the calls of the walks.   *)
(* The walk looks at the age of an item of the trash once, and deletes what  *)
(* is in it much later: what makes the property inductive is that the item   *)
(* stays that old while a call of the walk is under way below it, and that a *)
(* walk among the temporary files stays on their file system.              *)
(***************************************************************************)

\* What the constants are.
Constants == Pu!TreeIsATree /\ PurgeAfter \in Nat /\ MaxDays \in Nat /\ MaxPurges \in Nat \ {0}

Days    == 0 .. MaxDays
Cutoffs == 0 .. MaxDays + PurgeAfter

\* The state is a record of these fields; PuTypeOK says as much.
Purges ==
  [systemd : BOOLEAN, may : PuWorlds, purge_trash : BOOLEAN, purge_temp_files : BOOLEAN,
   privacy : [{"trash", "temp"} -> BOOLEAN], there : SUBSET Pu!Files, time : [Pu!Files -> Days],
   day : Days, purges : 0 .. MaxPurges, tasks : SUBSET Pu!Tasks,
   deleted : SUBSET [file : Pu!Files, time : Days, top : Days, cutoff : Cutoffs]]

\* The item of the trash that f is in, or is, is old enough.
TopIsOld(time, f, cutoff) == time[Pu!TopOf(f)] + PurgeAfter <= cutoff

\* What a walk has found out of the file it is at.
Licensed(time, task) ==
  task.file \in Pu!Files =>
    /\ IF Pu!InTrash(task.file) THEN TopIsOld(time, task.file, task.cutoff)
                             ELSE Tree[task.file].fs = "root"
    /\ task.stage # "query" => Tree[task.file].kind # "X11"

\* A deletion that PurgeSpares allows.
Spared(d) ==
  IF Pu!InTrash(d.file) THEN d.top + PurgeAfter <= d.cutoff
  ELSE /\ d.time + PurgeAfter <= d.cutoff
       /\ Tree[d.file].mine /\ Tree[d.file].fs = "root" /\ Tree[d.file].kind # "X11"

PuInv(s) ==
  /\ s \in Purges
  /\ \A task \in s.tasks : Licensed(s.time, task)
  /\ \A d \in s.deleted : Spared(d)

-------------------------------------------------------------------------------
(* The tree.                                                               *)

\* A file is in the trash as its top is, and as its directory is; what is
\* directly in the trash is its own top.
LEMMA TrashOps ==
  ASSUME Pu!TreeIsATree, NEW f \in Pu!Files
  PROVE  /\ Pu!TopOf(f) \in Pu!Files /\ Pu!TopOf(Pu!TopOf(f)) = Pu!TopOf(f)
         /\ Pu!InTrash(Pu!TopOf(f)) <=> Pu!InTrash(f)
         /\ f \notin Pu!Tops => Pu!Parent(f) \in Pu!Files /\ Pu!TopOf(Pu!Parent(f)) = Pu!TopOf(f)
                             /\ (Pu!InTrash(Pu!Parent(f)) <=> Pu!InTrash(f))
         /\ Pu!Parent(f) = TrashRoot => Pu!InTrash(f) /\ Pu!TopOf(f) = f
         /\ Pu!Parent(f) = TempRoot => ~Pu!InTrash(f)
BY DEF Pu!TreeIsATree, Pu!InTrash, Pu!Tops, Pu!Roots

-------------------------------------------------------------------------------
(* The helpers of the walk.                                                *)

\* A call that is begun, for a file the walk may be at.
LEMMA BegunInv ==
  ASSUME NEW s, PuInv(s), NEW new \in SUBSET Pu!Tasks, \A task \in new : Licensed(s.time, task)
  PROVE  PuInv([s EXCEPT !.tasks = @ \cup new])
<1> DEFINE t == [s EXCEPT !.tasks = s.tasks \cup new]
<1>1. /\ t \in Purges /\ t.tasks = s.tasks \cup new /\ t.time = s.time
      /\ t.deleted = s.deleted
  BY DEF PuInv, Purges
<1> QED
  BY <1>1 DEF PuInv

\* A call that has ended.
LEMMA FinishInv ==
  ASSUME NEW s, PuInv(s), NEW task
  PROVE  /\ PuInv(Pu!Finish(s, task)) /\ Pu!Finish(s, task).there = s.there
         /\ Pu!Finish(s, task).time = s.time /\ Pu!Finish(s, task).day = s.day
         /\ Pu!Finish(s, task).tasks = s.tasks \ {task}
<1> DEFINE t == Pu!Finish(s, task)
<1>1. /\ t \in Purges /\ t.tasks = s.tasks \ {task} /\ t.time = s.time
      /\ t.deleted = s.deleted /\ t.there = s.there /\ t.day = s.day
  BY DEF PuInv, Purges, Pu!Finish
<1> QED
  BY <1>1 DEF PuInv

\* The next call for a file, once its kind is known.
LEMMA GotoInv ==
  ASSUME NEW s, PuInv(s), NEW task \in s.tasks, NEW stage \in Pu!Stages,
         task.file \in Pu!Files => Tree[task.file].kind # "X11"
  PROVE  /\ PuInv(Pu!Goto(s, task, stage)) /\ Pu!Goto(s, task, stage).time = s.time
<1> DEFINE next == [task EXCEPT !.stage = stage]
           t    == Pu!Goto(s, task, stage)
<1>1. task \in Pu!Tasks /\ s \in Purges /\ Licensed(s.time, task)
  BY DEF PuInv, Purges
<1>2. next \in Pu!Tasks /\ next.file = task.file /\ next.cutoff = task.cutoff
  BY <1>1 DEF Pu!Tasks
<1>3. Licensed(s.time, next)
  BY <1>1, <1>2 DEF Licensed
<1> HIDE DEF next
<1>4. /\ t \in Purges /\ t.tasks = (s.tasks \ {task}) \cup {next} /\ t.time = s.time
      /\ t.deleted = s.deleted
  BY <1>1, <1>2 DEF Purges, Pu!Goto, next
<1> QED
  BY <1>3, <1>4 DEF PuInv

\* A file is deleted that may be, and its directory changed: never one that a
\* walk in the trash goes by.
LEMMA DeleteInv ==
  ASSUME Constants, NEW s, PuInv(s), NEW f \in Pu!Files, NEW cutoff \in Cutoffs,
         IF Pu!InTrash(f) THEN TopIsOld(s.time, f, cutoff)
         ELSE /\ s.time[f] + PurgeAfter <= cutoff
              /\ Tree[f].mine /\ Tree[f].fs = "root" /\ Tree[f].kind # "X11"
  PROVE  PuInv(Pu!Delete(s, f, cutoff))
<1>1. CASE f \notin s.there \/ Pu!Children(s, f) # {}
  BY <1>1 DEF Pu!Delete
<1>2. CASE ~(f \notin s.there \/ Pu!Children(s, f) # {})
  <2> DEFINE d    == [file |-> f, time |-> s.time[f], cutoff |-> cutoff, top |-> s.time[Pu!TopOf(f)]]
             time == [g \in Pu!Files |-> IF g = Pu!Parent(f) /\ ~Pu!InTrash(g) THEN s.day ELSE s.time[g]]
             t    == Pu!Delete(s, f, cutoff)
  <2>1. s \in Purges /\ Pu!TopOf(f) \in Pu!Files
    BY TrashOps DEF Constants, PuInv
  <2>2. d \in [file : Pu!Files, time : Days, top : Days, cutoff : Cutoffs] /\ Spared(d)
    BY <2>1 DEF Purges, Spared, TopIsOld
  <2>3. time \in [Pu!Files -> Days] /\ \A g \in Pu!Files : Pu!InTrash(g) => time[g] = s.time[g]
    BY <2>1 DEF Purges
  <2>4. t = [s EXCEPT !.there = @ \ {f}, !.time = time, !.deleted = @ \cup {d}]
    BY <1>2, <2>1 DEF Pu!Delete, Purges
  <2> HIDE DEF d, time, t
  <2>5. /\ t \in Purges /\ t.tasks = s.tasks /\ t.time = time /\ t.deleted = s.deleted \cup {d}
    BY <2>1, <2>2, <2>3, <2>4 DEF Purges
  <2>6. ASSUME NEW task \in s.tasks
        PROVE  Licensed(time, task)
    <3>1. Licensed(s.time, task)
      BY DEF PuInv
    <3>2. ASSUME task.file \in Pu!Files, Pu!InTrash(task.file)
          PROVE  time[Pu!TopOf(task.file)] = s.time[Pu!TopOf(task.file)]
      BY <2>3, <3>2, TrashOps DEF Constants
    <3> QED
      BY <3>1, <3>2 DEF Licensed, TopIsOld
  <2> QED
    BY <2>2, <2>5, <2>6 DEF PuInv, t
<1> QED
  BY <1>1, <1>2

\* delete_subdir and delete_batch: a file below a walk goes if it is old.
LEMMA DeleteIfOldInv ==
  ASSUME Constants, NEW s, PuInv(s), NEW task \in Pu!Tasks, Licensed(s.time, task),
         task.file \in Pu!Files, task.stage # "query"
  PROVE  PuInv(Pu!DeleteIfOld(s, task.file, task.cutoff))
<1> DEFINE f == task.file
<1>1. task.cutoff \in Cutoffs /\ Tree[f].kind # "X11" /\ Constants
  BY DEF Pu!Tasks, Cutoffs, Licensed
<1>2. CASE Pu!InTrash(f)
  BY <1>1, <1>2, DeleteInv DEF Pu!DeleteIfOld, Licensed
<1>3. CASE ~Pu!InTrash(f) /\ Pu!ShouldPurgeFile(s, f, task.cutoff)
  <2>1. Pu!Parent(f) # TrashRoot
    BY <1>3, TrashOps DEF Constants
  <2> QED
    BY <1>1, <1>3, <2>1, DeleteInv DEF Pu!DeleteIfOld, Pu!ShouldPurgeFile, Licensed
<1>4. CASE ~Pu!InTrash(f) /\ ~Pu!ShouldPurgeFile(s, f, task.cutoff)
  BY <1>4 DEF Pu!DeleteIfOld
<1> QED
  BY <1>2, <1>3, <1>4

-------------------------------------------------------------------------------
(* The calls of the walk.                                                  *)

\* delete_subdir_check_symlink
LEMMA CheckSymlinkInv ==
  ASSUME Constants, NEW s, PuInv(s), NEW task \in s.tasks
  PROVE  PuInv(Pu!CheckSymlink(s, task))
<1> DEFINE f == task.file
<1>1. /\ task \in Pu!Tasks /\ Licensed(s.time, task) /\ PuInv(Pu!Finish(s, task))
      /\ "enumerate" \in Pu!Stages
  BY FinishInv DEF PuInv, Purges, Pu!Stages
<1>2. CASE f \in Pu!Files /\ f \notin s.there
  BY <1>1, <1>2 DEF Pu!CheckSymlink
<1>3. CASE f \in Pu!Roots
  <2>1. f \notin Pu!Files
    BY <1>3 DEF Constants, Pu!TreeIsATree
  <2> QED
    BY <1>1, <1>3, <2>1, GotoInv DEF Pu!CheckSymlink
<1>4. CASE f \in s.there /\ f \notin Pu!Roots
  <2>1. f \in Pu!Files /\ task.cutoff \in Cutoffs
    BY <1>1, <1>4 DEF Pu!Tasks, Cutoffs
  <2>2. CASE Tree[f].kind = "symlink" /\ Pu!ShouldPurgeFile(s, f, task.cutoff)
    <3>1. Pu!CheckSymlink(s, task) = Pu!Delete(Pu!Finish(s, task), f, task.cutoff)
      BY <1>4, <2>1, <2>2 DEF Pu!CheckSymlink
    <3>2. Pu!Finish(s, task).time = s.time
      BY FinishInv
    <3>3. Pu!Parent(f) = TrashRoot => Pu!InTrash(f)
      BY <2>1, TrashOps DEF Constants
    <3> QED
      BY <1>1, <2>1, <2>2, <3>1, <3>2, <3>3, DeleteInv DEF Licensed, Pu!ShouldPurgeFile
  <2>3. CASE Tree[f].kind = "symlink" /\ ~Pu!ShouldPurgeFile(s, f, task.cutoff)
    BY <1>1, <1>4, <2>1, <2>3 DEF Pu!CheckSymlink
  <2>4. CASE Tree[f].kind = "X11"
    BY <1>1, <1>4, <2>1, <2>4 DEF Pu!CheckSymlink
  <2>5. CASE Tree[f].kind \notin {"symlink", "X11"}
    <3>1. Pu!CheckSymlink(s, task) = Pu!Goto(s, task, "enumerate")
      BY <1>4, <2>1, <2>5 DEF Pu!CheckSymlink
    <3> QED
      BY <1>1, <2>5, <3>1, GotoInv
  <2> QED
    BY <2>2, <2>3, <2>4, <2>5
<1> QED
  BY <1>1, <1>2, <1>3, <1>4 DEF Pu!Tasks

\* delete_subdir
LEMMA DeleteSubdirInv ==
  ASSUME Constants, NEW s, PuInv(s), NEW task \in s.tasks, task.stage = "enumerate"
  PROVE  PuInv(Pu!DeleteSubdir(s, task))
<1> DEFINE f == task.file
<1>1. /\ task \in Pu!Tasks /\ Licensed(s.time, task) /\ PuInv(Pu!Finish(s, task))
      /\ Pu!Finish(s, task).time = s.time /\ "batch" \in Pu!Stages
      /\ f \in Pu!Files => Tree[f].kind # "X11"
  BY FinishInv DEF PuInv, Purges, Pu!Stages, Licensed
<1>2. CASE f \in Pu!Roots \/ (f \in s.there /\ Tree[f].kind = "dir")
  <2>1. Pu!DeleteSubdir(s, task) = Pu!Goto(s, task, "batch")
    BY <1>2 DEF Pu!DeleteSubdir
  <2> QED
    BY <1>1, <2>1, GotoInv
<1>3. CASE f \notin Pu!Roots /\ f \notin s.there
  BY <1>1, <1>3 DEF Pu!DeleteSubdir
<1>4. CASE f \notin Pu!Roots /\ f \in s.there /\ Tree[f].kind # "dir"
  <2>1. Pu!DeleteSubdir(s, task) = Pu!DeleteIfOld(Pu!Finish(s, task), f, task.cutoff)
    BY <1>4 DEF Pu!DeleteSubdir
  <2>2. f \in Pu!Files
    BY <1>1, <1>4 DEF Pu!Tasks
  <2> QED
    BY <1>1, <2>1, <2>2, DeleteIfOldInv
<1> QED
  BY <1>2, <1>3, <1>4

\* delete_batch: the files of a directory are walked; an item of the trash
\* after a look at its age.
LEMMA BatchInv ==
  ASSUME Constants, NEW s, PuInv(s), NEW task \in s.tasks, task.stage = "batch"
  PROVE  PuInv(Pu!Batch(s, task))
<1> DEFINE batch  == {f \in Pu!Children(s, task.file) : Pu!FsOf(task.file) \in {"any", Tree[f].fs}}
           walked == {f \in batch : Pu!DeleteRecursivelyByAge(s, f, task.cutoff) # s}
           new    == {[file |-> f, stage |-> "query", cutoff |-> task.cutoff] : f \in walked}
           next   == Pu!Goto(s, task, "last")
<1>1. /\ s \in Purges /\ task \in Pu!Tasks /\ Licensed(s.time, task) /\ "last" \in Pu!Stages
      /\ task.file \in Pu!Files => Tree[task.file].kind # "X11"
  BY DEF PuInv, Purges, Pu!Stages, Licensed
<1>2. PuInv(next) /\ next.time = s.time
  BY <1>1, GotoInv
<1>3. ASSUME NEW f \in walked
      PROVE  IF Pu!InTrash(f) THEN TopIsOld(s.time, f, task.cutoff) ELSE Tree[f].fs = "root"
  <2>1. f \in Pu!Files /\ Pu!Parent(f) = task.file /\ Pu!FsOf(task.file) \in {"any", Tree[f].fs}
    BY <1>1 DEF Pu!Children, Purges
  <2>2. CASE f \in Pu!Tops /\ Pu!InTrash(f)
    <3>1. Pu!ShouldPurgeFile(s, f, task.cutoff)
      BY <2>2 DEF Pu!DeleteRecursivelyByAge
    <3>2. Pu!TopOf(f) = f
      BY <2>2 DEF Constants, Pu!TreeIsATree
    <3> QED
      BY <2>2, <3>1, <3>2 DEF Pu!ShouldPurgeFile, TopIsOld
  <2>3. CASE f \in Pu!Tops /\ ~Pu!InTrash(f)
    <3>1. task.file = TempRoot
      BY <2>1, <2>3, TrashOps DEF Pu!Tops, Pu!Roots, Constants
    <3> QED
      BY <2>1, <2>3, <3>1 DEF Pu!FsOf
  <2>4. CASE f \notin Pu!Tops
    <3>1. /\ task.file \in Pu!Files /\ Pu!TopOf(task.file) = Pu!TopOf(f)
          /\ Pu!InTrash(task.file) <=> Pu!InTrash(f)
      BY <2>1, <2>4, TrashOps DEF Constants
    <3>2. task.file \notin Pu!Roots
      BY <3>1 DEF Constants, Pu!TreeIsATree
    <3>3. ~Pu!InTrash(f) => Tree[f].fs = "root"
      BY <1>1, <2>1, <3>1, <3>2 DEF Licensed, Pu!FsOf, Pu!Roots
    <3> QED
      BY <1>1, <3>1, <3>3 DEF Licensed, TopIsOld
  <2> QED
    BY <2>2, <2>3, <2>4
<1>4. walked \in SUBSET Pu!Files /\ task.cutoff \in Cutoffs
  BY <1>1 DEF Pu!Children, Purges, Pu!Tasks, Cutoffs
<1> HIDE DEF walked, next
<1>5. new \in SUBSET Pu!Tasks /\ \A w \in new : Licensed(s.time, w)
  BY <1>3, <1>4 DEF Pu!Tasks, Pu!Stages, Cutoffs, Licensed
<1>6. Pu!Batch(s, task) = [next EXCEPT !.tasks = @ \cup new]
  BY DEF Pu!Batch, walked, next
<1> HIDE DEF new
<1> QED
  BY <1>2, <1>5, <1>6, BegunInv

\* delete_batch, at the end of a directory.
LEMMA LastBatchInv ==
  ASSUME Constants, NEW s, PuInv(s), NEW task \in s.tasks, task.stage = "last"
  PROVE  PuInv(Pu!LastBatch(s, task))
<1>1. /\ task \in Pu!Tasks /\ Licensed(s.time, task) /\ PuInv(Pu!Finish(s, task))
      /\ Pu!Finish(s, task).time = s.time
  BY FinishInv DEF PuInv, Purges
<1>2. CASE task.file \in Pu!Roots
  BY <1>1, <1>2 DEF Pu!LastBatch
<1>3. CASE task.file \notin Pu!Roots
  <2>1. task.file \in Pu!Files
    BY <1>1, <1>3 DEF Pu!Tasks
  <2> QED
    BY <1>1, <1>3, <2>1, DeleteIfOldInv DEF Pu!LastBatch
<1> QED
  BY <1>2, <1>3

-------------------------------------------------------------------------------
(* The steps.                                                              *)

\* A walk begins at the trash or at the temporary files.
LEMMA WalkBegins ==
  ASSUME Constants, NEW s, PuInv(s), NEW root \in Pu!Roots, NEW cutoff \in Cutoffs
  PROVE  PuInv(Pu!DeleteRecursivelyByAge(s, root, cutoff))
<1> DEFINE task == [file |-> root, stage |-> "query", cutoff |-> cutoff]
<1>1. root \notin Pu!Files /\ root \notin Pu!Tops
  BY DEF Constants, Pu!TreeIsATree, Pu!Tops
<1>2. task \in Pu!Tasks /\ Licensed(s.time, task)
  BY <1>1 DEF Pu!Tasks, Pu!Stages, Cutoffs, Licensed
<1>3. Pu!DeleteRecursivelyByAge(s, root, cutoff) = [s EXCEPT !.tasks = @ \cup {task}]
  BY <1>1 DEF Pu!DeleteRecursivelyByAge
<1> DEFINE new == {task}
<1>4. new \in SUBSET Pu!Tasks /\ \A w \in new : Licensed(s.time, w)
  BY <1>2
<1> HIDE DEF task
<1>5. Pu!DeleteRecursivelyByAge(s, root, cutoff) = [s EXCEPT !.tasks = @ \cup new]
  BY <1>3
<1> HIDE DEF new
<1> QED
  BY <1>4, <1>5, BegunInv

\* A purge is counted.
LEMMA PurgeCounted ==
  ASSUME Constants, PuInv(st), Pu!MayPurge
  PROVE  PuInv([st EXCEPT !.purges = @ + 1])
<1> DEFINE t == [st EXCEPT !.purges = @ + 1]
<1>1. st \in Purges /\ st.purges + 1 \in 0 .. MaxPurges
  <2>1. st \in Purges /\ st.purges \in Nat /\ MaxPurges \in Nat /\ MaxPurges >= 1
    BY DEF Constants, PuInv, Purges
  <2>2. st.purges < MaxPurges
    BY <2>1 DEF Pu!MayPurge
  <2> QED
    BY <2>1, <2>2
<1>2. t \in Purges /\ t.tasks = st.tasks /\ t.time = st.time /\ t.deleted = st.deleted
  BY <1>1 DEF Purges
<1> QED
  BY <1>2 DEF PuInv

\* The hourly timer, and purges on request.
LEMMA PurgeInv ==
  ASSUME Constants, PuInv(st), Pu!PurgeTimer \/ Pu!PurgeNow
  PROVE  PuInv(st')
<1> DEFINE s == [st EXCEPT !.purges = @ + 1]
<1>1. PuInv(s) /\ TrashRoot \in Pu!Roots /\ TempRoot \in Pu!Roots
  BY PurgeCounted DEF Pu!PurgeTimer, Pu!PurgeNow, Pu!Roots
<1>2. st.day \in Cutoffs /\ st.day + PurgeAfter \in Cutoffs
  BY DEF Constants, PuInv, Purges, Days, Cutoffs
<1> HIDE DEF s
<1>3. ASSUME NEW t, PuInv(t), NEW cutoff \in Cutoffs
      PROVE  PuInv(Pu!PurgeTrash(t, cutoff)) /\ PuInv(Pu!PurgeTempFiles(t, cutoff))
  BY <1>1, <1>3, WalkBegins DEF Pu!PurgeTrash, Pu!PurgeTempFiles
<1>4. CASE Pu!PurgeTimer
  <2> DEFINE t == IF st.purge_trash THEN Pu!PurgeTrash(s, st.day) ELSE s
  <2>1. PuInv(t)
    BY <1>1, <1>2, <1>3
  <2>2. st' = IF st.purge_temp_files THEN Pu!PurgeTempFiles(t, st.day) ELSE t
    BY <1>4 DEF Pu!PurgeTimer, s
  <2> HIDE DEF t
  <2> QED
    BY <1>2, <1>3, <2>1, <2>2
<1>5. CASE Pu!PurgeNow
  <2>1. \/ st' = Pu!PurgeTrash(s, st.day + PurgeAfter)
        \/ st' = Pu!PurgeTempFiles(s, st.day + PurgeAfter)
    BY <1>5 DEF Pu!PurgeNow, s
  <2> QED
    BY <1>1, <1>2, <1>3, <2>1
<1> QED
  BY <1>4, <1>5

\* A call of a walk ends.
LEMMA WalkInv == ASSUME Constants, PuInv(st), Pu!WalkOn PROVE PuInv(st')
<1>1. PICK task \in st.tasks :
        st' = CASE task.stage = "query"     -> Pu!CheckSymlink(st, task)
                [] task.stage = "enumerate" -> Pu!DeleteSubdir(st, task)
                [] task.stage = "batch"     -> Pu!Batch(st, task)
                [] task.stage = "last"      -> Pu!LastBatch(st, task)
  BY DEF Pu!WalkOn
<1>2. task.stage \in Pu!Stages
  BY DEF PuInv, Purges, Pu!Tasks
<1>3. CASE task.stage = "query"
  BY <1>1, <1>3, CheckSymlinkInv
<1>4. CASE task.stage = "enumerate"
  BY <1>1, <1>4, DeleteSubdirInv
<1>5. CASE task.stage = "batch"
  BY <1>1, <1>5, BatchInv
<1>6. CASE task.stage = "last"
  BY <1>1, <1>6, LastBatchInv
<1> QED
  BY <1>2, <1>3, <1>4, <1>5, <1>6 DEF Pu!Stages

\* Files change, come and go: what a walk in the trash goes by is left alone.
LEMMA FilesInv ==
  ASSUME Constants, PuInv(st), NEW f \in Pu!Files, Pu!FileChanges(f) \/ Pu!FileAppears(f) \/ Pu!FileGoes(f)
  PROVE  PuInv(st')
<1>1. st \in Purges
  BY DEF PuInv
<1>2. CASE Pu!FileChanges(f)
  <2> DEFINE time == [st.time EXCEPT ![f] = st.day]
  <2>1. time \in [Pu!Files -> Days] /\ \A g \in Pu!Files : Pu!InTrash(g) => time[g] = st.time[g]
    BY <1>1, <1>2 DEF Pu!FileChanges, Purges
  <2>2. st' = [st EXCEPT !.time = time]
    BY <1>1, <1>2 DEF Pu!FileChanges, Purges
  <2> HIDE DEF time
  <2>3. /\ st' \in Purges /\ st'.time = time /\ st'.tasks = st.tasks /\ st'.deleted = st.deleted
    BY <1>1, <2>1, <2>2 DEF Purges
  <2>4. ASSUME NEW task \in st.tasks
        PROVE  Licensed(time, task)
    <3>1. Licensed(st.time, task)
      BY DEF PuInv
    <3>2. ASSUME task.file \in Pu!Files, Pu!InTrash(task.file)
          PROVE  time[Pu!TopOf(task.file)] = st.time[Pu!TopOf(task.file)]
      BY <2>1, <3>2, TrashOps DEF Constants
    <3> QED
      BY <3>1, <3>2 DEF Licensed, TopIsOld
  <2> QED
    BY <2>3, <2>4 DEF PuInv
<1>3. CASE Pu!FileAppears(f)
  <2> DEFINE new  == {g \in Pu!Files : Pu!TopOf(g) = f}
             time == [g \in Pu!Files |-> IF g \in new THEN st.day ELSE st.time[g]]
  <2>1. time \in [Pu!Files -> Days] /\ \A g \in Pu!Files : Pu!TopOf(g) # f => time[g] = st.time[g]
    BY <1>1 DEF Purges
  <2>2. st' = [st EXCEPT !.there = st.there \cup new, !.time = time]
    BY <1>1, <1>3 DEF Pu!FileAppears, Purges
  <2>3. new \in SUBSET Pu!Files
    OBVIOUS
  <2> HIDE DEF time, new
  <2>4. /\ st' \in Purges /\ st'.time = time /\ st'.tasks = st.tasks /\ st'.deleted = st.deleted
    BY <1>1, <2>1, <2>2, <2>3 DEF Purges
  <2>5. ASSUME NEW task \in st.tasks
        PROVE  Licensed(time, task)
    <3>1. Licensed(st.time, task)
      BY DEF PuInv
    <3>2. ASSUME task.file \in Pu!Files
          PROVE  time[Pu!TopOf(task.file)] = st.time[Pu!TopOf(task.file)]
      <4>1. Pu!TopOf(task.file) # f
        BY <1>3, <3>2 DEF Pu!FileAppears
      <4> QED
        BY <2>1, <3>2, <4>1, TrashOps DEF Constants
    <3> QED
      BY <3>1, <3>2 DEF Licensed, TopIsOld
  <2> QED
    BY <2>4, <2>5 DEF PuInv
<1>4. CASE Pu!FileGoes(f)
  <2>1. /\ st' \in Purges /\ st'.time = st.time /\ st'.tasks = st.tasks /\ st'.deleted = st.deleted
    BY <1>1, <1>4 DEF Pu!FileGoes, Purges
  <2> QED
    BY <2>1 DEF PuInv
<1> QED
  BY <1>2, <1>3, <1>4

\* Every step keeps the invariant.
LEMMA PuNextInv == ASSUME Constants, PuInv(st), [Pu!PuNext]_st PROVE PuInv(st')
<1>1. CASE Pu!PrivacyRead
  <2>1. /\ st' \in Purges /\ st'.time = st.time /\ st'.tasks = st.tasks /\ st'.deleted = st.deleted
    BY <1>1 DEF Pu!PrivacyRead, PuInv, Purges
  <2> QED
    BY <2>1 DEF PuInv
<1>2. ASSUME NEW k \in {"trash", "temp"}, Pu!PrivacyToggled(k)
      PROVE  PuInv(st')
  <2> DEFINE privacy == [st.privacy EXCEPT ![k] = ~@]
  <2>1. st \in Purges /\ privacy \in [{"trash", "temp"} -> BOOLEAN]
    BY DEF PuInv, Purges
  <2>2. st' = [st EXCEPT !.privacy = privacy]
    BY <1>2, <2>1 DEF Pu!PrivacyToggled, Purges
  <2> HIDE DEF privacy
  <2>3. /\ st' \in Purges /\ st'.time = st.time /\ st'.tasks = st.tasks /\ st'.deleted = st.deleted
    BY <2>1, <2>2 DEF Purges
  <2> QED
    BY <2>3 DEF PuInv
<1>3. CASE Pu!DayPasses
  <2>1. st \in Purges /\ st.day + 1 \in Days
    BY <1>3 DEF Pu!DayPasses, PuInv, Purges, Days, Constants
  <2>2. /\ st' \in Purges /\ st'.time = st.time /\ st'.tasks = st.tasks /\ st'.deleted = st.deleted
    BY <1>3, <2>1 DEF Pu!DayPasses, Purges
  <2> QED
    BY <2>2 DEF PuInv
<1>4. CASE UNCHANGED st
  BY <1>4
<1> QED
  BY <1>1, <1>2, <1>3, <1>4, PurgeInv, WalkInv, FilesInv DEF Pu!PuNext

\* A daemon that begins has deleted nothing.
LEMMA PuInitInv ==
  ASSUME Constants, \A systemd \in Systemd : systemd \in BOOLEAN, Pu!PuInit
  PROVE  PuInv(st)
<1>1. PICK systemd \in Systemd, may \in PuWorlds :
        st = [systemd |-> systemd, may |-> may,
              purge_trash |-> "trash" \in may, purge_temp_files |-> "temp" \in may,
              privacy |-> [k \in {"trash", "temp"} |-> k \in may],
              there |-> {f \in Pu!Files : (IF Pu!InTrash(f) THEN "trash" ELSE "temp") \in may},
              time |-> [f \in Pu!Files |-> 0], day |-> 0, purges |-> 0, tasks |-> {}, deleted |-> {}]
  BY DEF Pu!PuInit
<1>2. 0 \in Days /\ 0 \in 0 .. MaxPurges
  BY DEF Days, Constants
<1>3. [f \in Pu!Files |-> 0] \in [Pu!Files -> Days]
  BY <1>2
<1>4. st \in Purges
  BY <1>1, <1>2, <1>3 DEF Purges
<1> QED
  BY <1>1, <1>4 DEF PuInv

\* However the calls of the walk and the changes of the files interleave, what
\* is deleted had its age: a temporary file of the user on the file system of
\* the directory, or an item of the trash with what is in it
\* (gsd-disk-space.c: should_purge_file, delete_recursively_by_age).
THEOREM PurgeCorrect == SessionSpec => []PurgeSpares
<1> DEFINE Inv == daemon = "purge" => PuInv(st)
<1>1. SessionInit => Inv
  <2> SUFFICES ASSUME Pu!PuInit PROVE PuInv(st)
    BY DEF SessionInit
  <2> QED
    BY PuInitInv, SessionAssumption DEF Constants
<1>2. Inv /\ [SessionNext]_vars => Inv'
  <2> SUFFICES ASSUME Inv, [SessionNext]_vars, (daemon = "purge")' PROVE PuInv(st)'
    OBVIOUS
  <2>1. daemon = "purge" /\ [Pu!PuNext]_st
    BY DEF SessionNext, Of, vars
  <2> QED
    BY <2>1, SessionAssumption, PuNextInv DEF Constants
<1>3. Inv => PurgeSpares
  BY DEF PuInv, Purges, Days, Cutoffs, Pu!PuTypeOK, PurgeSpares, Pu!PurgeSpares, Spared
<1> QED
  BY <1>1, <1>2, <1>3, PTL DEF SessionSpec

-------------------------------------------------------------------------------
(***************************************************************************)
(* gsd-screensaver-proxy never holds an inhibitor for an application that    *)
(* nobody watches, for any number of applications and of inhibitors.  What   *)
(* makes this inductive is that the table of inhibitors never lags behind    *)
(* the watches: an entry is made with its watch, and goes before it.        *)
(***************************************************************************)

\* The state is a record of these fields; SpTypeOK says the rest.
Proxies ==
  [phase : {"registered", "running", "stopped", "gone"}, bus : SUBSET Clients,
   left : SUBSET Clients, calls : Seq(Sp!SpCalls), watch_ht : SUBSET Clients,
   cookie_ht : SUBSET (Sp!Cookies \X Clients), held : SUBSET Sp!Cookies, given : 0 .. MaxCookies]

\* An inhibitor has an entry, and an entry a watch.
TablesAgree(s) ==
  /\ \A cookie \in s.held : \E c \in Clients : <<cookie, c>> \in s.cookie_ht
  /\ \A p \in s.cookie_ht : p[2] \in s.watch_ht

SpInv ==
  /\ st \in Proxies /\ Len(st.calls) <= MaxQueued
  /\ st.phase = "registered" => st.held = {} /\ st.cookie_ht = {}
  /\ st.phase = "running" => TablesAgree(st)

-------------------------------------------------------------------------------
(* The handlers.                                                           *)

\* A sender that has left takes its inhibitors along: name_vanished_cb leaves
\* what the other senders hold, with their entries and watches.
LEMMA NameVanishedAgrees ==
  ASSUME NEW s \in Proxies, TablesAgree(s), NEW c \in Clients
  PROVE  /\ Sp!NameVanished(s, c) \in Proxies /\ TablesAgree(Sp!NameVanished(s, c))
         /\ Sp!NameVanished(s, c).phase = s.phase /\ Sp!NameVanished(s, c).calls = s.calls
<1> DEFINE gone == {p \in s.cookie_ht : p[2] = c}
           t == Sp!NameVanished(s, c)
<1>1. /\ t \in Proxies /\ t.phase = s.phase /\ t.calls = s.calls
      /\ t.held = s.held \ {p[1] : p \in gone}
      /\ t.cookie_ht = s.cookie_ht \ gone /\ t.watch_ht = s.watch_ht \ {c}
  BY DEF Sp!NameVanished, Proxies
<1>2. ASSUME NEW cookie \in t.held
      PROVE  \E d \in Clients : <<cookie, d>> \in t.cookie_ht
  <2>1. PICK d \in Clients : <<cookie, d>> \in s.cookie_ht
    BY <1>1, <1>2 DEF TablesAgree
  <2>2. <<cookie, d>> \notin gone
    BY <1>1, <1>2
  <2> QED
    BY <1>1, <2>1, <2>2
<1>3. \A p \in t.cookie_ht : p[2] \in t.watch_ht
  BY <1>1 DEF TablesAgree
<1> QED
  BY <1>1, <1>2, <1>3 DEF TablesAgree

\* UnInhibit drops an inhibitor and its entries together, whoever asks.
LEMMA UnInhibitAgrees ==
  ASSUME NEW s \in Proxies, TablesAgree(s), NEW call \in Sp!SpCalls
  PROVE  /\ Sp!UnInhibit(s, call) \in Proxies /\ TablesAgree(Sp!UnInhibit(s, call))
         /\ Sp!UnInhibit(s, call).phase = s.phase /\ Sp!UnInhibit(s, call).calls = s.calls
<1>1. CASE call.cookie \notin s.held
  BY <1>1 DEF Sp!UnInhibit
<1>2. CASE call.cookie \in s.held
  <2> DEFINE t == Sp!UnInhibit(s, call)
  <2>1. /\ t \in Proxies /\ t.phase = s.phase /\ t.calls = s.calls
        /\ t.held = s.held \ {call.cookie} /\ t.watch_ht = s.watch_ht
        /\ t.cookie_ht = {p \in s.cookie_ht : p[1] # call.cookie}
    BY <1>2 DEF Sp!UnInhibit, Proxies
  <2>2. ASSUME NEW cookie \in t.held
        PROVE  \E c \in Clients : <<cookie, c>> \in t.cookie_ht
    BY <2>1, <2>2 DEF TablesAgree
  <2> QED
    BY <2>1, <2>2 DEF TablesAgree
<1> QED
  BY <1>1, <1>2

\* Inhibit makes the entry and the watch of the inhibitor it was given.
LEMMA InhibitAgrees ==
  ASSUME MaxCookies \in Nat, NEW s \in Proxies, TablesAgree(s), NEW call \in Sp!SpCalls,
         s.given < MaxCookies
  PROVE  /\ Sp!Inhibit(s, call) \in Proxies /\ TablesAgree(Sp!Inhibit(s, call))
         /\ Sp!Inhibit(s, call).phase = s.phase /\ Sp!Inhibit(s, call).calls = s.calls
<1> DEFINE t   == Sp!Inhibit(s, call)
           new == s.given + 1
<1>1. new \in Sp!Cookies /\ new \in 0 .. MaxCookies /\ call.from \in Clients
  BY DEF Proxies, Sp!Cookies, Sp!SpCalls
<1>2. /\ t \in Proxies /\ t.phase = s.phase /\ t.calls = s.calls
      /\ t.held = s.held \cup {new} /\ t.watch_ht = s.watch_ht \cup {call.from}
      /\ t.cookie_ht = {p \in s.cookie_ht : p[1] # new} \cup {<<new, call.from>>}
  <2> DEFINE ht == {p \in s.cookie_ht : p[1] # new} \cup {<<new, call.from>>}
  <2>1. /\ ht \in SUBSET (Sp!Cookies \X Clients) /\ s.held \cup {new} \in SUBSET Sp!Cookies
        /\ s.watch_ht \cup {call.from} \in SUBSET Clients
    BY <1>1 DEF Proxies
  <2>2. t = [s EXCEPT !.given = new, !.held = s.held \cup {new}, !.cookie_ht = ht,
                      !.watch_ht = s.watch_ht \cup {call.from}]
    BY DEF Sp!Inhibit, Proxies
  <2> HIDE DEF ht, new, t
  <2>3. /\ t \in Proxies /\ t.phase = s.phase /\ t.calls = s.calls
        /\ t.held = s.held \cup {new} /\ t.watch_ht = s.watch_ht \cup {call.from}
        /\ t.cookie_ht = ht
    BY <1>1, <2>1, <2>2 DEF Proxies
  <2> QED
    BY <2>3 DEF ht
<1>3. ASSUME NEW cookie \in t.held
      PROVE  \E c \in Clients : <<cookie, c>> \in t.cookie_ht
  <2>1. CASE cookie = new
    BY <1>1, <1>2, <2>1
  <2>2. CASE cookie # new
    BY <1>2, <1>3, <2>2 DEF TablesAgree
  <2> QED
    BY <2>1, <2>2
<1>4. \A p \in t.cookie_ht : p[2] \in t.watch_ht
  BY <1>2 DEF TablesAgree
<1> QED
  BY <1>2, <1>3, <1>4 DEF TablesAgree

-------------------------------------------------------------------------------
(* The steps.                                                              *)

\* A daemon that begins holds nothing.
LEMMA SpInitInv == ASSUME MaxCookies \in Nat, MaxQueued \in Nat, Sp!SpInit PROVE SpInv
BY DEF Sp!SpInit, SpInv, Proxies, TablesAgree

\* Reading a call of the queue.
LEMMA HandleInv ==
  ASSUME MaxCookies \in Nat, MaxQueued \in Nat, SpInv, Sp!HandleMethodCall
  PROVE  SpInv'
<1> DEFINE call == Head(st.calls)
           s    == [st EXCEPT !.calls = Tail(@)]
<1>1. /\ st.calls \in Seq(Sp!SpCalls) /\ st.calls # <<>> /\ Len(st.calls) <= MaxQueued
  BY DEF SpInv, Proxies, Sp!HandleMethodCall
<1>2. /\ call \in Sp!SpCalls /\ Tail(st.calls) \in Seq(Sp!SpCalls)
      /\ Len(Tail(st.calls)) <= MaxQueued
  BY <1>1
<1>3. /\ s \in Proxies /\ s.phase = st.phase /\ s.calls = Tail(st.calls)
      /\ s.held = st.held /\ s.cookie_ht = st.cookie_ht /\ s.watch_ht = st.watch_ht
      /\ s.given = st.given
  BY <1>2 DEF SpInv, Proxies
<1>4. CASE st' = s
  BY <1>2, <1>3, <1>4 DEF SpInv, TablesAgree
<1>5. CASE st.phase = "running" /\ st' = Sp!UnInhibit(s, call)
  <2>1. TablesAgree(s)
    BY <1>3, <1>5 DEF SpInv, TablesAgree
  <2> QED
    BY <1>2, <1>3, <1>5, <2>1, UnInhibitAgrees DEF SpInv
<1>6. CASE st.phase = "running" /\ st.given < MaxCookies /\ st' = Sp!Inhibit(s, call)
  <2>1. TablesAgree(s)
    BY <1>3, <1>6 DEF SpInv, TablesAgree
  <2> QED
    BY <1>2, <1>3, <1>6, <2>1, InhibitAgrees DEF SpInv
<1> QED
  BY <1>4, <1>5, <1>6 DEF Sp!HandleMethodCall

\* A call that is made, or a client that comes or goes, disturbs no table.
LEMMA ClientInv ==
  ASSUME MaxCookies \in Nat, MaxQueued \in Nat, SpInv, NEW c \in Clients,
         Sp!ClientAppears(c) \/ Sp!ClientLeaves(c) \/ Sp!ClientCalls(c)
  PROVE  SpInv'
<1>1. CASE Sp!ClientAppears(c)
  BY <1>1 DEF Sp!ClientAppears, SpInv, Proxies, TablesAgree
<1>2. CASE Sp!ClientLeaves(c)
  BY <1>2 DEF Sp!ClientLeaves, SpInv, Proxies, TablesAgree
<1>3. CASE Sp!ClientCalls(c)
  <2>1. PICK call \in Sp!SpCalls : st' = [st EXCEPT !.calls = Append(@, call)]
    BY <1>3 DEF Sp!ClientCalls, Sp!SpCalls
  <2>2. /\ Append(st.calls, call) \in Seq(Sp!SpCalls)
        /\ Len(Append(st.calls, call)) <= MaxQueued
    BY <1>3 DEF Sp!ClientCalls, SpInv, Proxies
  <2> QED
    BY <2>1, <2>2 DEF SpInv, Proxies, TablesAgree
<1> QED
  BY <1>1, <1>2, <1>3

\* Every step of the daemon and of its surroundings keeps the tables.
LEMMA SpNextInv ==
  ASSUME MaxCookies \in Nat, MaxQueued \in Nat, SpInv, [Sp!SpNext]_st
  PROVE  SpInv'
<1>1. CASE Sp!SpStartup
  BY <1>1 DEF Sp!SpStartup, SpInv, Proxies, TablesAgree
<1>2. CASE Sp!HandleMethodCall
  BY <1>2, HandleInv
<1>3. ASSUME NEW c \in Clients, Sp!NameVanishes(c)
      PROVE  SpInv'
  BY <1>3, NameVanishedAgrees DEF Sp!NameVanishes, SpInv
<1>4. ASSUME NEW c \in Clients, Sp!ClientAppears(c) \/ Sp!ClientLeaves(c) \/ Sp!ClientCalls(c)
      PROVE  SpInv'
  BY <1>4, ClientInv
<1>5. CASE Sp!SpShutdown
  BY <1>5 DEF Sp!SpShutdown, SpInv, Proxies
<1>6. CASE Sp!SpExit
  <2>1. <<>> \in Seq(Sp!SpCalls) /\ Len(<<>>) <= MaxQueued
    OBVIOUS
  <2> QED
    BY <1>6, <2>1 DEF Sp!SpExit, SpInv, Proxies
<1>7. CASE UNCHANGED st
  BY <1>7 DEF SpInv, TablesAgree
<1> QED
  BY <1>1, <1>2, <1>3, <1>4, <1>5, <1>6, <1>7 DEF Sp!SpNext

\* While the daemon runs, every inhibitor it holds is in its table, for a
\* sender it watches (gsd-screensaver-proxy-manager.c: handle_method_call,
\* name_vanished_cb), and the state is well typed.
THEOREM OwnersCorrect == SessionSpec => []InhibitorsHaveOwners
<1> DEFINE Inv == daemon = "screensaver" => SpInv
<1>1. SessionInit => Inv
  <2> SUFFICES ASSUME Sp!SpInit PROVE SpInv
    BY DEF SessionInit
  <2> QED
    BY SpInitInv, SessionAssumption
<1>2. Inv /\ [SessionNext]_vars => Inv'
  <2> SUFFICES ASSUME Inv, [SessionNext]_vars, (daemon = "screensaver")' PROVE SpInv'
    OBVIOUS
  <2>1. daemon = "screensaver" /\ [Sp!SpNext]_st
    BY DEF SessionNext, Of, vars
  <2> QED
    BY <2>1, SessionAssumption, SpNextInv
<1>3. Inv => InhibitorsHaveOwners
  BY DEF SpInv, Proxies, TablesAgree, Sp!SpTypeOK, InhibitorsHaveOwners, Sp!InhibitorsHaveOwners
<1> QED
  BY <1>1, <1>2, <1>3, PTL DEF SessionSpec

-------------------------------------------------------------------------------
(***************************************************************************)
(* gsd-sound: sounds of an earlier theme are flushed, for any samples,      *)
(* directories and number of changes.  The invariant also says that only    *)
(* sounds of a theme go stale, and that a PulseAudio that is gone has       *)
(* nothing cached: else a flush that reaches nobody would be a loss.       *)
(***************************************************************************)

\* The state is a record of these fields; SoTypeOK says the rest.
Sounds ==
  [may : SoWorlds, existing : SUBSET Directories, monitors : SUBSET Directories,
   running : BOOLEAN, event : BOOLEAN, timeout : 0 .. So!FlushDelay, cache : SUBSET So!CacheEntry,
   pulse : BOOLEAN, events : 0 .. MaxSoundEvents]

OnlyThemesGoStale(s) == \A entry \in s.cache : entry.themed \/ entry.fresh

SoInv ==
  /\ st \in Sounds /\ st.monitors \subseteq st.existing
  /\ OnlyThemesGoStale(st)
  /\ ~st.pulse => st.cache = {}
  /\ So!OldSoundsAreFlushed

-------------------------------------------------------------------------------
\* The times that are left until a flush.
LEMMA Delays ==
  /\ So!FlushDelay > 0 /\ So!FlushDelay \in 0 .. So!FlushDelay /\ 0 \in 0 .. So!FlushDelay
  /\ \A t \in 0 .. So!FlushDelay : t # 0 => t > 0 /\ t - 1 \in 0 .. So!FlushDelay
BY DEF So!FlushDelay

\* A change of the theme keeps every sample, and makes those of it stale.
LEMMA StaleType ==
  ASSUME NEW cache \in SUBSET So!CacheEntry
  PROVE  /\ So!Stale(cache) \in SUBSET So!CacheEntry
         /\ \A entry \in So!Stale(cache) : entry.themed \/ entry.fresh
         /\ cache = {} => So!Stale(cache) = {}
BY DEF So!Stale, So!CacheEntry

\* A happening is counted, within the bound, and is nothing else.
LEMMA Counted ==
  ASSUME MaxSoundEvents \in Nat, st \in Sounds, NEW what, So!Happens(what)
  PROVE  /\ So!Happened \in Sounds /\ So!Happened.existing = st.existing
         /\ So!Happened.monitors = st.monitors /\ So!Happened.running = st.running
         /\ So!Happened.event = st.event /\ So!Happened.timeout = st.timeout
         /\ So!Happened.cache = st.cache /\ So!Happened.pulse = st.pulse
BY DEF So!Happens, So!Happened, Sounds

\* Half a second after the last change nothing stale is left.
LEMMA SoTickInv == ASSUME SoInv, So!SoTick PROVE SoInv'
<1> DEFINE later == [st EXCEPT !.timeout = @ - 1]
<1>1. /\ later \in Sounds /\ later.timeout = st.timeout - 1 /\ later.cache = st.cache
      /\ later.existing = st.existing /\ later.monitors = st.monitors
      /\ later.running = st.running /\ later.event = st.event /\ later.pulse = st.pulse
  <2>1. st.timeout \in 0 .. So!FlushDelay /\ st.timeout # 0
    BY DEF So!SoTick, SoInv, Sounds
  <2>2. st.timeout - 1 \in 0 .. So!FlushDelay
    BY <2>1, Delays
  <2> QED
    BY <2>2 DEF SoInv, Sounds
<1>2. CASE later.timeout # 0
  <2>1. st' = later
    BY <1>2 DEF So!SoTick
  <2>2. st'.timeout \in 0 .. So!FlushDelay /\ st'.timeout # 0
    BY <1>1, <1>2, <2>1 DEF Sounds
  <2>3. st'.timeout > 0
    BY <2>2, Delays
  <2> QED
    BY <1>1, <2>1, <2>3 DEF SoInv, OnlyThemesGoStale, So!OldSoundsAreFlushed
<1>3. CASE later.timeout = 0 /\ st.pulse
  <2>1. st' = [later EXCEPT !.cache = So!DropSamples(@)]
    BY <1>1, <1>3 DEF So!SoTick, So!FlushCache
  <2>2. /\ st' \in Sounds /\ st'.cache = {entry \in st.cache : ~entry.themed}
        /\ st'.existing = st.existing /\ st'.monitors = st.monitors
        /\ st'.pulse = st.pulse
    BY <1>1, <2>1 DEF Sounds, So!DropSamples
  <2>3. \A entry \in st'.cache : entry.fresh
    BY <2>2 DEF SoInv, OnlyThemesGoStale
  <2> QED
    BY <1>3, <2>2, <2>3 DEF SoInv, OnlyThemesGoStale, So!OldSoundsAreFlushed
<1>4. CASE later.timeout = 0 /\ ~st.pulse
  <2>1. st' = later /\ st'.cache = {}
    BY <1>1, <1>4 DEF So!SoTick, So!FlushCache, SoInv
  <2> QED
    BY <1>1, <1>4, <2>1 DEF SoInv, OnlyThemesGoStale, So!OldSoundsAreFlushed
<1> QED
  BY <1>2, <1>3, <1>4 DEF SoInv, Sounds

\* Every step keeps the invariant.
LEMMA SoNextInv ==
  ASSUME MaxSoundEvents \in Nat, SoInv, [So!SoNext]_st
  PROVE  SoInv'
<1>0. st \in Sounds /\ st.cache \in SUBSET So!CacheEntry
  BY DEF SoInv, Sounds
<1>1. CASE So!Play
  <2>1. PICK name \in Samples, themed \in BOOLEAN :
          st' = [So!Happened EXCEPT !.cache = @ \cup {[name |-> name, themed |-> themed, fresh |-> TRUE]}]
    BY <1>1 DEF So!Play
  <2> DEFINE cache == st.cache \cup {[name |-> name, themed |-> themed, fresh |-> TRUE]}
  <2>2. [name |-> name, themed |-> themed, fresh |-> TRUE] \in So!CacheEntry
    BY DEF So!CacheEntry
  <2>3. So!Happens("play") /\ st.pulse /\ So!Happened.cache = st.cache
    BY <1>0, <1>1, Counted DEF So!Play
  <2>4. cache \in SUBSET So!CacheEntry /\ st' = [So!Happened EXCEPT !.cache = cache]
    BY <1>0, <2>1, <2>2, <2>3 DEF Sounds
  <2> HIDE DEF cache
  <2>5. /\ st' \in Sounds /\ st'.existing = st.existing /\ st'.monitors = st.monitors
        /\ st'.running = st.running /\ st'.event = st.event /\ st'.timeout = st.timeout
        /\ st'.cache = cache /\ st'.pulse
    BY <1>0, <2>4, <2>3, Counted DEF Sounds
  <2>6. \A entry \in st'.cache : entry \in st.cache \/ entry.fresh
    BY <2>5 DEF cache
  <2> QED
    BY <2>5, <2>6 DEF SoInv, OnlyThemesGoStale, So!OldSoundsAreFlushed
<1>2. CASE So!SettingsChanged
  <2>1. st' = [[So!Happened EXCEPT !.cache = So!Stale(st.cache)] EXCEPT !.timeout = So!FlushDelay]
    BY <1>0, <1>2, Counted DEF So!SettingsChanged, So!TriggerFlush
  <2>2. /\ st' \in Sounds /\ st'.existing = st.existing /\ st'.monitors = st.monitors
        /\ st'.timeout = So!FlushDelay /\ st'.pulse = st.pulse /\ st'.cache = So!Stale(st.cache)
    BY <1>0, <1>2, <2>1, StaleType, Delays, Counted DEF So!SettingsChanged, Sounds
  <2> QED
    BY <1>0, <2>2, StaleType, Delays DEF SoInv, OnlyThemesGoStale, So!OldSoundsAreFlushed
<1>3. CASE So!FilesChange
  <2>1. PICK dir \in Directories :
          st' = [So!Happened EXCEPT !.existing = @ \cup {dir}, !.cache = So!Stale(@),
                                 !.event = @ \/ dir \in st.monitors]
    BY <1>3 DEF So!FilesChange
  <2> DEFINE existing == st.existing \cup {dir}
             event    == st.event \/ dir \in st.monitors
  <2>2. /\ st' = [So!Happened EXCEPT !.existing = existing, !.cache = So!Stale(st.cache), !.event = event]
        /\ existing \in SUBSET Directories /\ event \in BOOLEAN
    BY <1>0, <1>3, <2>1, Counted DEF So!FilesChange, Sounds
  <2> HIDE DEF existing, event
  <2>3. /\ st' \in Sounds /\ st'.existing = existing
        /\ st'.monitors = st.monitors /\ st'.event = event
        /\ st'.pulse = st.pulse /\ st'.cache = So!Stale(st.cache)
    BY <1>0, <1>3, <2>2, StaleType, Counted DEF So!FilesChange, Sounds
  <2>4. /\ st'.existing = st'.monitors => st'.event
        /\ st'.monitors \subseteq st'.existing
    BY <2>3 DEF existing, event, SoInv
  <2> QED
    BY <1>0, <2>3, <2>4, StaleType DEF SoInv, OnlyThemesGoStale, So!OldSoundsAreFlushed
<1>4. CASE So!FileMonitorChanged
  <2>1. st' = [[st EXCEPT !.event = FALSE] EXCEPT !.timeout = So!FlushDelay]
    BY <1>4 DEF So!FileMonitorChanged, So!TriggerFlush
  <2>2. /\ st' \in Sounds /\ st'.existing = st.existing /\ st'.monitors = st.monitors
        /\ st'.timeout = So!FlushDelay /\ st'.pulse = st.pulse /\ st'.cache = st.cache
    BY <1>0, <2>1, Delays DEF Sounds
  <2> QED
    BY <2>2, Delays DEF SoInv, OnlyThemesGoStale, So!OldSoundsAreFlushed
<1>5. CASE So!SoTick
  BY <1>5, SoTickInv
<1>6. CASE So!PulseChanges
  <2>1. /\ st' \in Sounds /\ st'.existing = st.existing /\ st'.monitors = st.monitors
        /\ st'.cache = {}
    BY <1>0, <1>6, Counted DEF So!PulseChanges, Sounds
  <2> QED
    BY <2>1 DEF SoInv, OnlyThemesGoStale, So!OldSoundsAreFlushed
<1>7. CASE So!SoShutdown
  <2>1. /\ st' \in Sounds /\ st'.existing = st.existing /\ st'.monitors = {}
        /\ ~st'.running /\ st'.cache = st.cache /\ st'.pulse = st.pulse
    BY <1>0, <1>7, Counted, Delays DEF So!SoShutdown, Sounds
  <2> QED
    BY <2>1 DEF SoInv, OnlyThemesGoStale, So!OldSoundsAreFlushed
<1>8. CASE UNCHANGED st
  BY <1>8 DEF SoInv, OnlyThemesGoStale, So!OldSoundsAreFlushed
<1> QED
  BY <1>1, <1>2, <1>3, <1>4, <1>5, <1>6, <1>7, <1>8 DEF So!SoNext

\* While the daemon runs and its directories are those it began with, a sample
\* of an earlier theme is cached only until the flush that is due
\* (gsd-sound-manager.c: trigger_flush, flush_cache).
THEOREM FlushCorrect == SessionSpec => []OldSoundsAreFlushed
<1> DEFINE Inv == daemon = "sound" => SoInv
<1>1. SessionInit => Inv
  <2> SUFFICES ASSUME So!SoInit PROVE SoInv
    BY DEF SessionInit
  <2> QED
    BY Delays, SessionAssumption DEF So!SoInit, SoInv, Sounds, OnlyThemesGoStale, So!OldSoundsAreFlushed
<1>2. Inv /\ [SessionNext]_vars => Inv'
  <2> SUFFICES ASSUME Inv, [SessionNext]_vars, (daemon = "sound")' PROVE SoInv'
    OBVIOUS
  <2>1. daemon = "sound" /\ [So!SoNext]_st
    BY DEF SessionNext, Of, vars
  <2> QED
    BY <2>1, SessionAssumption, SoNextInv
<1>3. Inv => OldSoundsAreFlushed
  BY DEF SoInv, Sounds, So!SoTypeOK, OldSoundsAreFlushed
<1> QED
  BY <1>1, <1>2, <1>3, PTL DEF SessionSpec

-------------------------------------------------------------------------------
(***************************************************************************)
(* gnome-datetime-source.c calls back in time, however long the clocks run.  *)
(* With a timerfd a callback that is owed is one the main loop dispatches at  *)
(* once; without one, the look at the clock is never put off by a loop that  *)
(* only this source wakes.                                                 *)
(***************************************************************************)

\* The state is a record of these fields; DsTypeOK says as much.
Sources ==
  [real : 0..MaxClock, monotonic : 0..MaxClock, timerfd : BOOLEAN,
   stage : {"now_read", "armed", "fired"}, now : 0..MaxClock, expiry : 0..MaxClock,
   wakeup : 0..(MaxClock + Ds!Second), initially_expired : BOOLEAN, revents : BOOLEAN,
   busy : BOOLEAN, due : 0..Ds!NotDue]

\* A callback is owed once the time has come, or the clock has gone back.
OwedWhenDue(s) ==
  s.due = Ds!NotDue => s.real < s.expiry /\ Ds!UnixTime(s.now) <= Ds!UnixTime(s.real)

\* With a timerfd what is owed is dispatched before time goes on.
TimerfdIsReady(s) ==
  s.timerfd /\ s.due # Ds!NotDue => (s.initially_expired \/ s.revents) /\ s.due = s.monotonic

\* Without, the look at the clock is a second after the source was armed.
LookIsNear(s) ==
  ~s.timerfd /\ ~s.busy =>
    /\ s.monotonic <= s.wakeup /\ s.wakeup <= s.monotonic + Ds!Second
    /\ s.due # Ds!NotDue => s.wakeup <= s.due + Ds!Second

DsInv(s) ==
  /\ s \in Sources
  /\ s.stage = "now_read" => s.due = Ds!NotDue
  /\ s.stage = "armed" => OwedWhenDue(s) /\ TimerfdIsReady(s) /\ LookIsNear(s)

-------------------------------------------------------------------------------
\* Whole seconds go on with time.
LEMMA SecondsGoOn ==
  \A t \in Nat : Ds!UnixTime(t) \in Nat /\ Ds!UnixTime(t) <= t /\ Ds!UnixTime(t) <= Ds!UnixTime(t + 1)
  BY DEF Ds!UnixTime, Ds!Second

\* What is owed is so from now on; nothing else changes.
LEMMA OwedOps ==
  ASSUME MaxClock \in Nat, NEW s \in Sources, s.stage = "armed", TimerfdIsReady(s), LookIsNear(s),
         s.timerfd /\ s.expiry <= s.real => s.revents,
         s.timerfd /\ Ds!UnixTime(s.real) < Ds!UnixTime(s.now) => s.initially_expired \/ s.revents
  PROVE  DsInv(Ds!Owed(s))
<1>1. CASE s.due = Ds!NotDue /\ (s.expiry <= s.real \/ Ds!UnixTime(s.real) < Ds!UnixTime(s.now))
  <2> DEFINE t == [s EXCEPT !.due = s.monotonic]
  <2>1. /\ s.monotonic \in 0..Ds!NotDue /\ s.monotonic # Ds!NotDue /\ s.monotonic \in Nat
    BY DEF Sources, Ds!NotDue
  <2>2. /\ t \in Sources /\ t.stage = "armed" /\ t.due = s.monotonic /\ t.real = s.real
        /\ t.monotonic = s.monotonic /\ t.timerfd = s.timerfd /\ t.expiry = s.expiry
        /\ t.now = s.now /\ t.wakeup = s.wakeup /\ t.revents = s.revents /\ t.busy = s.busy
        /\ t.initially_expired = s.initially_expired
    BY <2>1 DEF Sources
  <2>3. Ds!Owed(s) = t
    BY <1>1 DEF Ds!Owed
  <2> HIDE DEF t
  <2> QED
    BY <1>1, <2>1, <2>2, <2>3 DEF DsInv, OwedWhenDue, TimerfdIsReady, LookIsNear
<1>2. CASE ~(s.due = Ds!NotDue /\ (s.expiry <= s.real \/ Ds!UnixTime(s.real) < Ds!UnixTime(s.now)))
  <2>1. Ds!Owed(s) = s
    BY <1>2 DEF Ds!Owed
  <2>2. /\ s.real \in Nat /\ s.expiry \in Nat
        /\ Ds!UnixTime(s.real) \in Nat /\ Ds!UnixTime(s.now) \in Nat
    BY SecondsGoOn DEF Sources
  <2> QED
    BY <1>2, <2>1, <2>2 DEF DsInv, OwedWhenDue
<1> QED
  BY <1>1, <1>2

\* Arming the source: the clock is looked at once more.
LEMMA NewSourceInv == ASSUME MaxClock \in Nat, DsInv(st), Ds!NewSource PROVE DsInv(st')
<1> DEFINE s == [st EXCEPT !.stage = "armed", !.wakeup = st.monotonic + Ds!Second]
<1>1. /\ st \in Sources /\ st.due = Ds!NotDue /\ st.monotonic \in Nat
      /\ st.monotonic + Ds!Second \in 0..(MaxClock + Ds!Second)
      /\ st.real \in Nat /\ st.expiry \in Nat /\ st.now \in Nat
  BY DEF DsInv, Ds!NewSource, Sources, Ds!Second
<1>2. /\ s \in Sources /\ s.stage = "armed" /\ s.due = Ds!NotDue /\ s.real = st.real
      /\ s.monotonic = st.monotonic /\ s.timerfd = st.timerfd /\ s.expiry = st.expiry
      /\ s.now = st.now /\ s.wakeup = st.monotonic + Ds!Second /\ s.busy = st.busy
  BY <1>1 DEF Sources
<1>3. st' = Ds!Owed(IF s.timerfd THEN Ds!InitTimerfd(s) ELSE s)
  BY DEF Ds!NewSource
<1> HIDE DEF s
<1>4. CASE s.timerfd
  <2> DEFINE t == Ds!InitTimerfd(s)
  <2> DEFINE passed == (s.expiry <= s.real)
             back   == (Ds!UnixTime(s.real) < Ds!UnixTime(s.now))
  <2>1. passed \in BOOLEAN /\ back \in BOOLEAN
    OBVIOUS
  <2>2. t = [s EXCEPT !.revents = passed, !.initially_expired = back]
    BY DEF Ds!InitTimerfd
  <2> HIDE DEF passed, back, t
  <2>3. /\ t \in Sources /\ t.stage = "armed" /\ t.due = Ds!NotDue /\ t.real = s.real
        /\ t.expiry = s.expiry /\ t.now = s.now /\ t.timerfd
        /\ t.revents = passed /\ t.initially_expired = back
    BY <1>2, <1>4, <2>1, <2>2 DEF Sources
  <2>4. /\ t \in Sources /\ t.stage = "armed" /\ t.due = Ds!NotDue /\ t.real = s.real
        /\ t.expiry = s.expiry /\ t.now = s.now /\ t.timerfd
        /\ (t.revents <=> s.expiry <= s.real) /\ (t.initially_expired <=> Ds!UnixTime(s.real) < Ds!UnixTime(s.now))
    BY <1>2, <2>3 DEF passed, back
  <2>5. TimerfdIsReady(t) /\ LookIsNear(t)
    BY <2>4 DEF TimerfdIsReady, LookIsNear
  <2>6. st' = Ds!Owed(t)
    BY <1>3, <1>4 DEF t
  <2> QED
    BY <2>4, <2>5, <2>6, OwedOps
<1>5. CASE ~s.timerfd
  <2>1. TimerfdIsReady(s) /\ LookIsNear(s)
    BY <1>1, <1>2, <1>5 DEF TimerfdIsReady, LookIsNear, Ds!Second
  <2>2. st' = Ds!Owed(s)
    BY <1>3, <1>5
  <2> QED
    BY <1>2, <1>5, <2>1, <2>2, OwedOps
<1> QED
  BY <1>4, <1>5

\* Time goes on only when nothing is to be dispatched.
LEMMA ClockTicksInv == ASSUME MaxClock \in Nat, DsInv(st), Ds!ClockTicks PROVE DsInv(st')
<1> DEFINE revents == st.revents \/ (st.stage = "armed" /\ st.expiry <= st.real + 1)
           s == [st EXCEPT !.real = st.real + 1, !.monotonic = st.monotonic + 1,
                           !.revents = revents]
<1>1. /\ st \in Sources /\ st.real + 1 \in 0..MaxClock /\ st.monotonic + 1 \in 0..MaxClock
      /\ st.real \in Nat /\ st.monotonic \in Nat /\ st.expiry \in Nat /\ st.now \in Nat
      /\ st.wakeup \in Nat /\ st.due \in Nat /\ revents \in BOOLEAN
  BY DEF DsInv, Ds!ClockTicks, Sources, Ds!Second, Ds!NotDue
<1>2. st' = Ds!Owed(s)
  BY <1>1 DEF Ds!ClockTicks, Sources
<1>3. /\ s \in Sources /\ s.stage = st.stage /\ s.due = st.due /\ s.real = st.real + 1
      /\ s.monotonic = st.monotonic + 1 /\ s.timerfd = st.timerfd /\ s.expiry = st.expiry
      /\ s.now = st.now /\ s.wakeup = st.wakeup /\ s.busy = st.busy /\ s.revents = revents
      /\ s.initially_expired = st.initially_expired
  BY <1>1 DEF Sources
<1>4. CASE st.stage # "armed"
  <2>1. Ds!Owed(s) = s
    BY <1>3, <1>4 DEF Ds!Owed
  <2> QED
    BY <1>2, <1>3, <1>4, <2>1 DEF DsInv
<1>5. CASE st.stage = "armed"
  <2>1. st.timerfd => st.due = Ds!NotDue /\ ~st.initially_expired
    BY <1>5 DEF Ds!ClockTicks, Ds!Ready, DsInv, TimerfdIsReady
  <2>2. st.due = Ds!NotDue => st.real < st.expiry /\ Ds!UnixTime(st.now) <= Ds!UnixTime(st.real)
    BY <1>5 DEF DsInv, OwedWhenDue
  <2>3. ~st.timerfd => st.monotonic < st.wakeup
    BY <1>1, <1>5 DEF Ds!ClockTicks, Ds!Ready
  <2>4. LookIsNear(st)
    BY <1>5 DEF DsInv
  <2> HIDE DEF s
  <2>5. LookIsNear(s)
    BY <1>1, <1>3, <2>3, <2>4 DEF LookIsNear, Ds!Second
  <2>6. TimerfdIsReady(s)
    BY <1>3, <2>1 DEF TimerfdIsReady
  <2>7. s.timerfd /\ s.expiry <= s.real => s.revents
    BY <1>3, <1>5
  <2>8. s.timerfd => ~(Ds!UnixTime(s.real) < Ds!UnixTime(s.now))
    <3>1. /\ Ds!UnixTime(st.real) <= Ds!UnixTime(s.real) /\ Ds!UnixTime(st.real) \in Nat
          /\ Ds!UnixTime(s.real) \in Nat /\ Ds!UnixTime(st.now) \in Nat
      BY <1>1, <1>3, SecondsGoOn
    <3> QED
      BY <1>3, <2>1, <2>2, <3>1
  <2> QED
    BY <1>2, <1>3, <1>5, <2>5, <2>6, <2>7, <2>8, OwedOps
<1> QED
  BY <1>4, <1>5

\* The clock is set while the source is armed: it is called back.
LEMMA ClockIsSetInv == ASSUME MaxClock \in Nat, DsInv(st), Ds!ClockIsSet PROVE DsInv(st')
<1>1. PICK real \in 0..MaxClock :
        LET s == [st EXCEPT !.real = real, !.revents = @ \/ st.stage = "armed"]
        IN st' = IF s.stage = "armed" /\ s.due = Ds!NotDue THEN [s EXCEPT !.due = s.monotonic] ELSE s
  BY DEF Ds!ClockIsSet
<1> DEFINE revents == st.revents \/ st.stage = "armed"
           s == [st EXCEPT !.real = real, !.revents = revents]
<1>2. st \in Sources /\ revents \in BOOLEAN /\ st.monotonic \in 0..Ds!NotDue /\ st.monotonic # Ds!NotDue
  BY DEF DsInv, Sources, Ds!NotDue
<1>3. st' = IF s.stage = "armed" /\ s.due = Ds!NotDue THEN [s EXCEPT !.due = s.monotonic] ELSE s
  BY <1>1, <1>2 DEF Sources
<1>4. /\ s \in Sources /\ s.stage = st.stage /\ s.due = st.due /\ s.monotonic = st.monotonic
      /\ s.timerfd = st.timerfd /\ s.wakeup = st.wakeup /\ s.busy = st.busy /\ s.revents = revents
  BY <1>2 DEF Sources
<1> HIDE DEF s
<1>5. CASE st.stage = "armed" /\ st.due = Ds!NotDue
  <2>1. /\ st' \in Sources /\ st'.stage = "armed" /\ st'.due = st.monotonic
        /\ st'.monotonic = st.monotonic /\ st'.timerfd = st.timerfd /\ st'.wakeup = st.wakeup
        /\ st'.busy = st.busy /\ st'.revents
    BY <1>2, <1>3, <1>4, <1>5 DEF Sources
  <2> QED
    BY <1>2, <1>5, <2>1 DEF DsInv, OwedWhenDue, TimerfdIsReady, LookIsNear
<1>6. CASE ~(st.stage = "armed" /\ st.due = Ds!NotDue)
  <2>1. st' = s
    BY <1>3, <1>4, <1>6
  <2> QED
    BY <1>4, <1>6, <2>1 DEF DsInv, OwedWhenDue, TimerfdIsReady, LookIsNear
<1> QED
  BY <1>5, <1>6

\* Every step keeps the invariant.
LEMMA DsNextInv == ASSUME MaxClock \in Nat, DsInv(st), [Ds!DsNext]_st PROVE DsInv(st')
<1>1. CASE Ds!LoopWakes
  <2>1. st.monotonic + Ds!Second \in 0..(MaxClock + Ds!Second) /\ st \in Sources
    BY DEF DsInv, Sources, Ds!Second
  <2>2. CASE Ds!IsExpired(st)
    BY <1>1, <2>1, <2>2 DEF Ds!LoopWakes, DsInv, Sources
  <2>3. CASE ~Ds!IsExpired(st)
    <3>1. /\ st' \in Sources /\ st'.stage = st.stage /\ st'.due = st.due /\ st'.real = st.real
          /\ st'.expiry = st.expiry /\ st'.now = st.now /\ st'.busy /\ ~st'.timerfd
      BY <1>1, <2>1, <2>3 DEF Ds!LoopWakes, Sources
    <3> QED
      BY <3>1 DEF DsInv, OwedWhenDue, TimerfdIsReady, LookIsNear
  <2> QED
    BY <2>2, <2>3
<1>2. CASE Ds!Dispatch
  BY <1>2 DEF Ds!Dispatch, DsInv, Sources
<1>3. CASE UNCHANGED st
  BY <1>3
<1> QED
  BY <1>1, <1>2, <1>3, NewSourceInv, ClockTicksInv, ClockIsSetInv DEF Ds!DsNext

\* The callback comes at most a second after its second has come, or after the
\* clock was set with the source armed or, before, back to an earlier second
\* (gnome-datetime-source.c:233), unless there is no timerfd and other sources
\* keep waking the loop.
THEOREM CallbackCorrect == SessionSpec => []CallbackInTime
<1> DEFINE Inv == daemon = "clock" => DsInv(st)
<1>1. SessionInit => Inv
  <2> SUFFICES ASSUME Ds!DsInit PROVE DsInv(st)
    BY DEF SessionInit
  <2> QED
    <3>1. \A now \in 1..3 : Ds!UnixTime(now + 4) \in 0..MaxClock
      BY SessionAssumption DEF Ds!UnixTime, Ds!Second
    <3> QED
      BY <3>1, SessionAssumption DEF Ds!DsInit, DsInv, Sources, Ds!NotDue, Ds!Second
<1>2. Inv /\ [SessionNext]_vars => Inv'
  <2> SUFFICES ASSUME Inv, [SessionNext]_vars, (daemon = "clock")' PROVE DsInv(st)'
    OBVIOUS
  <2>1. daemon = "clock" /\ [Ds!DsNext]_st
    BY DEF SessionNext, Of, vars
  <2> QED
    BY <2>1, SessionAssumption, DsNextInv
<1>3. Inv => CallbackInTime
  <2> SUFFICES ASSUME DsInv(st) PROVE Ds!CallbackInTime
    BY DEF CallbackInTime
  <2>1. st.monotonic \in Nat /\ st.due \in Nat /\ st.wakeup \in Nat
    BY DEF DsInv, Sources, Ds!NotDue, Ds!Second
  <2> QED
    BY <2>1 DEF DsInv, TimerfdIsReady, LookIsNear, Ds!CallbackInTime, Ds!Second
<1> QED
  BY <1>1, <1>2, <1>3, PTL DEF SessionSpec

-------------------------------------------------------------------------------
(***************************************************************************)
(* gsd-color: night light.  A recheck leaves a screen that goes to what the   *)
(* clock and the schedule ask for, so that the work is in what the code has in  *)
(* place of a schedule: an hour is within one of three intervals, each of      *)
(* which may cross midnight, and what is left of a disabled night light is     *)
(* decided by a sunrise between two hours of different days.  An inactive       *)
(* night light is not told of again that it is, so that it has to be dark.    *)
(***************************************************************************)

\* What is left of a number of which D goes q times.
LEMMA ModUnique ==
  ASSUME NEW D \in Nat \ {0}, NEW x \in Int, NEW q \in Int, NEW r \in 0 .. D - 1, x = D * q + r
  PROVE  x % D = r
<1> DEFINE a == x \div D
           b == x % D
<1>1. a \in Int /\ b \in 0 .. D - 1 /\ x = D * a + b
  OBVIOUS
<1> HIDE DEF a, b
<1>2. ASSUME NEW m \in Int, NEW k \in Int, k > m PROVE D * k >= D * m + D
  <2>1. k - m >= 1 /\ k - m \in Int
    BY <1>2
  <2>2. D * (k - m) >= D
    BY <2>1
  <2> QED
    BY <1>2, <2>2
<1>3. ~ a > q
  <2> SUFFICES ASSUME a > q PROVE FALSE
    OBVIOUS
  <2>1. D * a >= D * q + D /\ D * a \in Int /\ D * q \in Int
    BY <1>1, <1>2
  <2> QED
    BY <1>1, <2>1
<1>4. ~ q > a
  <2> SUFFICES ASSUME q > a PROVE FALSE
    OBVIOUS
  <2>1. D * q >= D * a + D /\ D * a \in Int /\ D * q \in Int
    BY <1>1, <1>2
  <2> QED
    BY <1>1, <2>1
<1>5. a = q
  BY <1>1, <1>3, <1>4
<1>6. b = r
  <2>1. D * a = D * q /\ D * a \in Int
    BY <1>1, <1>5
  <2> QED
    BY <1>1, <2>1
<1> QED
  BY <1>6 DEF b

\* A number of a day, one later than the day, and one before it.
LEMMA ModCases ==
  ASSUME NEW D \in Nat \ {0}
  PROVE  /\ \A x \in 0 .. D - 1 : x % D = x
         /\ \A x \in D .. 2 * D - 1 : x % D = x - D
         /\ \A x \in -D .. -1 : x % D = x + D
<1>1. ASSUME NEW x \in 0 .. D - 1 PROVE x % D = x
  <2>1. x = D * 0 + x
    OBVIOUS
  <2> QED
    BY <2>1, ModUnique
<1>2. ASSUME NEW x \in D .. 2 * D - 1 PROVE x % D = x - D
  <2>1. x = D * 1 + (x - D) /\ x - D \in 0 .. D - 1 /\ x \in Int
    OBVIOUS
  <2> QED
    BY <2>1, ModUnique
<1>3. ASSUME NEW x \in -D .. -1 PROVE x % D = x + D
  <2>1. x = D * (-1) + (x + D) /\ x + D \in 0 .. D - 1 /\ x \in Int
    OBVIOUS
  <2> QED
    BY <2>1, ModUnique
<1> QED
  BY <1>1, <1>2, <1>3

\* The hour of a time, and of one that is less than a day later.
LEMMA FracDayOps ==
  ASSUME NEW d \in Nat
  PROVE  /\ Nl!FracDay(d) \in 0 .. Day - 1
         /\ \A k \in 0 .. Day - 1 :
              Nl!FracDay(d + k) = IF Nl!FracDay(d) + k < Day THEN Nl!FracDay(d) + k
                                  ELSE Nl!FracDay(d) + k - Day
<1> DEFINE q == d \div Day
           f == d % Day
<1>0. Day \in Nat \ {0}
  BY NightAssumption
<1>1. q \in Int /\ f \in 0 .. Day - 1 /\ d = Day * q + f
  BY <1>0
<1> HIDE DEF q, f
<1>2. ASSUME NEW k \in 0 .. Day - 1
      PROVE  (d + k) % Day = IF f + k < Day THEN f + k ELSE f + k - Day
  <2>1. Day \in Nat \ {0} /\ d + k \in Int /\ Day * q \in Int
    BY <1>1, NightAssumption
  <2>2. CASE f + k < Day
    <3>1. d + k = Day * q + (f + k) /\ f + k \in 0 .. Day - 1
      BY <1>1, <2>1, <2>2
    <3> QED
      BY <1>1, <2>1, <2>2, <3>1, ModUnique
  <2>3. CASE f + k >= Day
    <3>1. Day * (q + 1) = Day * q + Day
      BY <1>1, <2>1
    <3>2. d + k = Day * (q + 1) + (f + k - Day) /\ f + k - Day \in 0 .. Day - 1 /\ q + 1 \in Int
      BY <1>1, <2>1, <2>3, <3>1
    <3>3. (d + k) % Day = f + k - Day
      BY <2>1, <3>2, ModUnique
    <3> QED
      BY <1>1, <2>1, <2>3, <3>3
  <2> QED
    BY <1>1, <2>1, <2>2, <2>3
<1> QED
  BY <1>1, <1>2 DEF f, Nl!FracDay

\* A schedule, and a sun that rises and sets after midnight; the sun of any place.
Hours == {w \in [from : Nat, to : Nat] : w.from <= w.to + Day}
Suns  == {w \in [from : Int, to : Int] : w.to <= w.from /\ w.from <= w.to + Day}

\* What is left of a difference of hours.
LEMMA RestOps ==
  ASSUME NEW x \in -Day .. Day - 1
  PROVE  x % Day = IF x >= 0 THEN x ELSE x + Day
<1>1. /\ \A y \in 0 .. Day - 1 : y % Day = y
      /\ \A y \in -Day .. -1 : y % Day = y + Day
  BY ModCases, NightAssumption
<1>2. CASE x >= 0
  <2>1. x \in 0 .. Day - 1
    BY <1>2, NightAssumption
  <2> QED
    BY <1>1, <1>2, <2>1
<1>3. CASE ~ x >= 0
  <2>1. x \in -Day .. -1
    BY <1>3, NightAssumption
  <2> QED
    BY <1>1, <1>3, <2>1
<1> QED
  BY <1>2, <1>3

\* When the smearing does not begin before midnight, and not after it while the
\* sunset of the day before is still to come, what the code tells apart by two
\* intervals is what is counted from the beginning of the first ramp.
LEMMA RampsOps ==
  ASSUME NEW w \in Hours, ~Nl!CrossesMidnight(w), NEW frac \in 0 .. Day - 1, ~Nl!SunIsLate(w, frac)
  PROVE  Nl!Reference(w, frac) =
           IF Nl!IsBetween(frac, w.from - Nl!SmearOf(w), w.to) THEN Nl!Smeared(w, frac) ELSE 0
<1> DEFINE f == w.from
           t == w.to
           smear == Nl!SmearOf(w)
           length == smear + IF f = t THEN Day ELSE (t - f) % Day
           pos == (frac - (f - smear)) % Day
<1>1. /\ f \in Nat /\ t \in 0 .. Day - 1 /\ frac \in 0 .. Day - 1 /\ Day \in Nat \ {0}
      /\ f <= t + Day /\ f <= frac + Day
  BY NightAssumption DEF Hours, Nl!SunIsLate
<1>2. /\ smear \in Nat /\ smear <= f /\ smear <= t
      /\ f > t => smear <= f - t /\ smear <= Day - (f - t)
      /\ f <= t => smear <= t - f /\ smear <= Day - (t - f)
  BY <1>1, NightAssumption DEF Nl!SmearOf, Nl!Least, Nl!Abs, Nl!CrossesMidnight
<1>3. pos = IF frac >= f - smear THEN frac - (f - smear) ELSE frac - (f - smear) + Day
  <2> DEFINE x == frac - (f - smear)
  <2>1. x \in -Day .. Day - 1 /\ (x >= 0 <=> frac >= f - smear)
    BY <1>1, <1>2
  <2> HIDE DEF f, smear, x
  <2>2. x % Day = IF frac >= f - smear THEN x ELSE x + Day
    BY <2>1, RestOps
  <2> QED
    BY <2>2 DEF x
<1>4. length = smear + IF t > f THEN t - f ELSE t - f + Day
  <2> DEFINE x == t - f
  <2>1. /\ x \in -Day .. Day - 1 /\ (x >= 0 <=> t >= f)
        /\ (t > f <=> t >= f /\ f # t) /\ (f = t => x + Day = Day)
    BY <1>1
  <2> HIDE DEF f, t, smear, x
  <2>2. x % Day = IF t >= f THEN x ELSE x + Day
    BY <2>1, RestOps
  <2>3. length = smear + IF f = t THEN Day ELSE x % Day
    BY DEF x
  <2> HIDE DEF length
  <2>4. length = smear + IF t > f THEN x ELSE x + Day
    BY <2>1, <2>2, <2>3
  <2> QED
    BY <2>4 DEF x
<1>5. Nl!Reference(w, frac) =
        IF pos >= length THEN 0
        ELSE IF pos < smear THEN (Full * pos) \div smear
        ELSE IF pos >= length - smear THEN (Full * (length - pos)) \div smear
        ELSE Full
  <2>1. pos \in Int /\ length \in Int /\ smear \in Nat
    BY <1>1, <1>2, <1>3, <1>4
  <2>2. Nl!Reference(w, frac) =
          CASE pos >= length -> 0
            [] pos < length /\ pos < smear -> (Full * pos) \div smear
            [] pos < length /\ pos >= smear /\ pos >= length - smear -> (Full * (length - pos)) \div smear
            [] OTHER -> Full
    BY DEF Nl!Reference
  <2> HIDE DEF pos, length, smear
  <2>3. CASE pos >= length
    BY <2>1, <2>2, <2>3
  <2>4. CASE pos < length /\ pos < smear
    BY <2>1, <2>2, <2>4
  <2>5. CASE pos < length /\ pos >= smear /\ pos >= length - smear
    BY <2>1, <2>2, <2>5
  <2>6. CASE pos < length /\ pos >= smear /\ pos < length - smear
    BY <2>1, <2>2, <2>6
  <2> QED
    BY <2>1, <2>3, <2>4, <2>5, <2>6
<1>6. Nl!Smeared(w, frac) =
        IF smear > 0 /\ Nl!IsBetween(frac, f - smear, f) THEN Nl!Interpolate(frac - (f - smear), smear)
        ELSE IF smear > 0 /\ Nl!IsBetween(frac, t - smear, t) THEN Nl!Interpolate(t - frac, smear)
        ELSE Full
  BY DEF Nl!Smeared
<1> HIDE DEF f, t, smear, pos, length
<1>7. Nl!IsBetween(frac, f - smear, t) <=> pos < length
  BY <1>1, <1>2, <1>3, <1>4 DEF Nl!IsBetween
<1>8. ASSUME pos < length
      PROVE  /\ smear > 0 /\ Nl!IsBetween(frac, f - smear, f) <=> pos < smear
             /\ pos < smear => pos = frac - (f - smear) /\ frac - (f - smear) \in 0 .. smear
  BY <1>1, <1>2, <1>3, <1>4, <1>8 DEF Nl!IsBetween
<1>9. ASSUME pos < length
      PROVE  /\ smear > 0 /\ Nl!IsBetween(frac, t - smear, t) <=> pos >= length - smear
             /\ pos >= length - smear /\ ~ pos < smear => length - pos = t - frac /\ t - frac \in 0 .. smear
  BY <1>1, <1>2, <1>3, <1>4, <1>9 DEF Nl!IsBetween
<1>10. pos \in Int /\ length \in Int
  BY <1>1, <1>2, <1>3, <1>4
<1>11. Nl!IsBetween(frac, w.from - Nl!SmearOf(w), w.to) = Nl!IsBetween(frac, f - smear, t)
  BY DEF f, t, smear
<1>12. CASE pos >= length
  <2>1. ~Nl!IsBetween(frac, f - smear, t)
    BY <1>7, <1>10, <1>12
  <2> QED
    BY <1>5, <1>11, <1>12, <2>1
<1>13. CASE pos < length
  <2>1. Nl!IsBetween(frac, f - smear, t)
    BY <1>7, <1>13
  <2>2. CASE pos < smear
    <3>1. ~ pos >= length
      BY <1>10, <1>13
    <3> QED
      BY <1>5, <1>6, <1>8, <1>11, <1>13, <2>1, <2>2, <3>1 DEF Nl!Interpolate
  <2>3. CASE ~ pos < smear /\ pos >= length - smear
    <3>1. ~ pos >= length
      BY <1>10, <1>13
    <3> QED
      BY <1>5, <1>6, <1>8, <1>9, <1>11, <1>13, <2>1, <2>3, <3>1 DEF Nl!Interpolate
  <2>4. CASE ~ pos < smear /\ ~ pos >= length - smear
    <3>1. ~ pos >= length
      BY <1>10, <1>13
    <3> QED
      BY <1>5, <1>6, <1>8, <1>9, <1>11, <1>13, <2>1, <2>4, <3>1
  <2> QED
    BY <2>2, <2>3, <2>4
<1> QED
  BY <1>10, <1>12, <1>13

\* The state is a record of these fields.
NightStates(s) ==
  [may : {s.may}, now : Nat, stale : BOOLEAN, enabled : BOOLEAN, automatic : BOOLEAN,
   schedule : Hours, place : Nl!Places \cup {"none"}, sun : Suns,
   validate : {s.validate}, location : {s.location}, geoclue : {s.geoclue},
   forced : BOOLEAN, forced_timeout : BOOLEAN, disabled : BOOLEAN, disabled_at : Nat,
   active : BOOLEAN, temperature : {s.temperature}, target : {s.target}, smooth : BOOLEAN,
   state_temperature : {s.state_temperature}, set_by_client : BOOLEAN]

\* What a temperature is wanted for is as it was.
SameNight(s, t) ==
  /\ t.may = s.may /\ t.now = s.now /\ t.stale = s.stale /\ t.enabled = s.enabled
  /\ t.automatic = s.automatic /\ t.schedule = s.schedule /\ t.sun = s.sun /\ t.place = s.place
  /\ t.disabled = s.disabled /\ t.disabled_at = s.disabled_at

\* What does not change but by a step of its own.
SameScreen(s, t) ==
  /\ t.forced = s.forced /\ t.forced_timeout = s.forced_timeout /\ t.temperature = s.temperature
  /\ t.state_temperature = s.state_temperature /\ t.set_by_client = s.set_by_client

LEMMA ScheduleOps ==
  ASSUME NEW s, s \in NightStates(s)
  PROVE  Nl!ScheduleOf(s) \in Hours
<1>1. s.schedule \in Hours /\ s.sun \in Suns
  BY DEF NightStates
<1>2. CASE s.automatic /\ s.sun.from > 0 /\ s.sun.to > 0
  <2>1. s.sun \in Hours
    <3>1. /\ s.sun.from \in Nat /\ s.sun.to \in Nat /\ s.sun.from <= s.sun.to + Day
          /\ s.sun = [from |-> s.sun.from, to |-> s.sun.to]
      BY <1>1, <1>2 DEF Suns
    <3> QED
      BY <3>1 DEF Hours
  <2> QED
    BY <1>2, <2>1 DEF Nl!ScheduleOf
<1> QED
  BY <1>1, <1>2 DEF Nl!ScheduleOf

LEMMA SetTemperatureOps ==
  ASSUME NEW s, s \in NightStates(s), NEW v
  PROVE  LET t == Nl!SetTemperature(s, v)
         IN /\ t \in NightStates(t) /\ SameNight(s, t) /\ SameScreen(s, t)
            /\ t.active = s.active /\ Nl!Heading(t) = v
<1> DEFINE smooth == v # s.temperature
           t == [s EXCEPT !.target = v, !.smooth = smooth]
<1>1. smooth \in BOOLEAN /\ (smooth <=> v # s.temperature)
  OBVIOUS
<1>2. Nl!SetTemperature(s, v) = t
  BY DEF Nl!SetTemperature
<1> HIDE DEF smooth
<1>3. t \in NightStates(t) /\ SameNight(s, t) /\ SameScreen(s, t) /\ t.active = s.active
  BY <1>1 DEF NightStates, SameNight, SameScreen
<1>4. t.target = v /\ t.smooth = smooth /\ t.temperature = s.temperature
  BY DEF NightStates
<1> HIDE DEF t
<1>5. Nl!Heading(t) = v
  BY <1>1, <1>4 DEF Nl!Heading
<1> QED
  BY <1>2, <1>3, <1>5

LEMMA SetActiveOps ==
  ASSUME NEW s, s \in NightStates(s), ~s.active => Nl!Heading(s) = 0, NEW active \in BOOLEAN
  PROVE  LET t == Nl!SetActive(s, active)
         IN /\ t \in NightStates(t) /\ SameNight(s, t) /\ SameScreen(s, t)
            /\ t.active = active /\ (~active => Nl!Heading(t) = 0)
<1> DEFINE on  == [s EXCEPT !.active = TRUE]
           off == [s EXCEPT !.active = FALSE]
<1>1. s.active \in BOOLEAN
  BY DEF NightStates
<1>2. CASE s.active = active
  BY <1>2 DEF Nl!SetActive, SameNight, SameScreen
<1>3. CASE s.active # active /\ active
  <2>1. Nl!SetActive(s, active) = on
    BY <1>3 DEF Nl!SetActive
  <2>2. on \in NightStates(on) /\ SameNight(s, on) /\ SameScreen(s, on) /\ on.active = active
    BY <1>3 DEF NightStates, SameNight, SameScreen
  <2> QED
    BY <1>3, <2>1, <2>2
<1>4. CASE s.active # active /\ ~active
  <2>1. Nl!SetActive(s, active) = Nl!SetTemperature(off, 0)
    BY <1>4 DEF Nl!SetActive
  <2>2. off \in NightStates(off) /\ SameNight(s, off) /\ SameScreen(s, off) /\ off.active = FALSE
    BY DEF NightStates, SameNight, SameScreen
  <2> HIDE DEF off
  <2> DEFINE t == Nl!SetTemperature(off, 0)
  <2>3. /\ t \in NightStates(t) /\ SameNight(off, t) /\ SameScreen(off, t)
        /\ t.active = off.active /\ Nl!Heading(t) = 0
    BY <2>2, SetTemperatureOps
  <2> HIDE DEF t
  <2>4. SameNight(s, t) /\ SameScreen(s, t) /\ t.active = active
    BY <1>4, <2>2, <2>3 DEF SameNight, SameScreen
  <2> QED
    BY <2>1, <2>3, <2>4 DEF t
<1> QED
  BY <1>1, <1>2, <1>3, <1>4

LEMMA UpdateSunOps ==
  ASSUME NEW s, s \in NightStates(s)
  PROVE  LET t == Nl!UpdateSun(s)
         IN /\ t \in NightStates(t) /\ t = [s EXCEPT !.sun = t.sun] /\ Nl!UpdateSun(t).sun = t.sun
<1> DEFINE sun == IF s.place = "none" \/ SunAt[s.place] = Nl!Unknown THEN s.sun ELSE SunAt[s.place]
           t   == [s EXCEPT !.sun = sun]
<1>1. Nl!UpdateSun(s) = t
  BY DEF Nl!UpdateSun, NightStates
<1>2. sun \in Suns
  BY NightAssumption DEF NightStates, Suns
<1>3. t.sun = sun /\ t.place = s.place
  BY DEF NightStates
<1>4. t \in NightStates(t)
  <2> HIDE DEF sun
  <2> QED
    BY <1>2 DEF NightStates
<1>5. Nl!UpdateSun(t).sun = t.sun
  <2> DEFINE r == Nl!UpdateSun(t)
  <2>1. CASE t.place = "none" \/ SunAt[t.place] = Nl!Unknown
    BY <2>1 DEF Nl!UpdateSun
  <2>2. CASE ~(t.place = "none" \/ SunAt[t.place] = Nl!Unknown)
    <3>1. r = [t EXCEPT !.sun = SunAt[t.place]] /\ sun = SunAt[t.place]
      BY <1>3, <2>2 DEF Nl!UpdateSun
    <3> HIDE DEF sun, r, t
    <3>2. r.sun = SunAt[t.place]
      BY <1>4, <3>1 DEF NightStates
    <3> QED
      BY <1>3, <3>1, <3>2 DEF r
  <2> QED
    BY <2>1, <2>2
<1> QED
  BY <1>1, <1>3, <1>4, <1>5

\* A night light that stays disabled has seen no sunrise since it was.
NoSunrise(s) ==
  s.now # s.disabled_at + Day =>
    \A t \in s.disabled_at .. s.now - 1 : Nl!FracDay(t) # Nl!ScheduleOf(s).to

LEMMA NoSunriseOps ==
  ASSUME NEW d \in Nat, NEW n \in Nat, NEW to \in 0 .. Day - 1, n - d < Day,
         n - d > 0 /\ Nl!FracDay(d) # Nl!FracDay(n) => ~Nl!IsBetween(to, Nl!FracDay(d), Nl!FracDay(n)),
         NEW t \in d .. n - 1
  PROVE  Nl!FracDay(t) # to
<1> DEFINE f == Nl!FracDay(d)
           k == t - d
           m == n - d
<1>1. /\ f \in 0 .. Day - 1
      /\ \A i \in 0 .. Day - 1 : Nl!FracDay(d + i) = IF f + i < Day THEN f + i ELSE f + i - Day
  BY FracDayOps
<1>2. k \in 0 .. Day - 1 /\ m \in 1 .. Day - 1 /\ k < m /\ d + k = t /\ d + m = n /\ Day \in Nat \ {0}
  BY NightAssumption
<1> HIDE DEF f, k, m
<1>3. m \in 0 .. Day - 1
  BY <1>2
<1>4. /\ Nl!FracDay(t) = IF f + k < Day THEN f + k ELSE f + k - Day
      /\ Nl!FracDay(n) = IF f + m < Day THEN f + m ELSE f + m - Day
  BY <1>1, <1>2, <1>3
<1> DEFINE ft == Nl!FracDay(t)
           fn == Nl!FracDay(n)
<1>5. n - d > 0 /\ f # fn
  BY <1>1, <1>2, <1>4
<1>6. ~Nl!IsBetween(to, f, fn)
  BY <1>5 DEF f
<1> HIDE DEF ft, fn
<1>7. /\ ft = IF f + k < Day THEN f + k ELSE f + k - Day
      /\ fn = IF f + m < Day THEN f + m ELSE f + m - Day
  BY <1>4 DEF ft, fn
<1>8. Nl!IsBetween(ft, f, fn)
  BY <1>1, <1>2, <1>7 DEF Nl!IsBetween
<1> QED
  BY <1>6, <1>8 DEF ft

LEMMA ResetDisabledOps ==
  ASSUME NEW s, s \in NightStates(s)
  PROVE  LET t == Nl!ResetDisabled(s)
         IN /\ t \in NightStates(t) /\ t = [s EXCEPT !.disabled = t.disabled]
            /\ t.disabled => NoSunrise(t)
<1> DEFINE span == s.now - s.disabled_at
           sunrise == /\ span > 0 /\ Nl!FracDay(s.disabled_at) # Nl!FracDay(s.now)
                      /\ Nl!IsBetween(Nl!ScheduleOf(s).to, Nl!FracDay(s.disabled_at), Nl!FracDay(s.now))
           t == [s EXCEPT !.disabled = FALSE]
<1>1. /\ s.now \in Nat /\ s.disabled_at \in Nat /\ s.disabled \in BOOLEAN /\ s = [s EXCEPT !.disabled = s.disabled]
      /\ Nl!ScheduleOf(s).to \in Nat
  BY ScheduleOps DEF NightStates, Hours
<1>2. Nl!ResetDisabled(s) = IF s.disabled /\ (span > Day \/ sunrise) THEN t ELSE s
  BY DEF Nl!ResetDisabled
<1>3. t \in NightStates(t) /\ t.disabled = FALSE
  BY DEF NightStates
<1>4. ASSUME ~(span > Day \/ sunrise) PROVE NoSunrise(s)
  <2> SUFFICES ASSUME s.now # s.disabled_at + Day, NEW u \in s.disabled_at .. s.now - 1
               PROVE  Nl!FracDay(u) # Nl!ScheduleOf(s).to
    BY DEF NoSunrise
  <2>1. span < Day
    BY <1>1, <1>4, NightAssumption
  <2>2. span > 0 /\ Nl!FracDay(s.disabled_at) # Nl!FracDay(s.now)
          => ~Nl!IsBetween(Nl!ScheduleOf(s).to, Nl!FracDay(s.disabled_at), Nl!FracDay(s.now))
    BY <1>4
  <2>3. CASE Nl!ScheduleOf(s).to < Day
    <3>1. Nl!ScheduleOf(s).to \in 0 .. Day - 1
      BY <1>1, <2>3, NightAssumption
    <3> QED
      BY <1>1, <2>1, <2>2, <3>1, NoSunriseOps
  <2>4. CASE Nl!ScheduleOf(s).to >= Day
    <3>1. u \in Nat
      BY <1>1
    <3>2. Nl!FracDay(u) \in 0 .. Day - 1
      BY <3>1, FracDayOps
    <3> QED
      BY <1>1, <2>4, <3>2, NightAssumption
  <2> QED
    BY <1>1, <2>3, <2>4, NightAssumption
<1>5. CASE s.disabled /\ (span > Day \/ sunrise)
  BY <1>2, <1>3, <1>5
<1>6. CASE ~s.disabled
  BY <1>1, <1>2, <1>6
<1>7. CASE s.disabled /\ ~(span > Day \/ sunrise)
  BY <1>1, <1>2, <1>4, <1>7
<1> QED
  BY <1>5, <1>6, <1>7

\* Where the screen is going to has a reason.
HeadsRight(s) ==
  \/ Nl!CrossesMidnight(Nl!ScheduleOf(s)) \/ Nl!SunIsLate(Nl!ScheduleOf(s), Nl!FracDay(s.now))
  \/ Nl!Heading(s) = Nl!Wanted(s)

\* A night light that is off has no temperature; a preview is no night light.
OffIsDark(s) == ~s.active /\ ~s.forced => Nl!Heading(s) = 0

\* What a recheck leaves.
Rechecked(s, t) ==
  /\ t \in NightStates(t) /\ SameScreen(s, t) /\ HeadsRight(t) /\ OffIsDark(t)
  /\ t.forced \/ ~t.enabled => Nl!Heading(t) = Nl!Wanted(t)
  /\ t.disabled /\ t.enabled /\ ~t.forced => NoSunrise(t)
  /\ t.forced \/ ~t.enabled \/ ~t.automatic \/ Nl!UpdateSun(t).sun = t.sun

LEMMA SameSchedule ==
  ASSUME NEW s, NEW t, SameNight(s, t)
  PROVE  Nl!ScheduleOf(t) = Nl!ScheduleOf(s) /\ (NoSunrise(s) <=> NoSunrise(t))
<1>1. Nl!ScheduleOf(t) = Nl!ScheduleOf(s)
  BY DEF SameNight, Nl!ScheduleOf
<1> QED
  BY <1>1 DEF SameNight, NoSunrise

\* The sun is that of the place.
LEMMA SameSun ==
  ASSUME NEW s, NEW t, s \in NightStates(s), t \in NightStates(t), t.place = s.place, t.sun = s.sun,
         Nl!UpdateSun(s).sun = s.sun
  PROVE  Nl!UpdateSun(t).sun = t.sun
<1>1. CASE s.place = "none" \/ SunAt[s.place] = Nl!Unknown
  BY <1>1 DEF Nl!UpdateSun
<1>2. CASE ~(s.place = "none" \/ SunAt[s.place] = Nl!Unknown)
  <2>1. Nl!UpdateSun(s) = [s EXCEPT !.sun = SunAt[s.place]] /\ Nl!UpdateSun(t) = [t EXCEPT !.sun = SunAt[t.place]]
    BY <1>2 DEF Nl!UpdateSun
  <2>2. Nl!UpdateSun(s).sun = SunAt[s.place] /\ Nl!UpdateSun(t).sun = SunAt[t.place]
    BY <2>1 DEF NightStates
  <2> QED
    BY <2>2
<1> QED
  BY <1>1, <1>2

\* What night light wants of the moment.
LEMMA WantedOps ==
  ASSUME NEW s, s \in NightStates(s), ~s.forced, s.enabled, ~Nl!CrossesMidnight(Nl!ScheduleOf(s)),
         ~Nl!SunIsLate(Nl!ScheduleOf(s), Nl!FracDay(s.now))
  PROVE  Nl!Wanted(s) =
           LET w == Nl!ScheduleOf(s)
           IN IF ~s.disabled /\ Nl!IsBetween(Nl!FracDay(s.now), w.from - Nl!SmearOf(w), w.to)
              THEN Nl!Smeared(w, Nl!FracDay(s.now)) ELSE 0
<1> DEFINE w == Nl!ScheduleOf(s)
           frac == Nl!FracDay(s.now)
<1>1. w \in Hours /\ frac \in 0 .. Day - 1
  BY ScheduleOps, FracDayOps DEF NightStates
<1>2. Nl!Wanted(s) = IF s.disabled THEN 0 ELSE Nl!Reference(w, frac)
  BY DEF Nl!Wanted
<1> HIDE DEF w, frac
<1>3. Nl!Reference(w, frac) = IF Nl!IsBetween(frac, w.from - Nl!SmearOf(w), w.to) THEN Nl!Smeared(w, frac) ELSE 0
  BY <1>1, RampsOps DEF w, frac
<1>4. s.disabled \in BOOLEAN
  BY DEF NightStates
<1> QED
  BY <1>2, <1>3, <1>4 DEF w, frac

LEMMA RecheckInv ==
  ASSUME NEW s, s \in NightStates(s), OffIsDark(s)
  PROVE  Rechecked(s, Nl!Recheck(s))
<1> DEFINE fresh == [s EXCEPT !.stale = FALSE]
           sunny == IF s.automatic THEN Nl!UpdateSun(fresh) ELSE fresh
           today == Nl!ResetDisabled(sunny)
           w     == Nl!ScheduleOf(sunny)
           frac  == Nl!FracDay(s.now)
           lit   == Nl!IsBetween(frac, w.from - Nl!SmearOf(w), w.to)
           on    == Nl!SetActive(today, TRUE)
           v     == IF today.disabled THEN 0 ELSE Nl!Smeared(w, frac)
<1>1. /\ fresh \in NightStates(fresh) /\ SameScreen(s, fresh) /\ OffIsDark(fresh)
      /\ fresh.forced = s.forced /\ fresh.enabled = s.enabled /\ fresh.now = s.now /\ fresh.automatic = s.automatic
      /\ s.forced \in BOOLEAN /\ s.enabled \in BOOLEAN /\ s.automatic \in BOOLEAN
  BY DEF NightStates, SameScreen, OffIsDark, Nl!Heading
<1>2. Nl!Recheck(s) = IF s.forced THEN Nl!SetTemperature(fresh, Full)
                      ELSE IF ~s.enabled THEN Nl!SetActive(fresh, FALSE)
                      ELSE IF ~lit THEN Nl!SetActive(today, FALSE)
                      ELSE Nl!SetTemperature(on, v)
  <2>1. CASE s.forced
    BY <1>1, <2>1 DEF Nl!Recheck
  <2>2. CASE ~s.forced /\ ~s.enabled
    BY <1>1, <2>2 DEF Nl!Recheck
  <2>3. CASE ~s.forced /\ s.enabled
    BY <1>1, <2>3 DEF Nl!Recheck
  <2> QED
    BY <1>1, <2>1, <2>2, <2>3
<1> HIDE DEF fresh, sunny, today, w, frac, lit, on, v
<1>3. CASE s.forced
  <2> DEFINE t == Nl!SetTemperature(fresh, Full)
  <2>1. /\ t \in NightStates(t) /\ SameNight(fresh, t) /\ SameScreen(fresh, t)
        /\ t.active = fresh.active /\ Nl!Heading(t) = Full
    BY <1>1, SetTemperatureOps
  <2> HIDE DEF t
  <2>2. SameScreen(s, t) /\ t.forced
    BY <1>1, <1>3, <2>1 DEF SameScreen
  <2>3. Nl!Wanted(t) = Full
    BY <2>2 DEF Nl!Wanted
  <2>4. Rechecked(s, t)
    BY <2>1, <2>2, <2>3 DEF Rechecked, HeadsRight, OffIsDark
  <2> QED
    BY <1>2, <1>3, <2>4 DEF t
<1>4. CASE ~s.forced /\ ~s.enabled
  <2> DEFINE t == Nl!SetActive(fresh, FALSE)
  <2>1. ~fresh.active => Nl!Heading(fresh) = 0
    BY <1>1, <1>4 DEF OffIsDark
  <2>2. /\ t \in NightStates(t) /\ SameNight(fresh, t) /\ SameScreen(fresh, t)
        /\ t.active = FALSE /\ Nl!Heading(t) = 0
    BY <1>1, <2>1, SetActiveOps
  <2> HIDE DEF t
  <2>3. SameScreen(s, t) /\ ~t.forced /\ ~t.enabled
    BY <1>1, <1>4, <2>2 DEF SameScreen, SameNight
  <2>4. Nl!Wanted(t) = 0
    BY <2>3 DEF Nl!Wanted
  <2>5. Rechecked(s, t)
    BY <2>2, <2>3, <2>4 DEF Rechecked, HeadsRight, OffIsDark
  <2> QED
    BY <1>2, <1>4, <2>5 DEF t
<1>5. CASE ~s.forced /\ s.enabled
  <2>1. /\ sunny \in NightStates(sunny) /\ sunny = [fresh EXCEPT !.sun = sunny.sun]
        /\ sunny.automatic => Nl!UpdateSun(sunny).sun = sunny.sun
    <3>1. CASE s.automatic
      BY <1>1, <3>1, UpdateSunOps DEF sunny
    <3>2. CASE ~s.automatic
      BY <1>1, <3>2 DEF sunny, NightStates
    <3> QED
      BY <1>1, <3>1, <3>2
  <2>2. /\ today \in NightStates(today) /\ today = [sunny EXCEPT !.disabled = today.disabled]
        /\ today.disabled => NoSunrise(today)
    BY <2>1, ResetDisabledOps DEF today
  <2>3. /\ today.forced = s.forced /\ SameScreen(s, today) /\ today.enabled /\ today.now = s.now
        /\ OffIsDark(today) /\ today.active = fresh.active
    <3>1. SameScreen(s, sunny) /\ sunny.enabled = s.enabled /\ sunny.now = s.now /\ OffIsDark(sunny)
      BY <1>1, <2>1 DEF NightStates, SameScreen, OffIsDark, Nl!Heading
    <3>2. /\ today.forced = sunny.forced /\ SameScreen(sunny, today) /\ today.enabled = sunny.enabled
          /\ today.now = sunny.now /\ today.active = sunny.active
          /\ today.smooth = sunny.smooth /\ today.target = sunny.target
      BY <2>1, <2>2 DEF NightStates, SameScreen
    <3>3. sunny.active = fresh.active /\ sunny.forced = s.forced
      BY <1>1, <2>1 DEF NightStates
    <3> QED
      BY <1>5, <3>1, <3>2, <3>3 DEF SameScreen, OffIsDark, Nl!Heading
  <2>4. /\ Nl!ScheduleOf(today) = w
        /\ today.automatic => Nl!UpdateSun(today).sun = today.sun
    <3>1. /\ today.sun = sunny.sun /\ today.automatic = sunny.automatic /\ today.schedule = sunny.schedule
          /\ today.place = sunny.place
      BY <2>1, <2>2 DEF NightStates
    <3>2. Nl!ScheduleOf(today) = w
      BY <3>1 DEF w, Nl!ScheduleOf
    <3>3. ASSUME today.automatic PROVE Nl!UpdateSun(today).sun = today.sun
      BY <2>1, <2>2, <3>1, <3>3, SameSun
    <3> QED
      BY <3>2, <3>3
  <2>5. ~today.active => Nl!Heading(today) = 0
    BY <1>5, <2>3 DEF OffIsDark
  <2>6. ASSUME NEW t, t \in NightStates(t), SameNight(today, t), SameScreen(today, t),
               ~t.active => Nl!Heading(t) = 0,
               Nl!Heading(t) = IF lit THEN v ELSE 0
        PROVE  Rechecked(s, t)
    <3>1. SameScreen(s, t) /\ ~t.forced /\ t.enabled /\ t.disabled = today.disabled /\ t.now = s.now
      BY <1>5, <2>3, <2>6 DEF SameScreen, SameNight
    <3>2. Nl!ScheduleOf(t) = w /\ (t.disabled => NoSunrise(t)) /\ (t.automatic => Nl!UpdateSun(t).sun = t.sun)
      <4>1. t.automatic = today.automatic /\ t.place = today.place /\ t.sun = today.sun
        BY <2>6 DEF SameNight
      <4>2. t.automatic => Nl!UpdateSun(t).sun = t.sun
        BY <2>2, <2>4, <2>6, <4>1, SameSun
      <4> QED
        BY <2>2, <2>4, <2>6, <3>1, <4>2, SameSchedule
    <3>3. HeadsRight(t)
      <4> SUFFICES ASSUME ~Nl!CrossesMidnight(Nl!ScheduleOf(t)),
                          ~Nl!SunIsLate(Nl!ScheduleOf(t), Nl!FracDay(t.now))
                   PROVE  Nl!Heading(t) = Nl!Wanted(t)
        BY DEF HeadsRight
      <4>1. Nl!Wanted(t) = IF ~t.disabled /\ lit THEN Nl!Smeared(w, frac) ELSE 0
        BY <2>6, <3>1, <3>2, WantedOps DEF lit, frac
      <4> QED
        BY <2>6, <3>1, <4>1 DEF v
    <3> QED
      BY <2>6, <3>1, <3>2, <3>3 DEF Rechecked, OffIsDark
  <2>7. CASE ~lit
    <3> DEFINE t == Nl!SetActive(today, FALSE)
    <3>1. /\ t \in NightStates(t) /\ SameNight(today, t) /\ SameScreen(today, t)
          /\ t.active = FALSE /\ Nl!Heading(t) = 0
      BY <2>2, <2>5, SetActiveOps
    <3> HIDE DEF t
    <3>2. Rechecked(s, t)
      BY <2>6, <2>7, <3>1
    <3> QED
      BY <1>2, <1>5, <2>7, <3>2 DEF t
  <2>8. CASE lit
    <3> DEFINE t == Nl!SetTemperature(on, v)
    <3>1. /\ on \in NightStates(on) /\ SameNight(today, on) /\ SameScreen(today, on) /\ on.active = TRUE
      BY <2>2, <2>5, SetActiveOps DEF on
    <3>2. /\ t \in NightStates(t) /\ SameNight(on, t) /\ SameScreen(on, t)
          /\ t.active = on.active /\ Nl!Heading(t) = v
      BY <3>1, SetTemperatureOps
    <3> HIDE DEF t
    <3>3. SameNight(today, t) /\ SameScreen(today, t)
      BY <3>1, <3>2 DEF SameNight, SameScreen
    <3>4. Rechecked(s, t)
      BY <2>6, <2>8, <3>1, <3>2, <3>3
    <3> QED
      BY <1>2, <1>5, <2>8, <3>4 DEF t
  <2> QED
    BY <2>7, <2>8
<1> QED
  BY <1>1, <1>3, <1>4, <1>5

\* The invariant.
NlInv(s) ==
  /\ s \in NightStates(s) /\ OffIsDark(s)
  /\ s.stale \/ HeadsRight(s)
  /\ s.disabled /\ ~s.stale /\ s.enabled /\ ~s.forced => NoSunrise(s)
  /\ s.forced = s.forced_timeout
  /\ s.set_by_client \/ s.state_temperature = s.temperature

\* A recheck after what changes neither the preview nor the screen.
LEMMA RecheckedInv ==
  ASSUME NEW s, NEW r, NlInv(s), r \in NightStates(r), SameScreen(s, r), r.active = s.active,
         r.smooth = s.smooth, r.target = s.target
  PROVE  NlInv(Nl!Recheck(r))
<1> DEFINE t == Nl!Recheck(r)
<1>1. OffIsDark(r)
  BY DEF NlInv, OffIsDark, SameScreen, Nl!Heading
<1>2. Rechecked(r, t)
  BY <1>1, RecheckInv
<1> HIDE DEF t
<1>3. NlInv(t)
  BY <1>2 DEF Rechecked, NlInv, SameScreen
<1> QED
  BY <1>3 DEF t

\* What a recheck does not look at.
LEMMA QuietNightInv ==
  ASSUME NEW s, NEW t, NlInv(s), t \in NightStates(t), SameNight(s, t), SameScreen(s, t),
         t.active = s.active, t.smooth = s.smooth, t.target = s.target
  PROVE  NlInv(t)
<1>1. Nl!ScheduleOf(t) = Nl!ScheduleOf(s) /\ (NoSunrise(s) <=> NoSunrise(t))
  BY SameSchedule
<1>2. Nl!Heading(t) = Nl!Heading(s) /\ Nl!Wanted(t) = Nl!Wanted(s)
  BY <1>1 DEF Nl!Heading, Nl!Wanted, SameNight, SameScreen
<1> QED
  BY <1>1, <1>2 DEF NlInv, HeadsRight, OffIsDark, SameNight, SameScreen

LEMMA ClockInv ==
  ASSUME NlInv(st), Nl!TimePasses \/ Nl!ClockSetBack
  PROVE  NlInv(st')
<1>1. st \in NightStates(st)
  BY DEF NlInv
<1>2. PICK now \in Nat : st' = [st EXCEPT !.now = now, !.stale = TRUE]
  <2>1. st.now \in Nat
    BY <1>1 DEF NightStates
  <2>2. CASE Nl!TimePasses
    <3>1. st' = [st EXCEPT !.now = st.now + 1, !.stale = TRUE]
      BY <2>2 DEF Nl!TimePasses
    <3>2. st.now + 1 \in Nat
      BY <2>1
    <3> QED
      BY <3>1, <3>2
  <2>3. CASE Nl!ClockSetBack
    <3>1. st.now >= 3 /\ st' = [st EXCEPT !.now = st.now - 3, !.stale = TRUE]
      BY <2>3 DEF Nl!ClockSetBack
    <3>2. st.now - 3 \in Nat
      BY <2>1, <3>1
    <3> QED
      BY <3>1, <3>2
  <2> QED
    BY <2>2, <2>3
<1>3. /\ st' \in NightStates(st') /\ st'.stale = TRUE /\ SameScreen(st, st')
      /\ st'.active = st.active /\ st'.smooth = st.smooth /\ st'.target = st.target
  BY <1>1, <1>2 DEF NightStates, SameScreen
<1> QED
  BY <1>3 DEF NlInv, OffIsDark, SameScreen, Nl!Heading

LEMMA RechecksInv ==
  ASSUME NlInv(st), Nl!PollTimeout \/ Nl!ValidateTimeout \/ Nl!SettingsChange
  PROVE  NlInv(st')
<1>1. st \in NightStates(st)
  BY DEF NlInv
<1>2. \E r : /\ st' = Nl!Recheck(r) /\ r \in NightStates(r) /\ SameScreen(st, r)
             /\ r.active = st.active /\ r.smooth = st.smooth /\ r.target = st.target
  <2>1. CASE Nl!PollTimeout
    BY <1>1, <2>1 DEF Nl!PollTimeout, SameScreen
  <2>2. CASE Nl!ValidateTimeout
    <3> DEFINE r == [st EXCEPT !.validate = FALSE]
    <3>1. st' = Nl!Recheck(r)
      BY <2>2 DEF Nl!ValidateTimeout
    <3>2. /\ r \in NightStates(r) /\ SameScreen(st, r)
          /\ r.active = st.active /\ r.smooth = st.smooth /\ r.target = st.target
      BY <1>1 DEF NightStates, SameScreen
    <3> QED
      BY <3>1, <3>2
  <2>3. CASE Nl!SettingsChange
    <3> DEFINE r == [st EXCEPT !.enabled = ~@]
               q == [st EXCEPT !.automatic = ~@]
               Scheduled(w) == [st EXCEPT !.schedule = w]
    <3>1. \/ st' = Nl!Recheck(r) \/ st' = Nl!Recheck(q)
          \/ \E w \in Schedules : st' = Nl!Recheck(Scheduled(w))
      BY <2>3 DEF Nl!SettingsChange
    <3>2. /\ r \in NightStates(r) /\ SameScreen(st, r)
          /\ r.active = st.active /\ r.smooth = st.smooth /\ r.target = st.target
      BY <1>1 DEF NightStates, SameScreen
    <3>3. /\ q \in NightStates(q) /\ SameScreen(st, q)
          /\ q.active = st.active /\ q.smooth = st.smooth /\ q.target = st.target
      BY <1>1 DEF NightStates, SameScreen
    <3>4. ASSUME NEW w \in Schedules
          PROVE  LET p == Scheduled(w)
                 IN /\ p \in NightStates(p) /\ SameScreen(st, p)
                    /\ p.active = st.active /\ p.smooth = st.smooth /\ p.target = st.target
      <4>1. w \in Hours
        BY NightAssumption DEF Hours
      <4> QED
        BY <1>1, <4>1 DEF NightStates, SameScreen
    <3> HIDE DEF r, q, Scheduled
    <3> QED
      BY <3>1, <3>2, <3>3, <3>4
  <2> QED
    BY <2>1, <2>2, <2>3
<1> QED
  BY <1>2, RecheckedInv

LEMMA LocationNotifyInv ==
  ASSUME NlInv(st), Nl!LocationNotify
  PROVE  NlInv(st')
<1>1. st \in NightStates(st)
  BY DEF NlInv
<1>2. PICK place \in Nl!Places :
        LET s == Nl!Recheck([st EXCEPT !.geoclue = "on", !.place = place])
            t == Nl!UpdateSun(s)
        IN st' = [t EXCEPT !.validate = @ \/ t.sun # s.sun]
  BY DEF Nl!LocationNotify
<1> DEFINE r == [st EXCEPT !.geoclue = "on", !.place = place]
           s == Nl!Recheck(r)
           t == Nl!UpdateSun(s)
           validate == t.validate \/ t.sun # s.sun
<1>3. /\ r \in NightStates(r) /\ SameScreen(st, r)
      /\ r.active = st.active /\ r.smooth = st.smooth /\ r.target = st.target
  BY <1>1 DEF NightStates, SameScreen
<1> HIDE DEF r
<1>4. NlInv(s)
  BY <1>3, RecheckedInv
<1>5. Rechecked(r, s)
  <2>1. OffIsDark(r)
    BY <1>3 DEF NlInv, OffIsDark, SameScreen, Nl!Heading
  <2> QED
    BY <1>3, <2>1, RecheckInv
<1> HIDE DEF s
<1>6. t \in NightStates(t) /\ t = [s EXCEPT !.sun = t.sun] /\ s \in NightStates(s)
  BY <1>4, UpdateSunOps DEF NlInv
<1>7. st' = [t EXCEPT !.validate = validate]
  BY <1>2, <1>6 DEF r, s, NightStates
<1>8. t.forced \/ ~t.enabled \/ ~t.automatic \/ t.sun = s.sun
  BY <1>5, <1>6 DEF Rechecked, NightStates
<1> HIDE DEF t, validate
<1>9. /\ t.forced = s.forced /\ t.enabled = s.enabled /\ t.automatic = s.automatic /\ t.schedule = s.schedule
      /\ t.disabled = s.disabled /\ t.disabled_at = s.disabled_at /\ t.now = s.now /\ t.stale = s.stale
      /\ SameScreen(s, t) /\ t.active = s.active /\ t.smooth = s.smooth /\ t.target = s.target
  BY <1>6 DEF NightStates, SameScreen
<1>10. NlInv(t)
  <2>1. Nl!Heading(t) = Nl!Heading(s)
    BY <1>9 DEF Nl!Heading, SameScreen
  <2>2. CASE t.forced \/ ~t.enabled
    <3>1. Nl!Wanted(t) = Nl!Wanted(s) /\ Nl!Heading(s) = Nl!Wanted(s)
      BY <1>5, <1>9, <2>2 DEF Nl!Wanted, Rechecked
    <3> QED
      BY <1>4, <1>6, <1>9, <2>1, <2>2, <3>1 DEF NlInv, HeadsRight, OffIsDark, SameScreen
  <2>3. CASE ~t.automatic \/ t.sun = s.sun
    <3>1. Nl!ScheduleOf(t) = Nl!ScheduleOf(s)
      BY <1>9, <2>3 DEF Nl!ScheduleOf
    <3>2. Nl!Wanted(t) = Nl!Wanted(s) /\ (NoSunrise(s) <=> NoSunrise(t))
      BY <1>9, <3>1 DEF Nl!Wanted, NoSunrise
    <3> QED
      BY <1>4, <1>6, <1>9, <2>1, <3>1, <3>2 DEF NlInv, HeadsRight, OffIsDark, SameScreen
  <2> QED
    BY <1>8, <2>2, <2>3
<1>11. /\ st' \in NightStates(st') /\ SameNight(t, st') /\ SameScreen(t, st')
       /\ st'.active = t.active /\ st'.smooth = t.smooth /\ st'.target = t.target
  BY <1>6, <1>7 DEF NightStates, SameNight, SameScreen
<1> QED
  BY <1>10, <1>11, QuietNightInv

\* A preview begins or ends.
LEMMA SetForcedInv ==
  ASSUME NlInv(st), NEW value \in BOOLEAN, NEW p, p = [st EXCEPT !.forced_timeout = value],
         ~value => st.forced_timeout
  PROVE  NlInv(Nl!SetForced(p, value))
<1> DEFINE f == [p EXCEPT !.forced = value]
           dark == Nl!SetTemperature(f, 0)
           r == IF ~value /\ ~p.active THEN dark ELSE f
           t == Nl!Recheck(r)
<1>1. st \in NightStates(st) /\ st.forced = st.forced_timeout /\ st.forced \in BOOLEAN
  BY DEF NlInv, NightStates
<1>2. /\ p \in NightStates(p) /\ SameNight(st, p) /\ p.forced = st.forced /\ p.forced_timeout = value
      /\ p.temperature = st.temperature /\ p.state_temperature = st.state_temperature
      /\ p.set_by_client = st.set_by_client
      /\ p.active = st.active /\ p.smooth = st.smooth /\ p.target = st.target
  BY <1>1 DEF NightStates, SameNight
<1>3. CASE p.forced = value
  <2>1. Nl!SetForced(p, value) = p
    BY <1>3 DEF Nl!SetForced
  <2>2. SameScreen(st, p)
    BY <1>1, <1>2, <1>3 DEF SameScreen
  <2> QED
    BY <1>2, <2>1, <2>2, QuietNightInv
<1>4. CASE p.forced # value
  <2>1. Nl!SetForced(p, value) = t
    BY <1>4 DEF Nl!SetForced
  <2>2. /\ f \in NightStates(f) /\ f.forced = value /\ f.forced_timeout = value
        /\ f.temperature = st.temperature /\ f.state_temperature = st.state_temperature
        /\ f.set_by_client = st.set_by_client /\ f.active = p.active
    BY <1>2 DEF NightStates
  <2> HIDE DEF f
  <2>3. /\ dark \in NightStates(dark) /\ SameScreen(f, dark) /\ dark.active = f.active /\ Nl!Heading(dark) = 0
    BY <2>2, SetTemperatureOps
  <2> HIDE DEF dark
  <2>4. /\ r \in NightStates(r) /\ SameScreen(f, r) /\ OffIsDark(r)
    <3>1. CASE ~value /\ ~p.active
      BY <2>3, <3>1 DEF OffIsDark
    <3>2. CASE ~(~value /\ ~p.active)
      BY <2>2, <3>2 DEF OffIsDark, SameScreen
    <3> QED
      BY <3>1, <3>2
  <2> HIDE DEF r
  <2>5. Rechecked(r, t)
    BY <2>4, RecheckInv
  <2> HIDE DEF t
  <2>6. NlInv(t)
    BY <2>2, <2>4, <2>5 DEF NlInv, Rechecked, SameScreen
  <2> QED
    BY <2>1, <2>6
<1> QED
  BY <1>3, <1>4

LEMMA SetDisabledInv ==
  ASSUME NlInv(st), NEW value \in BOOLEAN
  PROVE  NlInv(Nl!SetDisabled(st, value))
<1> DEFINE r == [st EXCEPT !.disabled = value, !.disabled_at = st.now]
<1>1. st \in NightStates(st)
  BY DEF NlInv
<1>2. CASE st.disabled = value
  BY <1>2 DEF Nl!SetDisabled
<1>3. CASE st.disabled # value
  <2>1. Nl!SetDisabled(st, value) = Nl!Recheck(r)
    BY <1>3 DEF Nl!SetDisabled
  <2>2. /\ r \in NightStates(r) /\ SameScreen(st, r)
        /\ r.active = st.active /\ r.smooth = st.smooth /\ r.target = st.target
    BY <1>1 DEF NightStates, SameScreen
  <2> HIDE DEF r
  <2> QED
    BY <2>1, <2>2, RecheckedInv
<1> QED
  BY <1>2, <1>3

\* A transition goes to where it was going.
LEMMA SmoothStepInv ==
  ASSUME NlInv(st), Nl!SmoothStep
  PROVE  NlInv(st')
<1>1. st \in NightStates(st) /\ st.smooth
  BY DEF NlInv, Nl!SmoothStep
<1>2. PICK t : st' = [st EXCEPT !.temperature = t, !.smooth = (t # st.target),
                                !.state_temperature = t, !.set_by_client = FALSE]
  BY DEF Nl!SmoothStep
<1> DEFINE smooth == t # st.target
<1>3. smooth \in BOOLEAN /\ (smooth <=> t # st.target)
  OBVIOUS
<1>4. st' = [st EXCEPT !.temperature = t, !.smooth = smooth, !.state_temperature = t, !.set_by_client = FALSE]
  BY <1>2
<1> HIDE DEF smooth
<1>a. st' \in NightStates(st')
  <2>1. \A b \in BOOLEAN : LET r == [st EXCEPT !.temperature = t, !.smooth = b, !.state_temperature = t,
                                                !.set_by_client = FALSE]
                           IN r \in NightStates(r)
    BY <1>1 DEF NightStates
  <2> QED
    BY <1>3, <1>4, <2>1
<1>5. /\ SameNight(st, st') /\ st'.forced = st.forced
      /\ st'.forced_timeout = st.forced_timeout /\ st'.temperature = t /\ st'.state_temperature = t
      /\ st'.active = st.active /\ st'.smooth = smooth /\ st'.target = st.target
  BY <1>1, <1>3, <1>4 DEF NightStates, SameNight
<1>6. Nl!Heading(st') = Nl!Heading(st)
  BY <1>1, <1>3, <1>5 DEF Nl!Heading
<1>7. /\ Nl!ScheduleOf(st') = Nl!ScheduleOf(st) /\ (NoSunrise(st) <=> NoSunrise(st'))
      /\ Nl!Wanted(st') = Nl!Wanted(st)
  <2>1. Nl!ScheduleOf(st') = Nl!ScheduleOf(st) /\ (NoSunrise(st) <=> NoSunrise(st'))
    BY <1>5, SameSchedule
  <2> QED
    BY <1>5, <2>1 DEF Nl!Wanted, SameNight
<1> QED
  BY <1>a, <1>5, <1>6, <1>7 DEF NlInv, HeadsRight, OffIsDark, SameNight

LEMMA NlNextInv == ASSUME NlInv(st), [Nl!NlNext]_st PROVE NlInv(st')
<1>1. st \in NightStates(st)
  BY DEF NlInv
<1>2. CASE Nl!NightLightPreview
  <2> DEFINE p == [st EXCEPT !.forced_timeout = TRUE]
  <2>1. st' = Nl!SetForced(p, TRUE)
    BY <1>2 DEF Nl!NightLightPreview
  <2> QED
    BY <2>1, SetForcedInv
<1>3. CASE Nl!ForcedTimeout
  <2> DEFINE p == [st EXCEPT !.forced_timeout = FALSE]
  <2>1. st' = Nl!SetForced(p, FALSE) /\ st.forced_timeout
    BY <1>3 DEF Nl!ForcedTimeout
  <2> QED
    BY <2>1, SetForcedInv
<1>4. CASE Nl!SetDisabledUntilTomorrow
  BY <1>4, SetDisabledInv DEF Nl!SetDisabledUntilTomorrow
<1>5. CASE Nl!LocationSettingChanges \/ Nl!GeoclueFails
  <2>1. /\ st' \in NightStates(st') /\ SameNight(st, st') /\ SameScreen(st, st')
        /\ st'.active = st.active /\ st'.smooth = st.smooth /\ st'.target = st.target
    <3>1. CASE Nl!LocationSettingChanges
      BY <1>1, <3>1 DEF Nl!LocationSettingChanges, NightStates, SameNight, SameScreen
    <3>2. CASE Nl!GeoclueFails
      BY <1>1, <3>2 DEF Nl!GeoclueFails, NightStates, SameNight, SameScreen
    <3> QED
      BY <1>5, <3>1, <3>2
  <2> QED
    BY <2>1, QuietNightInv
<1>6. CASE Nl!SetTemperatureProperty
  <2>1. PICK t : st' = [st EXCEPT !.state_temperature = t, !.set_by_client = TRUE]
    BY <1>6 DEF Nl!SetTemperatureProperty
  <2>2. /\ st' \in NightStates(st') /\ SameNight(st, st') /\ st'.forced = st.forced
        /\ st'.forced_timeout = st.forced_timeout /\ st'.temperature = st.temperature /\ st'.set_by_client
        /\ st'.active = st.active /\ st'.smooth = st.smooth /\ st'.target = st.target
    BY <1>1, <2>1 DEF NightStates, SameNight
  <2>3. Nl!ScheduleOf(st') = Nl!ScheduleOf(st) /\ (NoSunrise(st) <=> NoSunrise(st'))
    BY <2>2, SameSchedule
  <2>4. Nl!Wanted(st') = Nl!Wanted(st) /\ Nl!Heading(st') = Nl!Heading(st)
    BY <2>2, <2>3 DEF Nl!Wanted, Nl!Heading, SameNight
  <2> QED
    BY <2>2, <2>3, <2>4 DEF NlInv, HeadsRight, OffIsDark, SameNight
<1>7. CASE UNCHANGED st
  BY <1>7
<1> QED
  BY <1>2, <1>3, <1>4, <1>5, <1>6, <1>7, ClockInv, RechecksInv, LocationNotifyInv, SmoothStepInv DEF Nl!NlNext

LEMMA NlInitInv == ASSUME Nl!NlInit PROVE NlInv(st)
<1>1. PICK may \in NlWorlds, enabled \in BOOLEAN, w \in Schedules :
        st = Nl!Recheck([may |-> may, now |-> 0, stale |-> TRUE, enabled |-> enabled,
                  automatic |-> FALSE, schedule |-> w, place |-> "none", sun |-> Nl!Unknown,
                  validate |-> FALSE, location |-> FALSE, geoclue |-> "off",
                  forced |-> FALSE, forced_timeout |-> FALSE,
                  disabled |-> FALSE, disabled_at |-> 0, active |-> FALSE,
                  temperature |-> 0, target |-> 0, smooth |-> FALSE,
                  state_temperature |-> 0, set_by_client |-> FALSE])
  BY DEF Nl!NlInit
<1> DEFINE r == [may |-> may, now |-> 0, stale |-> TRUE, enabled |-> enabled,
                  automatic |-> FALSE, schedule |-> w, place |-> "none", sun |-> Nl!Unknown,
                  validate |-> FALSE, location |-> FALSE, geoclue |-> "off",
                  forced |-> FALSE, forced_timeout |-> FALSE,
                  disabled |-> FALSE, disabled_at |-> 0, active |-> FALSE,
                  temperature |-> 0, target |-> 0, smooth |-> FALSE,
                  state_temperature |-> 0, set_by_client |-> FALSE]
<1>2. w \in Hours /\ Nl!Unknown \in Suns
  BY NightAssumption DEF Hours, Suns, Nl!Unknown
<1>3. /\ r \in NightStates(r) /\ OffIsDark(r) /\ r.forced = r.forced_timeout
      /\ r.state_temperature = r.temperature
  BY <1>2 DEF NightStates, OffIsDark, Nl!Heading
<1> HIDE DEF r
<1>4. Rechecked(r, Nl!Recheck(r))
  BY <1>3, RecheckInv
<1>5. st = Nl!Recheck(r)
  BY <1>1 DEF r
<1> QED
  BY <1>3, <1>4, <1>5 DEF NlInv, Rechecked, SameScreen

LEMMA NlInvFollows ==
  ASSUME NlInv(st)
  PROVE  Nl!NightLightFollows /\ Nl!DisabledEndsAtSunrise
<1>1. Nl!NightLightFollows
  BY DEF NlInv, HeadsRight, Nl!NightLightFollows
<1>2. Nl!DisabledEndsAtSunrise
  BY DEF NlInv, NoSunrise, Nl!DisabledEndsAtSunrise
<1> QED
  BY <1>1, <1>2

\* After a recheck the screen goes to the temperature the clock, the schedule and
\* the user's choices ask for, for every schedule that does not begin to smear
\* before midnight and, after midnight, a sun that has set; and "disabled until
\* tomorrow" does not outlive a sunrise (night_light_recheck and
\* gsd_night_light_frac_day_is_between).
THEOREM NightCorrect == SessionSpec => []NightLightFollows
<1> DEFINE Inv == daemon = "night_light" => NlInv(st)
<1>1. SessionInit => Inv
  BY NlInitInv DEF SessionInit
<1>2. Inv /\ [SessionNext]_vars => Inv'
  <2> SUFFICES ASSUME Inv, [SessionNext]_vars, (daemon = "night_light")' PROVE NlInv(st')
    OBVIOUS
  <2>1. daemon = "night_light" /\ [Nl!NlNext]_st
    BY DEF SessionNext, Of, vars
  <2> QED
    BY <2>1, NlNextInv
<1>3. Inv => NightLightFollows
  BY NlInvFollows DEF NightLightFollows
<1> QED
  BY <1>1, <1>2, <1>3, PTL DEF SessionSpec

===============================================================================
