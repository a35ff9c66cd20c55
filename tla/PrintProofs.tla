------------------------------ MODULE PrintProofs ------------------------------
(***************************************************************************)
(* What the daemons of Session do of printing is so, whatever the constants   *)
(* are: the queues of CUPS that are watched and the printers that are set up. *)
(* The parts are laid out as those of SessionProofs.                         *)
(***************************************************************************)
EXTENDS HardwareProofs

-------------------------------------------------------------------------------
(***************************************************************************)
(* gsd-print-notifications: the subscription is renewed before its lease is   *)
(* over, and the warning that a printer does not answer is dropped by the      *)
(* event that says it does.  A printer has as many warnings as events of that   *)
(* kind wait for it, and one more if it was last seen to be connecting.         *)
(***************************************************************************)

\* The state is a record of these fields.  Of the jobs and of the notifications
\* that are shown nothing has to be known.
PrintStates(s) ==
  [may : PnWorlds, phase : {"starting", "running", "stopped", "crashed"}, local : BOOLEAN, up : BOOLEAN,
   lease : Int, log : Seq(Pn!PnEvents), installed : SUBSET Printers,
   reasons : [Printers -> SUBSET Pn!Reasons], jobs : {s.jobs}, subscription_id : {-1, 1},
   renew_source : Pn!Off .. RenewInterval, check_sources : {s.check_sources},
   cups_connection_timeout : {s.cups_connection_timeout}, tests : {s.tests}, tested : {s.tested},
   renewing : BOOLEAN, dests : [Printers -> (SUBSET Pn!Reasons) \cup {{"absent"}}],
   last_notify_sequence_number : Nat, handled : Nat, printing_printers : {s.printing_printers},
   held_jobs : {s.held_jobs}, timeouts : [Printers -> Nat],
   active_notifications : {s.active_notifications}, scp_handler_spawned : {s.scp_handler_spawned}]

\* The printer answers: events that say so, and those of them that wait.
IsAnswer(e, p) == e.event = "printer-state-changed" /\ e.printer = p /\ Pn!Connecting \notin e.reasons
Answers(s, p)  == {i \in s.handled + 1 .. Len(s.log) : IsAnswer(s.log[i], p)}

\* The daemon has seen that the printer is connecting, and it still is.
Seen(s, p) == IF Pn!Connecting \in s.reasons[p] \cap s.dests[p] THEN 1 ELSE 0

\* A warning in excess of that one will be dropped by an event that waits.
WarningsFit(s, p) == s.timeouts[p] <= Cardinality(Answers(s, p)) + Seen(s, p)

\* Without a subscription there is nothing to handle and nothing to warn of.
Unsubscribed(s) ==
  s.subscription_id = -1 =>
    s.lease = Pn!Off /\ s.log = <<>> /\ s.timeouts = [p \in Printers |-> 0]

\* The lease outlasts the wait for its renewal.
LeaseLasts(s) ==
  s.subscription_id = 1 =>
    /\ s.renew_source # Pn!Off /\ s.lease # Pn!Off
    /\ s.lease >= SubscriptionDuration - RenewInterval + (IF s.renewing THEN 0 ELSE s.renew_source)

PnInv(s) ==
  /\ s \in PrintStates(s)
  /\ s.handled <= s.last_notify_sequence_number /\ s.last_notify_sequence_number <= Len(s.log)
  /\ s.phase = "starting" => s.subscription_id = -1
  /\ s.phase \in {"starting", "running"} =>
       Unsubscribed(s) /\ (s.renewing => s.renew_source # Pn!Off)
  /\ "outage" \notin s.may => s.up
  /\ "printers" \notin s.may => s.installed = Printers
  /\ s.phase = "running" /\ s.may \cap {"sleep", "outage"} = {} => LeaseLasts(s)
  /\ s.phase = "running" /\ s.lease # Pn!Off /\ s.may \cap {"printers", "outage"} = {} =>
       \A p \in Printers : WarningsFit(s, p)

\* What the invariant reads but the printers and their warnings, and all of it.
SameServer(s, t) ==
  /\ t.may = s.may /\ t.local = s.local /\ t.up = s.up /\ t.log = s.log
  /\ t.installed = s.installed /\ t.reasons = s.reasons
  /\ t.last_notify_sequence_number = s.last_notify_sequence_number /\ t.handled = s.handled

SameLease(s, t) ==
  /\ t.lease = s.lease /\ t.subscription_id = s.subscription_id
  /\ t.renew_source = s.renew_source /\ t.renewing = s.renewing

SameWarnings(s, t) == t.timeouts = s.timeouts /\ t.dests = s.dests

LEMMA SamePnInv ==
  ASSUME NEW s, NEW t, PnInv(s), t \in PrintStates(t), t.phase = s.phase,
         SameServer(s, t), SameLease(s, t), SameWarnings(s, t)
  PROVE  PnInv(t)
BY DEF PnInv, SameServer, SameLease, SameWarnings, Unsubscribed, LeaseLasts, WarningsFit, Answers, Seen

\* More events at the same place leave what waits as it is.
LEMMA SameFit ==
  ASSUME NEW s, NEW t, t.log = s.log, t.handled = s.handled, t.reasons = s.reasons, SameWarnings(s, t),
         NEW p \in Printers, WarningsFit(s, p)
  PROVE  WarningsFit(t, p)
BY DEF SameWarnings, WarningsFit, Answers, Seen

LEMMA AnswersCount ==
  ASSUME NEW s, s \in PrintStates(s), NEW p
  PROVE  IsFiniteSet(Answers(s, p)) /\ Cardinality(Answers(s, p)) \in Nat
<1>1. Len(s.log) \in Nat /\ s.handled \in Nat
  BY DEF PrintStates
<1>2. IsFiniteSet(s.handled + 1 .. Len(s.log))
  BY <1>1, FS_Interval
<1>3. Answers(s, p) \subseteq s.handled + 1 .. Len(s.log)
  BY DEF Answers
<1> QED
  BY <1>2, <1>3, FS_Subset, FS_CardinalityType

-------------------------------------------------------------------------------
LEMMA GetDestsOps ==
  ASSUME NEW s, s \in PrintStates(s)
  PROVE  LET t == Pn!GetDests(s)
         IN /\ t \in PrintStates(t) /\ t.phase = s.phase /\ SameServer(s, t) /\ SameLease(s, t)
            /\ t.timeouts = s.timeouts /\ t.printing_printers = s.printing_printers
            /\ t.active_notifications = s.active_notifications
            /\ \A p \in Printers :
                 t.dests[p] = IF s.up /\ p \in s.installed THEN s.reasons[p] ELSE {"absent"}
<1> DEFINE dests == [p \in Printers |-> IF s.up /\ p \in s.installed THEN s.reasons[p] ELSE {"absent"}]
           t == [s EXCEPT !.dests = dests]
<1>1. dests \in [Printers -> (SUBSET Pn!Reasons) \cup {{"absent"}}]
  BY DEF PrintStates
<1>2. \A p \in Printers : dests[p] = IF s.up /\ p \in s.installed THEN s.reasons[p] ELSE {"absent"}
  OBVIOUS
<1>3. t = Pn!GetDests(s)
  BY DEF Pn!GetDests
<1> HIDE DEF dests
<1>4. /\ t \in PrintStates(t) /\ t.dests = dests /\ t.phase = s.phase /\ t.timeouts = s.timeouts
      /\ t.printing_printers = s.printing_printers
      /\ t.active_notifications = s.active_notifications
      /\ SameServer(s, t) /\ SameLease(s, t)
  BY <1>1 DEF PrintStates, SameServer, SameLease
<1> HIDE DEF t
<1> QED
  BY <1>2, <1>3, <1>4

\* Of the warnings of the printer one is dropped by its answer.
LEMMA StopConnectingOps ==
  ASSUME NEW s, s \in PrintStates(s), NEW e, e.printer \in Printers
  PROVE  LET t == Pn!StopConnecting(s, e)
         IN /\ t \in PrintStates(t) /\ t.phase = s.phase /\ SameServer(s, t) /\ SameLease(s, t)
            /\ t.dests = s.dests /\ t.printing_printers = s.printing_printers
            /\ \A p \in Printers :
                 t.timeouts[p] = IF p = e.printer /\ Pn!Connecting \notin e.reasons /\ s.timeouts[p] # 0
                                 THEN s.timeouts[p] - 1 ELSE s.timeouts[p]
<1> DEFINE t == [s EXCEPT !.timeouts[e.printer] = @ - 1]
<1>1. s.timeouts \in [Printers -> Nat]
  BY DEF PrintStates
<1>2. CASE Pn!Connecting \in e.reasons \/ s.timeouts[e.printer] = 0
  BY <1>2 DEF Pn!StopConnecting, SameServer, SameLease
<1>3. CASE ~(Pn!Connecting \in e.reasons \/ s.timeouts[e.printer] = 0)
  <2>1. t = Pn!StopConnecting(s, e)
    BY <1>3 DEF Pn!StopConnecting
  <2>2. t.timeouts = [s.timeouts EXCEPT ![e.printer] = @ - 1] /\ t.timeouts \in [Printers -> Nat]
    BY <1>1, <1>3 DEF PrintStates
  <2>3. /\ t \in PrintStates(t) /\ t.phase = s.phase /\ t.dests = s.dests
        /\ t.printing_printers = s.printing_printers /\ SameServer(s, t) /\ SameLease(s, t)
    BY <2>2 DEF PrintStates, SameServer, SameLease
  <2>4. \A p \in Printers :
          t.timeouts[p] = IF p = e.printer THEN s.timeouts[p] - 1 ELSE s.timeouts[p]
    BY <1>1, <2>2
  <2> HIDE DEF t
  <2> QED
    BY <1>3, <2>1, <2>3, <2>4
<1> QED
  BY <1>2, <1>3

LEMMA CloseNotificationsOps ==
  ASSUME NEW s, s \in PrintStates(s), NEW e
  PROVE  LET t == Pn!CloseNotifications(s, e)
         IN /\ t \in PrintStates(t) /\ t.phase = s.phase /\ SameServer(s, t) /\ SameLease(s, t)
            /\ SameWarnings(s, t) /\ t.printing_printers = s.printing_printers
<1>1. PICK active : Pn!CloseNotifications(s, e) = [s EXCEPT !.active_notifications = active]
  BY DEF Pn!CloseNotifications
<1> QED
  BY <1>1 DEF PrintStates, SameServer, SameLease, SameWarnings

\* Showing what is new of a printer: one more warning if it is seen to be
\* connecting for the first time.
LEMMA ShowReasonsOps ==
  ASSUME NEW s, s \in PrintStates(s), NEW printer \in Printers, NEW t \in Pn!ShowReasons(s, printer)
  PROVE  /\ t \in PrintStates(t) /\ SameServer(s, t) /\ SameLease(s, t)
         /\ t.phase = s.phase \/ t.phase = "crashed"
         /\ s.up /\ s.installed = Printers =>
              \A p \in Printers : /\ Seen(s, p) <= Seen(t, p)
                                  /\ t.timeouts[p] <= s.timeouts[p] + Seen(t, p) - Seen(s, p)
<1> DEFINE f == Pn!GetDests(s)
           added == f.dests[printer] \ s.dests[printer]
           timeouts == [f.timeouts EXCEPT ![printer] = IF Pn!Connecting \in added THEN @ + 1 ELSE @]
<1>0. /\ f \in PrintStates(f) /\ f.phase = s.phase /\ SameServer(s, f) /\ SameLease(s, f)
      /\ f.timeouts = s.timeouts
      /\ s.up /\ s.installed = Printers => \A p \in Printers : f.dests[p] = s.reasons[p]
  BY GetDestsOps
<1>a. \A p \in Printers : Seen(s, p) \in 0 .. 1 /\ Seen(f, p) \in 0 .. 1
  BY DEF Seen
<1>b. s.up /\ s.installed = Printers =>
        \A p \in Printers : Seen(f, p) = IF Pn!Connecting \in s.reasons[p] THEN 1 ELSE 0
  BY <1>0 DEF Seen, SameServer
<1>c. s.timeouts \in [Printers -> Nat] /\ f.timeouts \in [Printers -> Nat]
  BY <1>0 DEF PrintStates
<1>d. s.up /\ s.installed = Printers => \A p \in Printers : Seen(s, p) <= Seen(f, p)
  BY <1>a, <1>b DEF Seen
<1> HIDE DEF f
<1>1. CASE t = s
  <2>1. \A p \in Printers : t.timeouts[p] <= s.timeouts[p] + Seen(t, p) - Seen(s, p)
    BY <1>1, <1>a, <1>c
  <2> QED
    BY <1>1, <1>a, <2>1 DEF SameServer, SameLease
<1>2. CASE t = f
  <2>1. s.up /\ s.installed = Printers =>
          \A p \in Printers : t.timeouts[p] <= s.timeouts[p] + Seen(t, p) - Seen(s, p)
    BY <1>0, <1>2, <1>a, <1>c, <1>d
  <2> QED
    BY <1>0, <1>2, <1>d, <2>1
<1>3. CASE t = [f EXCEPT !.phase = "crashed"]
  <2>1. t \in PrintStates(t) /\ SameServer(f, t) /\ SameLease(f, t) /\ SameWarnings(f, t)
        /\ t.phase = "crashed"
    BY <1>0, <1>3 DEF PrintStates, SameServer, SameLease, SameWarnings
  <2>2. SameServer(s, t) /\ SameLease(s, t)
    BY <1>0, <2>1 DEF SameServer, SameLease
  <2>3. \A p \in Printers : Seen(t, p) = Seen(f, p) /\ t.timeouts[p] = s.timeouts[p]
    BY <1>0, <2>1 DEF Seen, SameServer, SameWarnings
  <2>4. s.up /\ s.installed = Printers =>
          \A p \in Printers : t.timeouts[p] <= s.timeouts[p] + Seen(t, p) - Seen(s, p)
    BY <1>a, <1>c, <1>d, <2>3
  <2> QED
    BY <1>d, <2>1, <2>2, <2>3, <2>4
<1>4. ASSUME NEW active, t = [f EXCEPT !.timeouts = timeouts, !.active_notifications = active]
      PROVE  /\ t \in PrintStates(t) /\ SameServer(s, t) /\ SameLease(s, t)
             /\ t.phase = s.phase \/ t.phase = "crashed"
             /\ s.up /\ s.installed = Printers =>
                  \A p \in Printers : /\ Seen(s, p) <= Seen(t, p)
                                      /\ t.timeouts[p] <= s.timeouts[p] + Seen(t, p) - Seen(s, p)
  <2>1. timeouts \in [Printers -> Nat]
    BY <1>c
  <2> DEFINE warned == timeouts
  <2>2. \A p \in Printers : warned[p] = IF p = printer /\ Pn!Connecting \in added
                                        THEN s.timeouts[p] + 1 ELSE s.timeouts[p]
    BY <1>0, <1>c
  <2>3. t = [f EXCEPT !.timeouts = warned, !.active_notifications = active]
    BY <1>4
  <2>4. warned \in [Printers -> Nat]
    BY <2>1
  <2> HIDE DEF warned
  <2>5. /\ t \in PrintStates(t) /\ SameServer(f, t) /\ SameLease(f, t) /\ t.phase = f.phase
        /\ t.dests = f.dests /\ t.timeouts = warned
    BY <1>0, <2>3, <2>4 DEF PrintStates, SameServer, SameLease
  <2>6. SameServer(s, t) /\ SameLease(s, t)
    BY <1>0, <2>5 DEF SameServer, SameLease
  <2>7. ASSUME s.up /\ s.installed = Printers, NEW p \in Printers
        PROVE  Seen(s, p) <= Seen(t, p) /\ t.timeouts[p] <= s.timeouts[p] + Seen(t, p) - Seen(s, p)
    <3>1. Seen(t, p) = Seen(f, p)
      BY <2>5 DEF Seen, SameServer
    <3>2. CASE p = printer /\ Pn!Connecting \in added
      <4>1. Seen(s, p) = 0 /\ Seen(f, p) = 1
        BY <1>0, <2>7, <3>2, <1>b DEF Seen
      <4> QED
        BY <1>c, <2>2, <2>5, <3>1, <3>2, <4>1
    <3>3. CASE ~(p = printer /\ Pn!Connecting \in added)
      <4>1. t.timeouts[p] = s.timeouts[p] /\ s.timeouts[p] \in Nat
        BY <1>c, <2>2, <2>5, <3>3
      <4> QED
        BY <1>a, <1>d, <2>7, <3>1, <4>1
    <3> QED
      BY <3>2, <3>3
  <2> QED
    BY <1>0, <2>5, <2>6, <2>7
<1>5. \/ t = s \/ t = f \/ t = [f EXCEPT !.phase = "crashed"]
      \/ \E active : t = [f EXCEPT !.timeouts = timeouts, !.active_notifications = active]
  BY DEF Pn!ShowReasons, f
<1> QED
  BY <1>1, <1>2, <1>3, <1>4, <1>5

\* The event that is handled waits no more.
LEMMA AnswersHandled ==
  ASSUME NEW s, s \in PrintStates(s), s.handled < Len(s.log), NEW t, t.log = s.log,
         t.handled = s.handled + 1, NEW p
  PROVE  Cardinality(Answers(t, p)) =
           Cardinality(Answers(s, p)) - (IF IsAnswer(s.log[s.handled + 1], p) THEN 1 ELSE 0)
<1> DEFINE i == s.handled + 1
<1>1. Len(s.log) \in Nat /\ s.handled \in Nat /\ i \in s.handled + 1 .. Len(s.log)
  BY DEF PrintStates
<1>2. i + 1 .. Len(s.log) = (i .. Len(s.log)) \ {i}
  BY <1>1
<1>3. Answers(t, p) = Answers(s, p) \ {i}
  BY <1>1, <1>2 DEF Answers
<1>4. i \in Answers(s, p) <=> IsAnswer(s.log[i], p)
  BY <1>1 DEF Answers
<1>5. IsFiniteSet(Answers(s, p)) /\ Cardinality(Answers(s, p)) \in Nat
  BY AnswersCount
<1> HIDE DEF i
<1>6. Cardinality(Answers(s, p) \ {i}) =
        IF i \in Answers(s, p) THEN Cardinality(Answers(s, p)) - 1 ELSE Cardinality(Answers(s, p))
  BY <1>5, FS_RemoveElement
<1> QED
  BY <1>3, <1>4, <1>5, <1>6 DEF i

\* One that the server adds waits.
LEMMA AnswersTold ==
  ASSUME NEW s, s \in PrintStates(s), s.handled <= Len(s.log), NEW e \in Pn!PnEvents, NEW t,
         t.log = Append(s.log, e), t.handled = s.handled, NEW p
  PROVE  Cardinality(Answers(t, p)) = Cardinality(Answers(s, p)) + (IF IsAnswer(e, p) THEN 1 ELSE 0)
<1> DEFINE n == Len(s.log)
<1>1. /\ n \in Nat /\ s.handled \in Nat /\ s.log \in Seq(Pn!PnEvents) /\ Len(t.log) = n + 1
      /\ t.log[n + 1] = e /\ \A i \in 1 .. n : t.log[i] = s.log[i]
  BY DEF PrintStates
<1>2. /\ s.handled + 1 .. n + 1 = (s.handled + 1 .. n) \cup {n + 1} /\ n + 1 \notin s.handled + 1 .. n
      /\ s.handled + 1 .. n \subseteq 1 .. n
  BY <1>1
<1>3. \A i \in s.handled + 1 .. n : t.log[i] = s.log[i]
  BY <1>1, <1>2
<1>4. Answers(s, p) = {i \in s.handled + 1 .. n : IsAnswer(t.log[i], p)}
  BY <1>3 DEF Answers
<1>5. Answers(t, p) = {i \in (s.handled + 1 .. n) \cup {n + 1} : IsAnswer(t.log[i], p)}
  BY <1>1, <1>2 DEF Answers
<1>6. n + 1 \notin Answers(s, p) /\ IsFiniteSet(Answers(s, p)) /\ Cardinality(Answers(s, p)) \in Nat
  BY <1>2, <1>4, AnswersCount
<1>7. CASE IsAnswer(e, p)
  <2>1. Answers(t, p) = Answers(s, p) \cup {n + 1}
    BY <1>1, <1>4, <1>5, <1>7
  <2> QED
    BY <1>6, <1>7, <2>1, FS_AddElement
<1>8. CASE ~IsAnswer(e, p)
  <2>1. Answers(t, p) = Answers(s, p)
    BY <1>1, <1>4, <1>5, <1>8
  <2> QED
    BY <1>6, <1>8, <2>1
<1> QED
  BY <1>7, <1>8

\* An event that is handled drops a warning of its printer if it is an answer,
\* and adds one if the printer is now seen to be connecting.
LEMMA EventOps ==
  ASSUME NEW s, s \in PrintStates(s), NEW e \in Pn!PnEvents, NEW t \in Pn!ProcessCupsNotification(s, e)
  PROVE  /\ t \in PrintStates(t) /\ SameServer(s, t) /\ SameLease(s, t)
         /\ t.phase = s.phase \/ t.phase = "crashed"
         /\ s.up /\ s.installed = Printers =>
              \A p \in Printers :
                LET drop == IF IsAnswer(e, p) THEN 1 ELSE 0
                IN /\ Seen(s, p) <= Seen(t, p)
                   /\ \/ t.timeouts[p] <= s.timeouts[p] - drop + Seen(t, p) - Seen(s, p)
                      \/ t.timeouts[p] <= Seen(t, p) - Seen(s, p)
<1>a. s.timeouts \in [Printers -> Nat] /\ \A p \in Printers : Seen(s, p) \in 0 .. 1
  BY DEF PrintStates, Seen
<1>1. CASE e.event = "printer-state-changed"
  <2> DEFINE u == Pn!StopConnecting(s, e)
             v == Pn!CloseNotifications(u, e)
  <2>0. e.printer \in Printers
    BY <1>1 DEF Pn!PnEvents
  <2>1. /\ u \in PrintStates(u) /\ u.phase = s.phase /\ SameServer(s, u) /\ SameLease(s, u)
        /\ u.dests = s.dests
        /\ \A p \in Printers :
             u.timeouts[p] = IF p = e.printer /\ Pn!Connecting \notin e.reasons /\ s.timeouts[p] # 0
                             THEN s.timeouts[p] - 1 ELSE s.timeouts[p]
    BY <2>0, StopConnectingOps
  <2> HIDE DEF u
  <2>2. /\ v \in PrintStates(v) /\ v.phase = u.phase /\ SameServer(u, v) /\ SameLease(u, v)
        /\ SameWarnings(u, v)
    BY <2>1, CloseNotificationsOps
  <2>3. t \in Pn!ShowReasons(v, e.printer)
    BY <1>1 DEF Pn!ProcessCupsNotification, Pn!PrinterStateChanged, u
  <2> HIDE DEF v
  <2>4. /\ t \in PrintStates(t) /\ SameServer(v, t) /\ SameLease(v, t)
        /\ t.phase = v.phase \/ t.phase = "crashed"
        /\ v.up /\ v.installed = Printers =>
             \A p \in Printers : /\ Seen(v, p) <= Seen(t, p)
                                 /\ t.timeouts[p] <= v.timeouts[p] + Seen(t, p) - Seen(v, p)
    BY <2>0, <2>2, <2>3, ShowReasonsOps
  <2>5. SameServer(s, t) /\ SameLease(s, t) /\ SameServer(s, v)
    BY <2>1, <2>2, <2>4 DEF SameServer, SameLease
  <2>6. \A p \in Printers : Seen(v, p) = Seen(s, p) /\ v.timeouts[p] = u.timeouts[p]
    BY <2>1, <2>2, <2>5 DEF Seen, SameServer, SameWarnings
  <2>7. ASSUME s.up, s.installed = Printers, NEW p \in Printers
        PROVE  LET drop == IF IsAnswer(e, p) THEN 1 ELSE 0
               IN /\ Seen(s, p) <= Seen(t, p)
                  /\ \/ t.timeouts[p] <= s.timeouts[p] - drop + Seen(t, p) - Seen(s, p)
                     \/ t.timeouts[p] <= Seen(t, p) - Seen(s, p)
    <3>1. Seen(s, p) <= Seen(t, p) /\ t.timeouts[p] <= u.timeouts[p] + Seen(t, p) - Seen(s, p)
      BY <2>4, <2>5, <2>6, <2>7 DEF SameServer
    <3>2. Seen(t, p) \in 0 .. 1 /\ Seen(s, p) \in 0 .. 1 /\ t.timeouts[p] \in Nat /\ s.timeouts[p] \in Nat
      BY <1>a, <2>4 DEF Seen, PrintStates
    <3>3. CASE IsAnswer(e, p) /\ s.timeouts[p] = 0
      BY <2>1, <3>1, <3>2, <3>3
    <3>4. CASE IsAnswer(e, p) /\ s.timeouts[p] # 0
      <4>1. u.timeouts[p] = s.timeouts[p] - 1
        BY <2>1, <3>4 DEF IsAnswer
      <4> QED
        BY <3>1, <3>2, <3>4, <4>1
    <3>5. CASE ~IsAnswer(e, p)
      <4>1. u.timeouts[p] = s.timeouts[p]
        BY <1>1, <2>1, <3>5 DEF IsAnswer
      <4> QED
        BY <3>1, <3>2, <3>5, <4>1
    <3> QED
      BY <3>3, <3>4, <3>5
  <2> QED
    BY <2>1, <2>2, <2>4, <2>5, <2>7
<1>2. CASE e.event \in {"printer-added", "printer-deleted"}
  <2>1. t = Pn!GetDests(s)
    BY <1>2 DEF Pn!ProcessCupsNotification
  <2>2. /\ t \in PrintStates(t) /\ t.phase = s.phase /\ SameServer(s, t) /\ SameLease(s, t)
        /\ t.timeouts = s.timeouts
        /\ s.up /\ s.installed = Printers => \A p \in Printers : t.dests[p] = s.reasons[p]
    BY <2>1, GetDestsOps
  <2>3. \A p \in Printers : ~IsAnswer(e, p)
    BY <1>2 DEF IsAnswer
  <2>4. ASSUME s.up, s.installed = Printers, NEW p \in Printers PROVE Seen(s, p) <= Seen(t, p)
    BY <1>a, <2>2, <2>4 DEF Seen, SameServer
  <2>5. \A p \in Printers : Seen(t, p) \in 0 .. 1
    BY DEF Seen
  <2> QED
    BY <1>a, <2>2, <2>3, <2>4, <2>5
<1>3. CASE e.event \notin {"printer-state-changed", "printer-added", "printer-deleted"}
  <2>1. t = Pn!JobStateChanged(s, e)
    BY <1>3 DEF Pn!ProcessCupsNotification
  <2> DEFINE Kept(x) == /\ x \in PrintStates(x) /\ x.phase = s.phase /\ SameServer(s, x)
                        /\ SameLease(s, x) /\ SameWarnings(s, x)
  <2>a. Kept(s)
    BY DEF SameServer, SameLease, SameWarnings
  <2>b. \A printers : Kept([s EXCEPT !.printing_printers = printers])
    BY DEF PrintStates, SameServer, SameLease, SameWarnings
  <2>c. \A jobs : Kept([s EXCEPT !.held_jobs = jobs])
    BY DEF PrintStates, SameServer, SameLease, SameWarnings
  <2> HIDE DEF Kept
  <2> DEFINE ends == e.event = "job-completed" \/ e.state \in {"stopped", "canceled", "aborted", "completed"}
  <2>2. \/ t = [s EXCEPT !.printing_printers = s.printing_printers \cup {PrinterOf[e.job]}]
        \/ t = [s EXCEPT !.printing_printers = s.printing_printers \ {PrinterOf[e.job]}]
        \/ t = [s EXCEPT !.held_jobs = Append(s.held_jobs, e.job)] \/ t = s
    <3>1. CASE e.state = "processing"
      BY <2>1, <3>1 DEF Pn!JobStateChanged
    <3>2. CASE e.state # "processing" /\ ends
      BY <2>1, <3>2 DEF Pn!JobStateChanged
    <3>3. CASE e.state # "processing" /\ ~ends
      BY <2>1, <3>3 DEF Pn!JobStateChanged
    <3> QED
      BY <3>1, <3>2, <3>3
  <2>5. Kept(t)
    BY <2>2, <2>a, <2>b, <2>c
  <2>6. \A p \in Printers : ~IsAnswer(e, p) /\ Seen(t, p) = Seen(s, p) /\ t.timeouts[p] = s.timeouts[p]
    BY <1>3, <2>5 DEF Kept, IsAnswer, Seen, SameServer, SameWarnings
  <2> QED
    BY <1>a, <2>5, <2>6 DEF Kept
<1> QED
  BY <1>1, <1>2, <1>3

LEMMA ProcessNotificationInv == ASSUME PnInv(st), Pn!ProcessNotification PROVE PnInv(st')
<1> DEFINE s == [st EXCEPT !.handled = @ + 1]
           e == st.log[st.handled + 1]
<1>0. st \in PrintStates(st) /\ st.phase = "running" /\ st.handled < st.last_notify_sequence_number
      /\ st' \in Pn!ProcessCupsNotification(s, e)
  BY DEF PnInv, Pn!ProcessNotification
<1>1. /\ s \in PrintStates(s) /\ s.handled = st.handled + 1 /\ s.phase = st.phase
      /\ SameLease(st, s) /\ SameWarnings(st, s) /\ s.may = st.may /\ s.up = st.up /\ s.log = st.log
      /\ s.installed = st.installed /\ s.reasons = st.reasons
      /\ s.last_notify_sequence_number = st.last_notify_sequence_number
  <2>1. st.handled \in Nat
    BY <1>0 DEF PrintStates
  <2>2. st.handled + 1 \in Nat
    BY <2>1
  <2> QED
    BY <1>0, <2>2 DEF PrintStates, SameLease, SameWarnings
<1>2. Len(st.log) \in Nat /\ st.handled \in Nat /\ st.last_notify_sequence_number \in Nat
      /\ st.last_notify_sequence_number <= Len(st.log) /\ e \in Pn!PnEvents
  BY <1>0 DEF PnInv, PrintStates
<1> HIDE DEF s, e
<1>3. /\ st' \in PrintStates(st') /\ SameServer(s, st') /\ SameLease(s, st')
      /\ st'.phase = s.phase \/ st'.phase = "crashed"
      /\ s.up /\ s.installed = Printers =>
           \A p \in Printers :
             LET drop == IF IsAnswer(e, p) THEN 1 ELSE 0
             IN /\ Seen(s, p) <= Seen(st', p)
                /\ \/ st'.timeouts[p] <= s.timeouts[p] - drop + Seen(st', p) - Seen(s, p)
                   \/ st'.timeouts[p] <= Seen(st', p) - Seen(s, p)
  BY <1>0, <1>1, <1>2, EventOps
<1>4. SameLease(st, st') /\ st'.may = st.may /\ st'.log = st.log /\ st'.up = st.up
      /\ st'.installed = st.installed /\ st'.last_notify_sequence_number = st.last_notify_sequence_number
      /\ st'.handled = st.handled + 1
  BY <1>1, <1>3 DEF SameLease, SameServer
<1>5. st'.handled <= st'.last_notify_sequence_number /\ st'.last_notify_sequence_number <= Len(st'.log)
  BY <1>0, <1>2, <1>4
<1>6. st.subscription_id = 1
  BY <1>0, <1>2 DEF PnInv, Unsubscribed, PrintStates
<1>7. Unsubscribed(st') /\ st'.phase # "starting" /\ (st'.renewing /\ st'.phase = "running" => st'.renew_source # Pn!Off)
  BY <1>0, <1>1, <1>3, <1>4, <1>6 DEF Unsubscribed, SameLease, PnInv
<1>8. st'.phase = "running" /\ st'.may \cap {"sleep", "outage"} = {} => LeaseLasts(st')
  BY <1>0, <1>4 DEF LeaseLasts, SameLease, PnInv
<1>9. ASSUME st'.phase = "running", st'.lease # Pn!Off, st'.may \cap {"printers", "outage"} = {},
             NEW p \in Printers
      PROVE  WarningsFit(st', p)
  <2>1. s.up /\ s.installed = Printers /\ WarningsFit(st, p)
    BY <1>0, <1>1, <1>4, <1>9 DEF PnInv, SameLease
  <2>2. Cardinality(Answers(st', p)) = Cardinality(Answers(st, p)) - (IF IsAnswer(e, p) THEN 1 ELSE 0)
    BY <1>0, <1>2, <1>4, AnswersHandled DEF e
  <2>3. Cardinality(Answers(st', p)) \in Nat /\ Cardinality(Answers(st, p)) \in Nat
    BY <1>0, <1>3, AnswersCount
  <2>4. Seen(s, p) = Seen(st, p) /\ s.timeouts[p] = st.timeouts[p] /\ st.timeouts[p] \in Nat
        /\ st'.timeouts[p] \in Nat /\ Seen(st, p) \in 0 .. 1 /\ Seen(st', p) \in 0 .. 1
    BY <1>0, <1>1, <1>3 DEF Seen, SameWarnings, PrintStates
  <2> QED
    BY <1>3, <2>1, <2>2, <2>3, <2>4 DEF WarningsFit
<1> QED
  BY <1>3, <1>4, <1>5, <1>7, <1>8, <1>9, <1>0, <1>1 DEF PnInv

-------------------------------------------------------------------------------
\* The printers that are asked for anew: those that are connecting are seen to be.
LEMMA GetDestsInv == ASSUME NEW s, PnInv(s) PROVE PnInv(Pn!GetDests(s))
<1> DEFINE t == Pn!GetDests(s)
<1>0. s \in PrintStates(s)
  BY DEF PnInv
<1>1. /\ t \in PrintStates(t) /\ t.phase = s.phase /\ SameServer(s, t) /\ SameLease(s, t)
      /\ t.timeouts = s.timeouts
      /\ \A p \in Printers : t.dests[p] = IF s.up /\ p \in s.installed THEN s.reasons[p] ELSE {"absent"}
  BY <1>0, GetDestsOps
<1> HIDE DEF t
<1>2. ASSUME s.up, s.installed = Printers, NEW p \in Printers, WarningsFit(s, p) PROVE WarningsFit(t, p)
  <2>1. Answers(t, p) = Answers(s, p)
    BY <1>1 DEF Answers, SameServer
  <2>2. Seen(s, p) \in 0 .. 1 /\ Seen(t, p) \in 0 .. 1 /\ Seen(s, p) <= Seen(t, p)
    BY <1>1, <1>2 DEF Seen, SameServer
  <2>3. s.timeouts[p] \in Nat /\ Cardinality(Answers(s, p)) \in Nat
    BY <1>0, AnswersCount DEF PrintStates
  <2> QED
    BY <1>1, <1>2, <2>1, <2>2, <2>3 DEF WarningsFit
<1>3. PnInv(t)
  BY <1>1, <1>2 DEF PnInv, SameServer, SameLease, Unsubscribed, LeaseLasts
<1> QED
  BY <1>3 DEF t

\* What a renewal does: nothing if the server is away, and nothing to a
\* subscription that it has forgotten.
Renewed(s, t) ==
  /\ t \in PrintStates(t) /\ t.phase = s.phase /\ SameServer(s, t) /\ SameWarnings(s, t)
  /\ ~s.up => t.lease = s.lease /\ t.subscription_id = s.subscription_id
  /\ s.up => /\ t.subscription_id = 1
             /\ t.lease = IF s.subscription_id = 1 /\ s.lease = Pn!Off THEN Pn!Off ELSE SubscriptionDuration

LEMMA RenewSubscriptionOps ==
  ASSUME NEW s, s \in PrintStates(s)
  PROVE  LET t == Pn!RenewSubscription(s)
         IN Renewed(s, t) /\ t.renew_source = s.renew_source /\ t.renewing = s.renewing
<1> DEFINE t == Pn!RenewSubscription(s)
<1>0. s.subscription_id \in {-1, 1} /\ s.up \in BOOLEAN
  BY DEF PrintStates
<1>a. SubscriptionDuration \in Int /\ Pn!Off \in Int
  BY PrintAssumption DEF Pn!Off
<1>1. CASE ~s.up
  BY <1>1 DEF Pn!RenewSubscription, Renewed, SameServer, SameWarnings
<1>2. CASE s.up /\ s.subscription_id = 1
  <2> DEFINE lease == IF s.lease = Pn!Off THEN Pn!Off ELSE SubscriptionDuration
             u == [s EXCEPT !.lease = lease]
  <2>1. t = u
    BY <1>2 DEF Pn!RenewSubscription
  <2>2. lease \in Int
    BY <1>a
  <2> HIDE DEF lease
  <2>3. /\ u \in PrintStates(u) /\ u.lease = lease /\ SameServer(s, u) /\ SameWarnings(s, u)
        /\ u.phase = s.phase /\ u.subscription_id = 1 /\ u.renew_source = s.renew_source
        /\ u.renewing = s.renewing
    BY <1>2, <2>2 DEF PrintStates, SameServer, SameWarnings
  <2> HIDE DEF u, t
  <2>4. Renewed(s, t) /\ t.renew_source = s.renew_source /\ t.renewing = s.renewing
    BY <1>2, <2>1, <2>3 DEF Renewed, lease
  <2> QED
    BY <2>4 DEF t
<1>3. CASE s.up /\ s.subscription_id = -1
  <2> DEFINE u == [s EXCEPT !.lease = SubscriptionDuration, !.subscription_id = 1]
  <2>1. t = u
    BY <1>3 DEF Pn!RenewSubscription
  <2>3. /\ u \in PrintStates(u) /\ u.lease = SubscriptionDuration /\ SameServer(s, u) /\ SameWarnings(s, u)
        /\ u.phase = s.phase /\ u.subscription_id = 1 /\ u.renew_source = s.renew_source
        /\ u.renewing = s.renewing
    BY <1>3, <1>a DEF PrintStates, SameServer, SameWarnings
  <2> HIDE DEF u, t
  <2>4. Renewed(s, t) /\ t.renew_source = s.renew_source /\ t.renewing = s.renewing
    BY <1>3, <2>1, <2>3 DEF Renewed
  <2> QED
    BY <2>4 DEF t
<1> QED
  BY <1>0, <1>1, <1>2, <1>3

\* A renewal makes the lease as long as it can be, whatever is left of the wait.
LEMMA RenewedInv ==
  ASSUME NEW s, PnInv(s), s.phase = "running", NEW t, Renewed(s, t), t.renew_source # Pn!Off
  PROVE  PnInv(t)
<1>0. s \in PrintStates(s) /\ t \in PrintStates(t) /\ t.phase = "running" /\ SameServer(s, t)
      /\ SameWarnings(s, t)
  BY DEF PnInv, Renewed
<1>1. Unsubscribed(t)
  BY <1>0 DEF PnInv, Renewed, Unsubscribed, SameServer, SameWarnings
<1>2. ASSUME t.may \cap {"sleep", "outage"} = {} PROVE LeaseLasts(t)
  <2>1. s.up /\ LeaseLasts(s)
    BY <1>0, <1>2 DEF PnInv, SameServer
  <2>2. t.lease = SubscriptionDuration
    BY <2>1 DEF Renewed, LeaseLasts
  <2>3. t.renew_source \in Pn!Off .. RenewInterval /\ Pn!Off = -1 /\ t.renewing \in BOOLEAN
    BY <1>0 DEF PrintStates, Pn!Off
  <2> QED
    BY <2>2, <2>3, PrintAssumption DEF LeaseLasts
<1>3. ASSUME t.lease # Pn!Off, t.may \cap {"printers", "outage"} = {}, NEW p \in Printers
      PROVE  WarningsFit(t, p)
  <2>1. CASE s.lease # Pn!Off
    <3>1. WarningsFit(s, p)
      BY <1>0, <1>3, <2>1 DEF PnInv, SameServer
    <3> QED
      BY <1>0, <3>1, SameFit DEF SameServer
  <2>2. CASE s.lease = Pn!Off
    <3>1. s.subscription_id = -1
      BY <1>0, <1>3, <2>2 DEF Renewed, PrintStates
    <3>2. t.timeouts[p] = 0
      BY <1>0, <3>1 DEF PnInv, Unsubscribed, SameWarnings
    <3>3. Seen(t, p) \in 0 .. 1 /\ Cardinality(Answers(t, p)) \in Nat
      BY <1>0, AnswersCount DEF Seen
    <3> QED
      BY <3>2, <3>3 DEF WarningsFit
  <2> QED
    BY <2>1, <2>2
<1>4. \A p \in Printers : t.lease # Pn!Off /\ t.may \cap {"printers", "outage"} = {} => WarningsFit(t, p)
  BY <1>3
<1> QED
  BY <1>0, <1>1, <1>2, <1>4 DEF PnInv, SameServer

LEMMA RenewTimeoutInv ==
  ASSUME NEW s, PnInv(s), s.phase = "running"
  PROVE  PnInv(Pn!RenewTimeoutEnable(s))
<1> DEFINE u == Pn!RenewSubscription(s)
           t == [u EXCEPT !.renew_source = RenewInterval]
<1>1. Renewed(s, u)
  BY RenewSubscriptionOps DEF PnInv
<1>2. t = Pn!RenewTimeoutEnable(s)
  BY DEF Pn!RenewTimeoutEnable
<1> HIDE DEF u
<1>3. RenewInterval \in Pn!Off .. RenewInterval /\ RenewInterval # Pn!Off
  BY PrintAssumption DEF Pn!Off
<1>4. u \in PrintStates(u)
  BY <1>1 DEF Renewed
<1>5. /\ t \in PrintStates(t) /\ t.renew_source = RenewInterval /\ t.phase = u.phase /\ t.lease = u.lease
      /\ t.subscription_id = u.subscription_id /\ SameServer(u, t) /\ SameWarnings(u, t)
  BY <1>3, <1>4 DEF PrintStates, SameServer, SameWarnings
<1> HIDE DEF t
<1>6. Renewed(s, t)
  BY <1>1, <1>5 DEF Renewed, SameServer, SameWarnings
<1> QED
  BY <1>2, <1>3, <1>5, <1>6, RenewedInv

\* The connection is tested, or need not be.
LEMMA ConnectionTestInv == ASSUME NEW s, PnInv(s) PROVE PnInv(Pn!ConnectionTest(s))
<1> DEFINE t == Pn!ConnectionTest(s)
<1>0. s \in PrintStates(s)
  BY DEF PnInv
<1>1. CASE t = [s EXCEPT !.cups_connection_timeout = FALSE]
  <2>1. t \in PrintStates(t) /\ t.phase = s.phase /\ SameServer(s, t) /\ SameLease(s, t) /\ SameWarnings(s, t)
    BY <1>0, <1>1 DEF PrintStates, SameServer, SameLease, SameWarnings
  <2> QED
    BY <2>1, SamePnInv
<1>2. CASE t = [s EXCEPT !.tests = @ + 1, !.tested = @ + 1]
  <2>1. t \in PrintStates(t) /\ t.phase = s.phase /\ SameServer(s, t) /\ SameLease(s, t) /\ SameWarnings(s, t)
    BY <1>0, <1>2 DEF PrintStates, SameServer, SameLease, SameWarnings
  <2> QED
    BY <2>1, SamePnInv
<1> QED
  BY <1>1, <1>2 DEF Pn!ConnectionTest

-------------------------------------------------------------------------------
LEMMA StartIdleInv == ASSUME PnInv(st), Pn!StartIdle PROVE PnInv(st')
<1> DEFINE s == Pn!ScpHandler([st EXCEPT !.phase = "running"], TRUE)
<1>0. st \in PrintStates(st) /\ st.phase = "starting" /\ st.subscription_id = -1 /\ Unsubscribed(st)
  BY DEF PnInv, Pn!StartIdle
<1>1. /\ s \in PrintStates(s) /\ s.phase = "running" /\ SameServer(st, s) /\ SameLease(st, s)
      /\ SameWarnings(st, s)
  BY <1>0 DEF Pn!ScpHandler, PrintStates, SameServer, SameLease, SameWarnings
<1> HIDE DEF s
<1>2. PnInv(s)
  BY <1>0, <1>1 DEF PnInv, SameServer, SameLease, SameWarnings, Unsubscribed, LeaseLasts
<1>3. st' = IF st.local THEN Pn!RenewTimeoutEnable(IF st.up THEN Pn!GetDests(s) ELSE s)
            ELSE Pn!ConnectionTest(s)
  BY DEF Pn!StartIdle, s
<1>4. PnInv(Pn!GetDests(s)) /\ Pn!GetDests(s).phase = "running" /\ PnInv(Pn!ConnectionTest(s))
  BY <1>1, <1>2, GetDestsInv, GetDestsOps, ConnectionTestInv
<1>5. PnInv(Pn!RenewTimeoutEnable(s)) /\ PnInv(Pn!RenewTimeoutEnable(Pn!GetDests(s)))
  BY <1>1, <1>2, <1>4, RenewTimeoutInv
<1> QED
  BY <1>3, <1>4, <1>5

LEMMA ConnectionAnswersInv == ASSUME PnInv(st), Pn!ConnectionAnswers PROVE PnInv(st')
<1> DEFINE over == [st EXCEPT !.tests = @ - 1]
           away == [over EXCEPT !.cups_connection_timeout = TRUE]
<1>0. st \in PrintStates(st) /\ st.phase = "running"
  BY DEF PnInv, Pn!ConnectionAnswers, Pn!Running
<1>1. /\ over \in PrintStates(over) /\ over.phase = st.phase /\ SameServer(st, over)
      /\ SameLease(st, over) /\ SameWarnings(st, over)
  BY <1>0 DEF PrintStates, SameServer, SameLease, SameWarnings
<1>2. /\ away \in PrintStates(away) /\ away.phase = st.phase /\ SameServer(st, away)
      /\ SameLease(st, away) /\ SameWarnings(st, away)
  BY <1>0 DEF PrintStates, SameServer, SameLease, SameWarnings
<1>3. st' \in {away} \cup {[Pn!RenewTimeoutEnable(Pn!GetDests(over)) EXCEPT !.check_sources = @ + 1]}
  BY DEF Pn!ConnectionAnswers, Pn!ConnectionTested
<1> HIDE DEF over, away
<1>4. PnInv(over) /\ PnInv(away)
  BY <1>1, <1>2, SamePnInv
<1> DEFINE renewed == Pn!RenewTimeoutEnable(Pn!GetDests(over))
<1>5. PnInv(renewed)
  BY <1>0, <1>1, <1>4, GetDestsInv, GetDestsOps, RenewTimeoutInv
<1> HIDE DEF renewed
<1>6. CASE st' = [renewed EXCEPT !.check_sources = @ + 1]
  <2>1. /\ st' \in PrintStates(st') /\ st'.phase = renewed.phase /\ SameServer(renewed, st')
        /\ SameLease(renewed, st') /\ SameWarnings(renewed, st')
    BY <1>5, <1>6 DEF PnInv, PrintStates, SameServer, SameLease, SameWarnings
  <2> QED
    BY <1>5, <2>1, SamePnInv
<1> QED
  BY <1>3, <1>4, <1>6 DEF renewed

LEMMA RenewDueInv == ASSUME PnInv(st), Pn!RenewDue PROVE PnInv(st')
<1> DEFINE s == [st EXCEPT !.renew_source = RenewInterval]
           t == [s EXCEPT !.renewing = TRUE]
<1>0. st \in PrintStates(st) /\ st.phase = "running" /\ st.renew_source = 0
      /\ st' = IF st.local THEN Pn!RenewSubscription(s) ELSE t
  BY DEF PnInv, Pn!RenewDue, Pn!Running
<1>1. RenewInterval \in Pn!Off .. RenewInterval /\ RenewInterval # Pn!Off /\ Pn!Off = -1
  BY PrintAssumption DEF Pn!Off
<1>2. /\ s \in PrintStates(s) /\ s.renew_source = RenewInterval /\ s.phase = st.phase
      /\ SameServer(st, s) /\ SameWarnings(st, s) /\ s.lease = st.lease
      /\ s.subscription_id = st.subscription_id
  BY <1>0, <1>1 DEF PrintStates, SameServer, SameWarnings
<1>3. /\ t \in PrintStates(t) /\ t.renew_source = RenewInterval /\ t.phase = st.phase
      /\ SameServer(st, t) /\ SameWarnings(st, t) /\ t.lease = st.lease
      /\ t.subscription_id = st.subscription_id /\ t.renewing
  BY <1>0, <1>1 DEF PrintStates, SameServer, SameWarnings
<1> HIDE DEF s, t
<1>4. CASE st.local
  <2>1. Renewed(s, st') /\ st'.renew_source = s.renew_source
    BY <1>0, <1>2, <1>4, RenewSubscriptionOps
  <2>2. Renewed(st, st')
    BY <1>2, <2>1 DEF Renewed, SameServer, SameWarnings
  <2> QED
    BY <1>0, <1>1, <1>2, <2>1, <2>2, RenewedInv
<1>5. CASE ~st.local
  <2>0. st' = t
    BY <1>0, <1>5
  <2>1. Unsubscribed(t) /\ t.renew_source # Pn!Off
    BY <1>0, <1>1, <1>3 DEF PnInv, Unsubscribed, SameServer, SameWarnings
  <2>2. t.may \cap {"sleep", "outage"} = {} => LeaseLasts(t)
    BY <1>0, <1>1, <1>3, PrintAssumption DEF PnInv, LeaseLasts, SameServer
  <2>3. \A p \in Printers : t.lease # Pn!Off /\ t.may \cap {"printers", "outage"} = {} => WarningsFit(t, p)
    BY <1>0, <1>3, SameFit DEF PnInv, SameServer
  <2> QED
    BY <1>0, <1>3, <2>0, <2>1, <2>2, <2>3 DEF PnInv, SameServer
<1> QED
  BY <1>4, <1>5

LEMMA RenewTestedInv == ASSUME PnInv(st), Pn!RenewTested PROVE PnInv(st')
<1> DEFINE s == [st EXCEPT !.renewing = FALSE]
<1>0. /\ st \in PrintStates(st) /\ st.phase = "running" /\ st.renewing /\ st.renew_source # Pn!Off
      /\ st' = Pn!RenewSubscription(s)
  BY DEF PnInv, Pn!RenewTested, Pn!Running
<1>1. /\ s \in PrintStates(s) /\ s.renew_source = st.renew_source /\ s.phase = st.phase
      /\ SameServer(st, s) /\ SameWarnings(st, s) /\ s.lease = st.lease
      /\ s.subscription_id = st.subscription_id
  BY <1>0 DEF PrintStates, SameServer, SameWarnings
<1> HIDE DEF s
<1>2. Renewed(s, st') /\ st'.renew_source = s.renew_source
  BY <1>0, <1>1, RenewSubscriptionOps
<1>3. Renewed(st, st')
  BY <1>1, <1>2 DEF Renewed, SameServer, SameWarnings
<1> QED
  BY <1>0, <1>1, <1>2, <1>3, RenewedInv

\* After a shutdown nothing is claimed but what the server does.
LEMMA PnShutdownInv == ASSUME PnInv(st), Pn!PnShutdown PROVE PnInv(st')
<1> DEFINE c == Pn!CancelSubscription(st)
<1>0. st \in PrintStates(st) /\ Pn!Off \in Int /\ Pn!Off \in Pn!Off .. RenewInterval
  BY PrintAssumption DEF PnInv, Pn!Off
<1>1. c \in PrintStates(c) /\ SameServer(st, c)
  <2> DEFINE lease == IF st.up /\ st.subscription_id >= 0 THEN Pn!Off ELSE st.lease
  <2>1. lease \in Int
    BY <1>0 DEF PrintStates
  <2>2. c = [st EXCEPT !.subscription_id = -1, !.lease = lease]
    BY DEF Pn!CancelSubscription
  <2> HIDE DEF lease, c
  <2> QED
    BY <1>0, <2>1, <2>2 DEF PrintStates, SameServer
<1>2. st' = [c EXCEPT !.phase = "stopped", !.renew_source = Pn!Off, !.check_sources = 0,
                      !.printing_printers = {}, !.timeouts = [p \in Printers |-> 0],
                      !.active_notifications = <<>>, !.held_jobs = <<>>, !.scp_handler_spawned = FALSE]
  BY DEF Pn!PnShutdown, Pn!ScpHandler
<1> HIDE DEF c
<1>3. st' \in PrintStates(st') /\ SameServer(c, st') /\ st'.phase = "stopped"
  <2>1. [p \in Printers |-> 0] \in [Printers -> Nat]
    OBVIOUS
  <2> QED
    BY <1>0, <1>1, <1>2, <2>1 DEF PrintStates, SameServer
<1> QED
  BY <1>0, <1>1, <1>3 DEF PnInv, SameServer

\* The server tells of what happens, while there is a subscription.
LEMMA TellInv ==
  ASSUME NEW s, PnInv(s), s.phase = "running", NEW reasons \in [Printers -> SUBSET Pn!Reasons],
         NEW installed \in SUBSET Printers, "printers" \notin s.may => installed = Printers,
         NEW jobs, NEW e \in Pn!PnEvents,
         \A p \in Printers : s.reasons[p] = reasons[p] \/ Pn!Connecting \in reasons[p] \/ IsAnswer(e, p)
  PROVE  PnInv(Pn!Tell([s EXCEPT !.reasons = reasons, !.installed = installed, !.jobs = jobs], e))
<1> DEFINE u == [s EXCEPT !.reasons = reasons, !.installed = installed, !.jobs = jobs]
           t == Pn!Tell(u, e)
<1>0. s \in PrintStates(s)
  BY DEF PnInv
<1>1. /\ u \in PrintStates(u) /\ u.phase = "running" /\ u.reasons = reasons /\ u.installed = installed
      /\ SameLease(s, u) /\ SameWarnings(s, u) /\ u.may = s.may /\ u.up = s.up /\ u.log = s.log
      /\ u.handled = s.handled /\ u.last_notify_sequence_number = s.last_notify_sequence_number
  BY <1>0 DEF PrintStates, SameLease, SameWarnings
<1>2. t = IF u.lease = Pn!Off THEN u ELSE [u EXCEPT !.log = Append(@, e)]
  BY DEF Pn!Tell
<1> HIDE DEF u
<1>3. CASE u.lease = Pn!Off
  <2>1. PnInv(u)
    BY <1>0, <1>1, <1>3 DEF PnInv, SameLease, SameWarnings, Unsubscribed, LeaseLasts
  <2> QED
    BY <1>2, <1>3, <2>1 DEF u
<1>4. CASE u.lease # Pn!Off
  <2>0. Append(s.log, e) \in Seq(Pn!PnEvents) /\ Len(Append(s.log, e)) = Len(s.log) + 1 /\ Len(s.log) \in Nat
    BY <1>0 DEF PrintStates
  <2>1. t = [u EXCEPT !.log = Append(s.log, e)]
    BY <1>1, <1>2, <1>4
  <2> HIDE DEF t
  <2>2. /\ t \in PrintStates(t) /\ t.phase = "running" /\ t.reasons = reasons /\ t.installed = installed
        /\ SameLease(s, t) /\ SameWarnings(s, t) /\ t.may = s.may /\ t.up = s.up
        /\ t.log = Append(s.log, e) /\ t.handled = s.handled
        /\ t.last_notify_sequence_number = s.last_notify_sequence_number
    BY <1>1, <2>0, <2>1 DEF PrintStates, SameLease, SameWarnings
  <2>3. s.subscription_id = 1 /\ s.handled <= Len(s.log) /\ s.handled \in Nat
        /\ s.last_notify_sequence_number <= Len(s.log) /\ s.last_notify_sequence_number \in Nat
    BY <1>0, <1>1, <1>4 DEF PnInv, Unsubscribed, SameLease, PrintStates
  <2>4. ASSUME t.lease # Pn!Off, t.may \cap {"printers", "outage"} = {}, NEW p \in Printers
        PROVE  WarningsFit(t, p)
    <3>1. WarningsFit(s, p)
      BY <1>1, <1>4, <2>2, <2>4 DEF PnInv, SameLease
    <3>2. Cardinality(Answers(t, p)) = Cardinality(Answers(s, p)) + (IF IsAnswer(e, p) THEN 1 ELSE 0)
      BY <1>0, <2>2, <2>3, AnswersTold
    <3>a. Cardinality(Answers(s, p)) \in Nat
      BY <1>0, AnswersCount
    <3>b. s.timeouts[p] \in Nat
      BY <1>0 DEF PrintStates
    <3>3. Cardinality(Answers(s, p)) \in Nat /\ Seen(s, p) \in 0 .. 1 /\ Seen(t, p) \in 0 .. 1
          /\ s.timeouts[p] \in Nat
      BY <3>a, <3>b DEF Seen
    <3>4. CASE IsAnswer(e, p)
      BY <2>2, <3>1, <3>2, <3>3, <3>4 DEF WarningsFit, SameWarnings
    <3>5. CASE ~IsAnswer(e, p)
      <4>1. s.reasons[p] = reasons[p] \/ Pn!Connecting \in reasons[p]
        BY <3>5
      <4>2. Pn!Connecting \in s.reasons[p] \cap s.dests[p] => Pn!Connecting \in t.reasons[p] \cap t.dests[p]
        BY <2>2, <4>1 DEF SameWarnings
      <4>3. Seen(s, p) <= Seen(t, p)
        BY <4>2 DEF Seen
      <4> QED
        BY <2>2, <3>1, <3>2, <3>3, <3>5, <4>3 DEF WarningsFit, SameWarnings
    <3> QED
      BY <3>4, <3>5
  <2>5. \A p \in Printers : t.lease # Pn!Off /\ t.may \cap {"printers", "outage"} = {} => WarningsFit(t, p)
    BY <2>4
  <2>6. PnInv(t)
    BY <1>0, <2>0, <2>2, <2>3, <2>5 DEF PnInv, SameLease, Unsubscribed, LeaseLasts
  <2> QED
    BY <2>6 DEF t, u
<1> QED
  BY <1>3, <1>4

LEMMA ServerActsInv == ASSUME PnInv(st), Pn!ServerActs PROVE PnInv(st')
<1>0. /\ st \in PrintStates(st) /\ st.phase = "running" /\ st.reasons \in [Printers -> SUBSET Pn!Reasons]
      /\ st.installed \in SUBSET Printers /\ ("printers" \notin st.may => st.installed = Printers)
      /\ st = [st EXCEPT !.reasons = st.reasons] /\ st = [st EXCEPT !.installed = st.installed]
      /\ st = [st EXCEPT !.jobs = st.jobs]
  BY DEF PnInv, PrintStates, Pn!ServerActs
<1> DEFINE Told(r, i, j, e) == Pn!Tell([st EXCEPT !.reasons = r, !.installed = i, !.jobs = j], e)
<1>1. ASSUME NEW p \in st.installed, NEW reasons \in SUBSET Pn!Reasons, NEW told \in {reasons, Pn!NoReasons},
             st' = Pn!Tell([st EXCEPT !.reasons[p] = reasons],
                           [event |-> "printer-state-changed", printer |-> p, reasons |-> told])
      PROVE  PnInv(st')
  <2> DEFINE e == [event |-> "printer-state-changed", printer |-> p, reasons |-> told]
             r == [st.reasons EXCEPT ![p] = reasons]
  <2>0. Pn!Connecting \notin Pn!NoReasons
    BY DEF Pn!Connecting, Pn!NoReasons
  <2>1. e \in Pn!PnEvents /\ (Pn!Connecting \in reasons \/ IsAnswer(e, p))
    BY <1>0, <1>1, <2>0 DEF Pn!PnEvents, IsAnswer
  <2>2. r \in [Printers -> SUBSET Pn!Reasons] /\ r[p] = reasons
        /\ \A q \in Printers \ {p} : r[q] = st.reasons[q]
    BY <1>0
  <2>3. st' = Pn!Tell([st EXCEPT !.reasons = r], e)
    BY <1>1
  <2> HIDE DEF e, r
  <2>4. [st EXCEPT !.reasons = r] = [st EXCEPT !.reasons = r, !.installed = st.installed, !.jobs = st.jobs]
    BY <1>0 DEF PrintStates
  <2>5. \A q \in Printers : st.reasons[q] = r[q] \/ Pn!Connecting \in r[q] \/ IsAnswer(e, q)
    BY <2>1, <2>2
  <2>6. PnInv(Pn!Tell([st EXCEPT !.reasons = r, !.installed = st.installed, !.jobs = st.jobs], e))
    BY <1>0, <2>1, <2>2, <2>5, TellInv
  <2> QED
    BY <2>3, <2>4, <2>6
<1>2. ASSUME NEW job \in Jobs, NEW state \in {"held", "processing", "stopped", "completed"},
             NEW event \in {"job-created", "job-state-changed", "job-completed"},
             st' = Pn!Tell([st EXCEPT !.jobs[job] = state], [event |-> event, job |-> job, state |-> state])
      PROVE  PnInv(st')
  <2> DEFINE e == [event |-> event, job |-> job, state |-> state]
             j == [st.jobs EXCEPT ![job] = state]
  <2>1. e \in Pn!PnEvents
    BY DEF Pn!PnEvents, Pn!JobStates
  <2>2. st' = Pn!Tell([st EXCEPT !.jobs = j], e)
    BY <1>2
  <2> HIDE DEF e, j
  <2>3. [st EXCEPT !.jobs = j] = [st EXCEPT !.reasons = st.reasons, !.installed = st.installed, !.jobs = j]
    BY <1>0 DEF PrintStates
  <2>4. PnInv(Pn!Tell([st EXCEPT !.reasons = st.reasons, !.installed = st.installed, !.jobs = j], e))
    BY <1>0, <2>1, TellInv
  <2> QED
    BY <2>2, <2>3, <2>4
<1>3. ASSUME NEW p \in Printers, NEW there \in BOOLEAN, "printers" \in st.may,
             st' = Pn!Tell([st EXCEPT !.installed = IF there THEN @ \cup {p} ELSE @ \ {p}],
                           [event |-> IF there THEN "printer-added" ELSE "printer-deleted", printer |-> p])
      PROVE  PnInv(st')
  <2> DEFINE e == [event |-> IF there THEN "printer-added" ELSE "printer-deleted", printer |-> p]
             i == IF there THEN st.installed \cup {p} ELSE st.installed \ {p}
  <2>1. e \in Pn!PnEvents /\ i \in SUBSET Printers
    BY <1>0 DEF Pn!PnEvents
  <2>2. st' = Pn!Tell([st EXCEPT !.installed = i], e)
    BY <1>3
  <2> HIDE DEF e, i
  <2>3. [st EXCEPT !.installed = i] = [st EXCEPT !.reasons = st.reasons, !.installed = i, !.jobs = st.jobs]
    BY <1>0 DEF PrintStates
  <2>4. PnInv(Pn!Tell([st EXCEPT !.reasons = st.reasons, !.installed = i, !.jobs = st.jobs], e))
    BY <1>0, <1>3, <2>1, TellInv
  <2> QED
    BY <2>2, <2>3, <2>4
<1> QED
  BY <1>0, <1>1, <1>2, <1>3 DEF Pn!ServerActs

\* Time: the lease is as much longer than the wait for its renewal as before.
LEMMA TickInv == ASSUME PnInv(st), Pn!Tick PROVE PnInv(st')
<1> DEFINE renew_source == Pn!Passed(st.renew_source)
           lease == IF st.lease = 0 THEN Pn!Off ELSE Pn!Passed(st.lease)
<1>0. /\ st \in PrintStates(st) /\ st.renew_source \in Pn!Off .. RenewInterval /\ st.renew_source # 0
      /\ st.lease \in Int /\ Pn!Off = -1 /\ ~st.renewing
      /\ st' = [st EXCEPT !.renew_source = renew_source, !.lease = lease]
  BY DEF PnInv, PrintStates, Pn!Tick, Pn!Off
<1>1. /\ renew_source \in Pn!Off .. RenewInterval /\ lease \in Int
      /\ (st.renew_source # Pn!Off => renew_source # Pn!Off /\ renew_source = st.renew_source - 1)
      /\ (st.lease = Pn!Off => lease = Pn!Off) /\ (st.lease >= 1 => lease = st.lease - 1)
  BY <1>0, PrintAssumption DEF Pn!Passed
<1> HIDE DEF renew_source, lease
<1>2. /\ st' \in PrintStates(st') /\ st'.phase = st.phase /\ SameServer(st, st') /\ SameWarnings(st, st')
      /\ st'.renew_source = renew_source /\ st'.lease = lease /\ st'.renewing = st.renewing
      /\ st'.subscription_id = st.subscription_id
  BY <1>0, <1>1 DEF PrintStates, SameServer, SameWarnings
<1>3. Unsubscribed(st) => Unsubscribed(st')
  BY <1>0, <1>1, <1>2 DEF Unsubscribed, SameServer, SameWarnings
<1>4. LeaseLasts(st) => LeaseLasts(st')
  BY <1>0, <1>1, <1>2, PrintAssumption DEF LeaseLasts
<1>5. \A p \in Printers : WarningsFit(st, p) => WarningsFit(st', p)
  BY <1>2, SameFit DEF SameServer
<1> QED
  BY <1>0, <1>1, <1>2, <1>3, <1>4, <1>5 DEF PnInv, SameServer

LEMMA PnNextInv == ASSUME PnInv(st), [Pn!PnNext]_st PROVE PnInv(st')
<1>a. st \in PrintStates(st)
  BY DEF PnInv
<1>b. st.log \in Seq(Pn!PnEvents) /\ st.timeouts \in [Printers -> Nat]
      /\ st.last_notify_sequence_number \in Nat
  BY <1>a DEF PrintStates
<1>0. st \in PrintStates(st) /\ st.timeouts \in [Printers -> Nat]
      /\ st.last_notify_sequence_number \in Nat /\ Len(st.log) \in Nat
  BY <1>a, <1>b
<1>1. CASE Pn!ProcessNewNotifications
  <2> DEFINE n == Len(st.log)
  <2>0. n \in Nat /\ st' = [st EXCEPT !.last_notify_sequence_number = n]
        /\ st.handled <= n
    BY <1>0, <1>1 DEF Pn!ProcessNewNotifications, Pn!Running
  <2> HIDE DEF n
  <2>1. /\ st' \in PrintStates(st') /\ st'.phase = st.phase /\ SameLease(st, st') /\ SameWarnings(st, st')
        /\ st'.may = st.may /\ st'.up = st.up /\ st'.log = st.log
        /\ st'.installed = st.installed /\ st'.reasons = st.reasons /\ st'.handled = st.handled
        /\ st'.last_notify_sequence_number = n /\ st.handled <= n
    BY <1>0, <2>0 DEF PrintStates, SameLease, SameWarnings
  <2>2. \A p \in Printers : WarningsFit(st, p) => WarningsFit(st', p)
    BY <2>1, SameFit
  <2>3. Unsubscribed(st) => Unsubscribed(st')
    BY <2>1 DEF Unsubscribed, SameLease, SameWarnings
  <2>4. LeaseLasts(st) => LeaseLasts(st')
    BY <2>1 DEF LeaseLasts, SameLease
  <2>5. n = Len(st'.log)
    BY <2>1 DEF n
  <2> QED
    BY <2>0, <2>1, <2>2, <2>3, <2>4, <2>5 DEF PnInv, SameLease
<1>2. CASE Pn!ShowNotification
  <2>0. PICK p \in Printers :
          /\ st.timeouts[p] > 0
          /\ st' = [st EXCEPT !.timeouts[p] = @ - 1,
                      !.active_notifications = Append(@, [printer |-> p, reason |-> Pn!Connecting])]
    BY <1>2 DEF Pn!ShowNotification
  <2> DEFINE timeouts == [st.timeouts EXCEPT ![p] = @ - 1]
             active == Append(st.active_notifications, [printer |-> p, reason |-> Pn!Connecting])
  <2>1. timeouts \in [Printers -> Nat] /\ \A q \in Printers : timeouts[q] <= st.timeouts[q]
    BY <1>0, <2>0
  <2>2. st' = [st EXCEPT !.timeouts = timeouts, !.active_notifications = active]
    BY <2>0
  <2>3. st.subscription_id = 1
    BY <1>0, <1>2, <2>0 DEF PnInv, PrintStates, Unsubscribed, Pn!ShowNotification, Pn!Running
  <2> HIDE DEF timeouts, active
  <2>4. /\ st' \in PrintStates(st') /\ st'.phase = st.phase /\ SameServer(st, st') /\ SameLease(st, st')
        /\ st'.timeouts = timeouts /\ st'.dests = st.dests
    BY <1>0, <2>1, <2>2 DEF PrintStates, SameServer, SameLease
  <2>5. ASSUME NEW q \in Printers, WarningsFit(st, q) PROVE WarningsFit(st', q)
    <3>1. Answers(st', q) = Answers(st, q) /\ Seen(st', q) = Seen(st, q)
      BY <2>4 DEF Answers, Seen, SameServer
    <3>2. Cardinality(Answers(st, q)) \in Nat /\ Seen(st, q) \in 0 .. 1 /\ timeouts[q] \in Nat /\ st.timeouts[q] \in Nat
      BY <1>0, <2>1, AnswersCount DEF Seen
    <3> QED
      BY <2>1, <2>4, <2>5, <3>1, <3>2 DEF WarningsFit
  <2> QED
    BY <2>3, <2>4, <2>5 DEF PnInv, SameServer, SameLease, Unsubscribed, LeaseLasts
<1>3. CASE Pn!NotificationClosed \/ Pn!CheckHeldJob
  <2> DEFINE held == Tail(st.held_jobs)
  <2>1. \/ \E active : st' = [st EXCEPT !.active_notifications = active]
        \/ st' = [st EXCEPT !.held_jobs = held]
    BY <1>3 DEF Pn!NotificationClosed, Pn!CheckHeldJob
  <2> HIDE DEF held
  <2> DEFINE Kept(s) == /\ s \in PrintStates(s) /\ s.phase = st.phase /\ SameServer(st, s)
                        /\ SameLease(st, s) /\ SameWarnings(st, s)
  <2>2. \A active : Kept([st EXCEPT !.active_notifications = active])
    BY <1>0 DEF PrintStates, SameServer, SameLease, SameWarnings
  <2>3. Kept([st EXCEPT !.held_jobs = held])
    BY <1>0 DEF PrintStates, SameServer, SameLease, SameWarnings
  <2> HIDE DEF Kept
  <2>4. Kept(st')
    BY <2>1, <2>2, <2>3
  <2> QED
    BY <2>4, SamePnInv DEF Kept
<1>4. CASE Pn!RetryConnection
  BY <1>4, ConnectionTestInv DEF Pn!RetryConnection
<1>5. CASE Pn!MachineSleeps
  <2>1. /\ st' = [st EXCEPT !.lease = Pn!Off] /\ Pn!Off \in Int /\ "sleep" \in st.may
    BY <1>5 DEF Pn!MachineSleeps, Pn!Off
  <2>2. /\ st' \in PrintStates(st') /\ st'.phase = st.phase /\ SameServer(st, st') /\ SameWarnings(st, st')
        /\ st'.lease = Pn!Off /\ st'.subscription_id = st.subscription_id
        /\ st'.renew_source = st.renew_source /\ st'.renewing = st.renewing
    BY <1>0, <2>1 DEF PrintStates, SameServer, SameWarnings
  <2> QED
    BY <2>1, <2>2 DEF PnInv, SameServer, SameWarnings, Unsubscribed
<1>6. CASE Pn!ServerLeaves \/ Pn!ServerReturns
  <2>0. PICK up \in BOOLEAN : st' = [st EXCEPT !.up = up] /\ (up \/ "outage" \in st.may)
    BY <1>6 DEF Pn!ServerLeaves, Pn!ServerReturns
  <2>1. /\ st' \in PrintStates(st') /\ st'.phase = st.phase /\ SameLease(st, st') /\ SameWarnings(st, st')
        /\ st'.may = st.may /\ st'.up = up /\ st'.log = st.log
        /\ st'.installed = st.installed /\ st'.reasons = st.reasons /\ st'.handled = st.handled
        /\ st'.last_notify_sequence_number = st.last_notify_sequence_number
    BY <1>0, <2>0 DEF PrintStates, SameLease, SameWarnings
  <2>2. \A p \in Printers : WarningsFit(st, p) => WarningsFit(st', p)
    BY <2>1, SameFit
  <2> QED
    BY <2>0, <2>1, <2>2 DEF PnInv, SameLease, SameWarnings, Unsubscribed, LeaseLasts
<1>7. CASE UNCHANGED st
  BY <1>7
<1> QED
  BY <1>1, <1>2, <1>3, <1>4, <1>5, <1>6, <1>7, StartIdleInv, ProcessNotificationInv,
     ConnectionAnswersInv, RenewDueInv, RenewTestedInv, PnShutdownInv, ServerActsInv, TickInv DEF Pn!PnNext

LEMMA PnInitInv == ASSUME Pn!PnInit PROVE PnInv(st)
<1>1. PICK may \in PnWorlds, local \in BOOLEAN :
        st = [may |-> may, phase |-> "starting", local |-> local, up |-> TRUE, lease |-> Pn!Off, log |-> <<>>,
              installed |-> Printers, reasons |-> [p \in Printers |-> {}], jobs |-> [j \in Jobs |-> "none"],
              subscription_id |-> -1, renew_source |-> Pn!Off, check_sources |-> 0,
              cups_connection_timeout |-> FALSE, tests |-> 0, tested |-> 0, renewing |-> FALSE,
              dests |-> [p \in Printers |-> {"absent"}], last_notify_sequence_number |-> 0, handled |-> 0,
              printing_printers |-> {}, held_jobs |-> <<>>,
              timeouts |-> [p \in Printers |-> 0], active_notifications |-> <<>>,
              scp_handler_spawned |-> FALSE]
  BY DEF Pn!PnInit
<1> DEFINE reasons == [p \in Printers |-> {}]
           jobs == [j \in Jobs |-> "none"]
           dests == [p \in Printers |-> {"absent"}]
           timeouts == [p \in Printers |-> 0]
<1>2. /\ reasons \in [Printers -> SUBSET Pn!Reasons] /\ timeouts \in [Printers -> Nat]
      /\ dests \in [Printers -> (SUBSET Pn!Reasons) \cup {{"absent"}}]
      /\ <<>> \in Seq(Pn!PnEvents) /\ Len(<<>>) = 0
      /\ Pn!Off \in Int /\ Pn!Off \in Pn!Off .. RenewInterval
  BY PrintAssumption DEF Pn!Off
<1>a. timeouts = [p \in Printers |-> 0]
  OBVIOUS
<1>3. st = [may |-> may, phase |-> "starting", local |-> local, up |-> TRUE, lease |-> Pn!Off, log |-> <<>>,
            installed |-> Printers, reasons |-> reasons, jobs |-> jobs,
            subscription_id |-> -1, renew_source |-> Pn!Off, check_sources |-> 0,
            cups_connection_timeout |-> FALSE, tests |-> 0, tested |-> 0, renewing |-> FALSE,
            dests |-> dests, last_notify_sequence_number |-> 0, handled |-> 0,
            printing_printers |-> {}, held_jobs |-> <<>>,
            timeouts |-> timeouts, active_notifications |-> <<>>, scp_handler_spawned |-> FALSE]
  BY <1>1
<1> HIDE DEF reasons, jobs, dests, timeouts
<1>4. /\ st \in PrintStates(st) /\ st.phase = "starting" /\ st.subscription_id = -1 /\ st.lease = Pn!Off
      /\ st.log = <<>> /\ st.timeouts = timeouts /\ ~st.renewing /\ st.up /\ st.installed = Printers
      /\ st.handled = 0 /\ st.last_notify_sequence_number = 0
  BY <1>2, <1>3 DEF PrintStates
<1> QED
  BY <1>2, <1>4, <1>a DEF PnInv, Unsubscribed

LEMMA PnInvFollows == ASSUME PnInv(st) PROVE Pn!SubscriptionIsKept /\ Pn!ConnectingIsWithdrawn
<1>a. st \in PrintStates(st)
  BY DEF PnInv
<1>0. st \in PrintStates(st) /\ st.subscription_id \in {-1, 1} /\ Len(st.log) \in Nat
  BY <1>a DEF PrintStates
<1>1. Pn!SubscriptionIsKept
  BY <1>0 DEF PnInv, LeaseLasts, Pn!SubscriptionIsKept
<1>2. ASSUME Pn!CaughtUp, st.may \cap {"printers", "outage"} = {}, NEW p \in Printers
      PROVE  (st.timeouts[p] > 0 => Pn!Connecting \in st.reasons[p]) /\ st.timeouts[p] <= 1
  <2>1. WarningsFit(st, p) /\ st.handled = Len(st.log)
    BY <1>2 DEF PnInv, Pn!CaughtUp, Pn!Running
  <2>2. Answers(st, p) = {}
    BY <1>0, <2>1 DEF Answers
  <2>3. Cardinality(Answers(st, p)) = 0
    BY <2>2, FS_EmptySet
  <2>4. st.timeouts[p] \in Nat /\ st.timeouts[p] <= Seen(st, p)
    BY <1>0, <2>1, <2>3 DEF WarningsFit, PrintStates, Seen
  <2> QED
    BY <2>4 DEF Seen
<1> QED
  BY <1>1, <1>2 DEF Pn!ConnectingIsWithdrawn


-------------------------------------------------------------------------------
(***************************************************************************)
(* gsd-printer: an object is on the bus while its session is first in the line *)
(* for the name, or has not heard yet that it is no longer.                    *)
(***************************************************************************)

\* The state is a record of these fields.  The printers have not to be known.
SetupStates(s) ==
  [may : {s.may}, alive : {s.alive}, owner_id : {s.owner_id},
   registration_id : [Sessions -> SUBSET Ps!Names], inbox : [Sessions -> Seq(Ps!Messages)],
   bus : [Ps!Names -> Seq(Sessions)], busy : {s.busy}, device : {s.device}, queue : {s.queue},
   dests : {s.dests}, accepting : {s.accepting}, enabled : {s.enabled}, new : {s.new},
   missing_driver : {s.missing_driver}, changes : {s.changes}]

Owns(s, who, name) == s.bus[name] # <<>> /\ Head(s.bus[name]) = who

\* The session will be told that it has lost a name.
WillHear(s, who) == \E i \in DOMAIN s.inbox[who] : s.inbox[who][i].kind = "name_lost"

SessionHasNames(s, who) == \A n \in s.registration_id[who] : Owns(s, who, n) \/ WillHear(s, who)

PsInv(s) ==
  /\ s \in SetupStates(s)
  /\ \A n \in Ps!Names : Once(s.bus[n])
  /\ \A who \in Sessions : SessionHasNames(s, who)

SameNames(s, t) == t.registration_id = s.registration_id /\ t.inbox = s.inbox /\ t.bus = s.bus

LEMMA SamePsInv ==
  ASSUME NEW s, NEW t, PsInv(s), t \in SetupStates(t), SameNames(s, t)
  PROVE  PsInv(t)
BY DEF PsInv, SameNames, SessionHasNames, Owns, WillHear

\* A session that has no objects may be told of anything, and leave the lines.
LEMMA UnownNamesInv ==
  ASSUME NEW s, PsInv(s), NEW who \in Sessions
  PROVE  PsInv(Ps!UnownNames(Ps!UnregisterObjects(s, who), who))
<1> DEFINE t == Ps!UnownNames(Ps!UnregisterObjects(s, who), who)
           registered == [s.registration_id EXCEPT ![who] = {}]
           inbox == [s.inbox EXCEPT ![who] = <<>>]
           bus == [n \in Ps!Names |-> Ps!RemoveFirst(s.bus[n], who)]
           owners == [s.owner_id EXCEPT ![who] = {}]
<1>0. /\ s \in SetupStates(s) /\ s.registration_id \in [Sessions -> SUBSET Ps!Names]
      /\ s.inbox \in [Sessions -> Seq(Ps!Messages)] /\ s.bus \in [Ps!Names -> Seq(Sessions)]
      /\ \A n \in Ps!Names : Once(s.bus[n])
  <2>1. s \in SetupStates(s)
    BY DEF PsInv
  <2> QED
    BY <2>1 DEF PsInv, SetupStates
<1>1. \A n \in Ps!Names :
        /\ bus[n] \in Seq(Sessions) /\ Once(bus[n])
        /\ \A other \in Sessions \ {who} :
             s.bus[n] # <<>> /\ Head(s.bus[n]) = other => bus[n] # <<>> /\ Head(bus[n]) = other
  BY <1>0, WithoutOps
<1>2. /\ registered \in [Sessions -> SUBSET Ps!Names] /\ inbox \in [Sessions -> Seq(Ps!Messages)]
      /\ bus \in [Ps!Names -> Seq(Sessions)]
  BY <1>0, <1>1
<1>3. /\ registered[who] = {}
      /\ \A other \in Sessions \ {who} :
           registered[other] = s.registration_id[other] /\ inbox[other] = s.inbox[other]
  BY <1>0
<1>4. t = [s EXCEPT !.registration_id = registered, !.owner_id = owners, !.inbox = inbox, !.bus = bus]
  BY <1>0 DEF Ps!UnownNames, Ps!UnregisterObjects, SetupStates
<1> HIDE DEF t, registered, inbox, bus, owners
<1>5. t \in SetupStates(t) /\ t.registration_id = registered /\ t.inbox = inbox /\ t.bus = bus
  BY <1>0, <1>2, <1>4 DEF SetupStates
<1>6. ASSUME NEW other \in Sessions PROVE SessionHasNames(t, other)
  <2>1. CASE other = who
    BY <1>3, <1>5, <2>1 DEF SessionHasNames
  <2>2. CASE other # who
    <3>1. SessionHasNames(s, other) /\ s.registration_id[other] \subseteq Ps!Names
      BY <1>0 DEF PsInv
    <3> QED
      BY <1>1, <1>3, <1>5, <2>2, <3>1 DEF SessionHasNames, Owns, WillHear
  <2> QED
    BY <2>1, <2>2
<1>7. PsInv(t)
  BY <1>1, <1>5, <1>6 DEF PsInv
<1> QED
  BY <1>7 DEF t

\* More that is under way is heard too.
LEMMA HeardInv ==
  ASSUME NEW s, PsInv(s), NEW who \in Sessions, NEW more \in Seq(Ps!Messages), NEW owners
  PROVE  PsInv([s EXCEPT !.owner_id = owners, !.inbox[who] = @ \o more])
<1> DEFINE inbox == [s.inbox EXCEPT ![who] = @ \o more]
           t == [s EXCEPT !.owner_id = owners, !.inbox = inbox]
<1>0. /\ s \in SetupStates(s) /\ s.inbox \in [Sessions -> Seq(Ps!Messages)]
  <2>1. s \in SetupStates(s)
    BY DEF PsInv
  <2> QED
    BY <2>1 DEF SetupStates
<1> DEFINE old == s.inbox[who]
           new == old \o more
<1>1. /\ new \in Seq(Ps!Messages) /\ DOMAIN old \subseteq DOMAIN new
      /\ \A i \in DOMAIN old : new[i] = old[i]
  <2>1. old \in Seq(Ps!Messages)
    BY <1>0
  <2> HIDE DEF old
  <2>2. /\ new \in Seq(Ps!Messages) /\ Len(new) = Len(old) + Len(more)
        /\ \A i \in 1 .. Len(old) + Len(more) : new[i] = IF i <= Len(old) THEN old[i] ELSE more[i - Len(old)]
    BY <2>1, ConcatProperties
  <2>3. Len(old) \in Nat /\ Len(more) \in Nat /\ DOMAIN old = 1 .. Len(old) /\ DOMAIN new = 1 .. Len(new)
    BY <2>1, <2>2
  <2> HIDE DEF new
  <2>4. \A i \in 1 .. Len(old) : i \in 1 .. Len(old) + Len(more) /\ i <= Len(old)
    BY <2>3
  <2> QED
    BY <2>2, <2>3, <2>4
<1>2. inbox = [s.inbox EXCEPT ![who] = new]
  OBVIOUS
<1> HIDE DEF new, inbox
<1>3. /\ inbox \in [Sessions -> Seq(Ps!Messages)] /\ inbox[who] = new
      /\ \A other \in Sessions \ {who} : inbox[other] = s.inbox[other]
  BY <1>0, <1>1, <1>2
<1>4. /\ t \in SetupStates(t) /\ t.inbox = inbox /\ t.bus = s.bus /\ t.registration_id = s.registration_id
  BY <1>0, <1>3 DEF SetupStates
<1>5. t = [s EXCEPT !.owner_id = owners, !.inbox[who] = @ \o more]
  BY DEF inbox, new
<1> HIDE DEF t
<1>6. ASSUME NEW other \in Sessions, WillHear(s, other) PROVE WillHear(t, other)
  <2>1. CASE other = who
    BY <1>1, <1>3, <1>4, <1>6, <2>1 DEF WillHear, old
  <2>2. CASE other # who
    BY <1>3, <1>4, <1>6, <2>2 DEF WillHear
  <2> QED
    BY <2>1, <2>2
<1>7. \A other \in Sessions : SessionHasNames(t, other)
  BY <1>4, <1>6 DEF PsInv, SessionHasNames, Owns
<1>8. PsInv(t)
  BY <1>4, <1>7 DEF PsInv
<1> QED
  BY <1>5, <1>8

\* Whoever has a name taken from him will be told.
LEMMA BusAcquiredInv ==
  ASSUME NEW s, PsInv(s), NEW who \in Sessions, NEW name \in Ps!Names
  PROVE  PsInv(Ps!BusAcquired(s, who, name))
<1> DEFINE line == s.bus[name]
           rest == Ps!RemoveFirst(line, who)
           mine == <<who>> \o rest
           registered == [s.registration_id EXCEPT ![who] = @ \cup {name}]
           bus == [s.bus EXCEPT ![name] = mine]
           t == [s EXCEPT !.registration_id = registered, !.bus = bus]
<1>0. /\ s \in SetupStates(s) /\ s.registration_id \in [Sessions -> SUBSET Ps!Names]
      /\ s.inbox \in [Sessions -> Seq(Ps!Messages)] /\ s.bus \in [Ps!Names -> Seq(Sessions)]
      /\ line \in Seq(Sessions) /\ Once(line) /\ \A n \in Ps!Names : Once(s.bus[n])
  <2>1. s \in SetupStates(s)
    BY DEF PsInv
  <2> QED
    BY <2>1 DEF PsInv, SetupStates
<1>1. rest \in Seq(Sessions) /\ Once(rest) /\ \A i \in DOMAIN rest : rest[i] # who
  BY <1>0, WithoutOps
<1> HIDE DEF rest
<1>2. mine \in Seq(Sessions) /\ Once(mine) /\ mine # <<>> /\ Head(mine) = who
  BY <1>1, PrependedOps
<1> HIDE DEF mine
<1>3. /\ registered \in [Sessions -> SUBSET Ps!Names] /\ registered[who] = s.registration_id[who] \cup {name}
      /\ \A other \in Sessions \ {who} : registered[other] = s.registration_id[other]
      /\ bus \in [Ps!Names -> Seq(Sessions)] /\ bus[name] = mine
      /\ \A n \in Ps!Names \ {name} : bus[n] = s.bus[n]
  BY <1>0, <1>2
<1>4. t = [s EXCEPT !.registration_id[who] = @ \cup {name}, !.bus[name] = <<who>> \o Ps!RemoveFirst(@, who)]
  BY DEF rest, mine
<1> HIDE DEF registered, bus
<1>5. /\ t \in SetupStates(t) /\ t.registration_id = registered /\ t.inbox = s.inbox /\ t.bus = bus
  BY <1>0, <1>3 DEF SetupStates
<1> HIDE DEF t
<1>6. Ps!BusAcquired(s, who, name) =
        IF line = <<>> \/ Head(line) = who THEN t ELSE Ps!Deliver(t, Head(line), "name_lost", name)
  BY <1>4 DEF Ps!BusAcquired
<1>7. \A n \in Ps!Names : Once(bus[n])
  BY <1>0, <1>2, <1>3
\* Those of whom nothing has changed but that they may have lost the name.
<1>8. ASSUME NEW other \in Sessions, WillHear(s, other) \/ other = who \/ ~Owns(s, other, name)
      PROVE  SessionHasNames(t, other)
  <2>1. SessionHasNames(s, other) /\ WillHear(t, other) = WillHear(s, other)
    BY <1>5 DEF PsInv, WillHear
  <2>2. ASSUME NEW n \in t.registration_id[other] PROVE Owns(t, other, n) \/ WillHear(t, other)
    <3>0. n \in Ps!Names
      BY <1>3, <1>5, <2>2
    <3>1. CASE n = name /\ other = who
      BY <1>2, <1>3, <1>5, <3>1 DEF Owns
    <3>2. CASE n # name
      <4>1. n \in s.registration_id[other] /\ (Owns(s, other, n) => Owns(t, other, n))
        BY <1>3, <1>5, <2>2, <3>0, <3>2 DEF Owns
      <4> QED
        BY <2>1, <4>1 DEF SessionHasNames
    <3>3. CASE n = name /\ other # who
      <4>1. n \in s.registration_id[other]
        BY <1>3, <1>5, <2>2, <3>3
      <4> QED
        BY <1>8, <2>1, <3>3, <4>1 DEF SessionHasNames
    <3> QED
      BY <3>1, <3>2, <3>3
  <2> QED
    BY <2>2 DEF SessionHasNames
<1>9. CASE line = <<>> \/ Head(line) = who
  <2>1. \A other \in Sessions : other = who \/ ~Owns(s, other, name)
    BY <1>9 DEF Owns
  <2>2. PsInv(t)
    BY <1>5, <1>7, <1>8, <2>1 DEF PsInv
  <2> QED
    BY <1>6, <1>9, <2>2
<1>10. CASE line # <<>> /\ Head(line) # who
  <2> DEFINE loser == Head(line)
             message == [kind |-> "name_lost", name |-> name]
             told == Append(s.inbox[loser], message)
             inbox == [t.inbox EXCEPT ![loser] = told]
             u == [t EXCEPT !.inbox = inbox]
  <2>1. loser \in Sessions /\ s.inbox[loser] \in Seq(Ps!Messages)
    BY <1>0, <1>10
  <2>2. Ps!BusAcquired(s, who, name) = u
    BY <1>5, <1>6, <1>10 DEF Ps!Deliver
  <2>3. message \in Ps!Messages /\ message.kind = "name_lost"
    BY DEF Ps!Messages
  <2> HIDE DEF message, loser
  <2> DEFINE heard == s.inbox[loser]
  <2>4. /\ told \in Seq(Ps!Messages) /\ Len(heard) + 1 \in DOMAIN told
        /\ told[Len(heard) + 1] = message
    <3>1. heard \in Seq(Ps!Messages) /\ Len(heard) \in Nat
      BY <2>1
    <3> HIDE DEF heard
    <3>2. told = Append(heard, message)
      BY DEF heard
    <3> HIDE DEF told
    <3>3. Len(heard) + 1 \in 1 .. Len(heard) + 1
      BY <3>1
    <3> QED
      BY <2>3, <3>1, <3>2, <3>3, Appended
  <2> HIDE DEF told
  <2>5. /\ inbox \in [Sessions -> Seq(Ps!Messages)] /\ inbox[loser] = told
        /\ \A other \in Sessions \ {loser} : inbox[other] = s.inbox[other]
    BY <1>0, <1>5, <2>1, <2>4
  <2> HIDE DEF inbox
  <2>6. /\ u \in SetupStates(u) /\ u.inbox = inbox /\ u.bus = t.bus /\ u.registration_id = t.registration_id
    BY <1>5, <2>5 DEF SetupStates
  <2> HIDE DEF u
  <2>7. WillHear(u, loser)
    BY <2>3, <2>4, <2>5, <2>6 DEF WillHear
  <2>8. ASSUME NEW other \in Sessions PROVE SessionHasNames(u, other)
    <3>1. CASE other = loser
      BY <2>7, <3>1 DEF SessionHasNames
    <3>2. CASE other # loser
      <4>1. ~Owns(s, other, name)
        BY <3>2 DEF Owns, loser
      <4>2. SessionHasNames(t, other)
        BY <1>8, <4>1
      <4> QED
        BY <1>5, <2>5, <2>6, <3>2, <4>2 DEF SessionHasNames, Owns, WillHear
    <3> QED
      BY <3>1, <3>2
  <2>9. PsInv(u)
    BY <1>5, <1>7, <2>6, <2>8 DEF PsInv
  <2> QED
    BY <2>2, <2>9
<1> QED
  BY <1>9, <1>10

LEMMA HandleMessageInv == ASSUME PsInv(st), Ps!HandleMessage PROVE PsInv(st')
<1>0. /\ st \in SetupStates(st) /\ st.registration_id \in [Sessions -> SUBSET Ps!Names]
      /\ st.inbox \in [Sessions -> Seq(Ps!Messages)]
  <2>1. st \in SetupStates(st)
    BY DEF PsInv
  <2> QED
    BY <2>1 DEF SetupStates
<1>1. PICK who \in Sessions :
        /\ st.inbox[who] # <<>>
        /\ LET message == Head(st.inbox[who])
               rest    == [st EXCEPT !.inbox[who] = Tail(@)]
           IN st' = IF message.kind = "bus_acquired" THEN Ps!BusAcquired(rest, who, message.name)
                    ELSE Ps!NameLost(rest, who, message.name)
  BY DEF Ps!HandleMessage
<1> DEFINE old == st.inbox[who]
           message == Head(old)
           new == Tail(old)
           inbox == [st.inbox EXCEPT ![who] = new]
           rest == [st EXCEPT !.inbox = inbox]
<1>2. /\ old \in Seq(Ps!Messages) /\ new \in Seq(Ps!Messages) /\ message \in Ps!Messages
      /\ \A i \in DOMAIN old : i # 1 => i - 1 \in DOMAIN new /\ new[i - 1] = old[i]
      /\ message = old[1]
  <2>1. old \in Seq(Ps!Messages) /\ old # <<>>
    BY <1>0, <1>1
  <2> HIDE DEF old
  <2> QED
    BY <2>1
<1>3. st' = IF message.kind = "bus_acquired" THEN Ps!BusAcquired(rest, who, message.name)
            ELSE Ps!NameLost(rest, who, message.name)
  BY <1>1
<1> HIDE DEF new, message
<1>4. /\ inbox \in [Sessions -> Seq(Ps!Messages)] /\ inbox[who] = new
      /\ \A other \in Sessions \ {who} : inbox[other] = st.inbox[other]
  BY <1>0, <1>2
<1> HIDE DEF inbox
<1>5. /\ rest \in SetupStates(rest) /\ rest.inbox = inbox /\ rest.bus = st.bus
      /\ rest.registration_id = st.registration_id
  BY <1>0, <1>4 DEF SetupStates
<1> HIDE DEF rest
<1>6. \A other \in Sessions \ {who} : SessionHasNames(rest, other)
  BY <1>4, <1>5 DEF PsInv, SessionHasNames, Owns, WillHear
<1>7. CASE message.kind = "bus_acquired"
  <2>1. WillHear(st, who) => WillHear(rest, who)
    <3>1. ASSUME NEW i \in DOMAIN old, old[i].kind = "name_lost" PROVE WillHear(rest, who)
      <4>1. i # 1
        BY <1>2, <1>7, <3>1
      <4>2. i - 1 \in DOMAIN new /\ new[i - 1] = old[i]
        BY <1>2, <4>1
      <4> QED
        BY <1>4, <1>5, <3>1, <4>2 DEF WillHear
    <3> QED
      BY <3>1 DEF WillHear
  <2>2. SessionHasNames(rest, who)
    BY <1>5, <2>1 DEF PsInv, SessionHasNames, Owns
  <2>3. PsInv(rest)
    BY <1>5, <1>6, <2>2 DEF PsInv
  <2>4. message.name \in Ps!Names
    BY <1>2 DEF Ps!Messages
  <2> QED
    BY <1>3, <1>7, <2>3, <2>4, BusAcquiredInv
<1>8. CASE message.kind # "bus_acquired"
  <2> DEFINE registered == [rest.registration_id EXCEPT ![who] = {}]
  <2>1. st' = [rest EXCEPT !.registration_id = registered]
    BY <1>3, <1>8 DEF Ps!NameLost, Ps!UnregisterObjects
  <2>2. /\ registered \in [Sessions -> SUBSET Ps!Names] /\ registered[who] = {}
        /\ \A other \in Sessions \ {who} : registered[other] = rest.registration_id[other]
    BY <1>0, <1>5
  <2> HIDE DEF registered
  <2>3. /\ st' \in SetupStates(st') /\ st'.registration_id = registered /\ st'.inbox = rest.inbox
        /\ st'.bus = rest.bus
    BY <1>5, <2>1, <2>2 DEF SetupStates
  <2>4. SessionHasNames(st', who)
    BY <2>2, <2>3 DEF SessionHasNames
  <2>5. \A other \in Sessions \ {who} : SessionHasNames(st', other)
    BY <1>6, <2>2, <2>3 DEF SessionHasNames, Owns, WillHear
  <2> QED
    BY <1>5, <2>3, <2>4, <2>5 DEF PsInv
<1> QED
  BY <1>7, <1>8

\* Setting up a printer changes neither names nor objects.
LEMMA SetupInv ==
  ASSUME PsInv(st),
         \/ Ps!NewPrinter \/ Ps!GetBestPpd \/ Ps!CreateName \/ Ps!AddPrinter \/ Ps!PrinterOptions
         \/ Ps!Autoconfigure \/ Ps!SetDefaultPaperSize \/ Ps!InstallPackages \/ Ps!AdminAddsQueue
  PROVE  st' \in SetupStates(st') /\ SameNames(st, st')
<1>0. st \in SetupStates(st)
  BY DEF PsInv
<1>2. CASE Ps!NewPrinter
  BY <1>0, <1>2 DEF Ps!NewPrinter, SetupStates, SameNames
<1>3. CASE Ps!GetBestPpd
  BY <1>0, <1>3 DEF Ps!GetBestPpd, Ps!Fails, Ps!Ends, SetupStates, SameNames
<1>4. CASE Ps!CreateName
  BY <1>0, <1>4 DEF Ps!CreateName, SetupStates, SameNames
<1>5. CASE Ps!AddPrinter
  <2>1. PICK who \in Sessions, works \in BOOLEAN :
          LET q    == st.queue[who]
              made == IF works THEN [st EXCEPT !.dests[q] = st.device[who]] ELSE st
          IN st' = IF made.dests[q] = Ps!Nobody THEN Ps!Fails(made, who)
                   ELSE [made EXCEPT !.busy[who] = "accept"]
    BY <1>5 DEF Ps!AddPrinter
  <2> DEFINE q    == st.queue[who]
             made == IF works THEN [st EXCEPT !.dests[q] = st.device[who]] ELSE st
  <2>2. made \in SetupStates(made) /\ SameNames(st, made)
    BY <1>0 DEF SetupStates, SameNames
  <2>3. st' = Ps!Fails(made, who) \/ st' = [made EXCEPT !.busy[who] = "accept"]
    BY <2>1
  <2> HIDE DEF made
  <2> QED
    BY <2>2, <2>3 DEF Ps!Fails, Ps!Ends, SetupStates, SameNames
<1>6. CASE Ps!PrinterOptions
  BY <1>0, <1>6 DEF Ps!PrinterOptions, SetupStates, SameNames
<1>7. CASE Ps!Autoconfigure
  BY <1>0, <1>7 DEF Ps!Autoconfigure, Ps!Ends, SetupStates, SameNames
<1>8. CASE Ps!SetDefaultPaperSize \/ Ps!InstallPackages
  BY <1>0, <1>8 DEF Ps!SetDefaultPaperSize, Ps!InstallPackages, Ps!Ends, SetupStates, SameNames
<1>9. CASE Ps!AdminAddsQueue
  BY <1>0, <1>9 DEF Ps!AdminAddsQueue, SetupStates, SameNames
<1> QED
  BY <1>2, <1>3, <1>4, <1>5, <1>6, <1>7, <1>8, <1>9

LEMMA PsNextInv == ASSUME PsInv(st), [Ps!PsNext]_st PROVE PsInv(st')
<1> DEFINE OwnBoth == <<[kind |-> "bus_acquired", name |-> "NewPrinterNotification"],
                        [kind |-> "bus_acquired", name |-> "PrinterDriversInstaller"]>>
<1>0. st \in SetupStates(st) /\ OwnBoth \in Seq(Ps!Messages)
  BY DEF PsInv, Ps!Messages, Ps!Names
<1>1. ASSUME NEW s, PsInv(s), NEW who \in Sessions
      PROVE  PsInv(Ps!OwnNames(s, who)) /\ Ps!OwnNames(s, who) \in SetupStates(Ps!OwnNames(s, who))
  <2> DEFINE owners == [s.owner_id EXCEPT ![who] = Ps!Names]
             t == [s EXCEPT !.owner_id = owners, !.inbox[who] = @ \o OwnBoth]
  <2>1. Ps!OwnNames(s, who) = t
    BY <1>1 DEF Ps!OwnNames, PsInv, SetupStates
  <2> HIDE DEF OwnBoth, owners
  <2>2. PsInv(t)
    BY <1>0, <1>1, HeardInv
  <2> QED
    BY <2>1, <2>2 DEF PsInv
<1>2. CASE Ps!SessionStarts
  <2>1. PICK who \in Sessions : st' = [Ps!OwnNames(st, who) EXCEPT !.alive = @ \cup {who}]
    BY <1>2 DEF Ps!SessionStarts
  <2> DEFINE t == Ps!OwnNames(st, who)
  <2>2. PsInv(t) /\ t \in SetupStates(t)
    BY <1>1
  <2> HIDE DEF t
  <2>3. st' \in SetupStates(st') /\ SameNames(t, st')
    BY <2>1, <2>2 DEF t, SetupStates, SameNames
  <2> QED
    BY <2>2, <2>3, SamePsInv
<1>3. CASE Ps!SessionEnds
  <2>1. PICK who \in Sessions :
          st' = [Ps!UnownNames(Ps!UnregisterObjects(st, who), who) EXCEPT !.alive = @ \ {who}, !.changes = @ + 1]
    BY <1>3 DEF Ps!SessionEnds
  <2> DEFINE t == Ps!UnownNames(Ps!UnregisterObjects(st, who), who)
  <2>2. PsInv(t) /\ t \in SetupStates(t)
    BY UnownNamesInv DEF PsInv
  <2>a. st' = [t EXCEPT !.alive = @ \ {who}, !.changes = @ + 1]
    BY <2>1
  <2> HIDE DEF t
  <2>3. st' \in SetupStates(st') /\ SameNames(t, st')
    BY <2>a, <2>2 DEF SetupStates, SameNames
  <2> QED
    BY <2>2, <2>3, SamePsInv
<1>4. CASE Ps!StatusChanged
  <2>1. PICK who \in Sessions, available \in BOOLEAN :
          LET given_up == Ps!UnownNames(Ps!UnregisterObjects([st EXCEPT !.changes = @ + 1], who), who)
          IN st' = IF available THEN Ps!OwnNames(given_up, who) ELSE given_up
    BY <1>4 DEF Ps!StatusChanged
  <2> DEFINE s == [st EXCEPT !.changes = @ + 1]
             t == Ps!UnownNames(Ps!UnregisterObjects(s, who), who)
  <2>2. s \in SetupStates(s) /\ SameNames(st, s)
    BY <1>0 DEF SetupStates, SameNames
  <2>a. st' = IF available THEN Ps!OwnNames(t, who) ELSE t
    BY <2>1
  <2> HIDE DEF s
  <2>3. PsInv(s)
    BY <2>2, SamePsInv
  <2>4. PsInv(t)
    BY <2>3, UnownNamesInv
  <2> HIDE DEF t
  <2>5. PsInv(Ps!OwnNames(t, who))
    BY <2>4, <1>1
  <2> QED
    BY <2>a, <2>4, <2>5
<1>5. CASE UNCHANGED st
  BY <1>5
<1> QED
  BY <1>2, <1>3, <1>4, <1>5, HandleMessageInv, SetupInv, SamePsInv DEF Ps!PsNext

LEMMA PsInitInv == ASSUME Ps!PsInit PROVE PsInv(st)
<1> DEFINE registered == [s \in Sessions |-> {}]
           inbox == [s \in Sessions |-> <<>>]
           bus == [n \in Ps!Names |-> <<>>]
<1>1. /\ registered \in [Sessions -> SUBSET Ps!Names] /\ inbox \in [Sessions -> Seq(Ps!Messages)]
      /\ bus \in [Ps!Names -> Seq(Sessions)] /\ \A n \in Ps!Names : Once(bus[n])
      /\ \A who \in Sessions : registered[who] = {}
  BY DEF Once
<1>2. /\ st \in SetupStates(st) /\ st.registration_id = registered /\ st.inbox = inbox /\ st.bus = bus
  BY <1>1 DEF Ps!PsInit, SetupStates
<1> QED
  BY <1>1, <1>2 DEF PsInv, SessionHasNames

LEMMA PsInvFollows == ASSUME PsInv(st) PROVE Ps!ObjectsHaveNames
<1> SUFFICES ASSUME \A who \in Sessions : st.inbox[who] = <<>>, NEW who \in Sessions,
                    NEW n \in st.registration_id[who]
             PROVE  Owns(st, who, n)
  BY DEF Ps!ObjectsHaveNames, Owns
<1>1. ~WillHear(st, who)
  BY DEF WillHear
<1> QED
  BY <1>1 DEF PsInv, SessionHasNames

\* As long as CUPS answers and the machine stays awake the subscription is kept;
\* a warning that a printer is not connected is withdrawn once the printer has
\* answered (renew_subscription_timeout_cb and process_new_notifications of
\* gsd-print-notifications-manager.c); an object of gsd-printer.c is registered
\* only while its session has the name (on_npn_bus_acquired, on_pdi_bus_acquired,
\* on_name_lost and unregister_objects).
THEOREM PrintersCorrect == SessionSpec => []PrintersAreServed
<1> DEFINE Inv == /\ daemon = "print" => PnInv(st)
                  /\ daemon = "printer" => PsInv(st)
<1>1. SessionInit => Inv
  BY PnInitInv, PsInitInv DEF SessionInit
<1>2. Inv /\ [SessionNext]_vars => Inv'
  <2> SUFFICES ASSUME Inv, [SessionNext]_vars
               PROVE  /\ (daemon = "print")' => PnInv(st')
                      /\ (daemon = "printer")' => PsInv(st')
    OBVIOUS
  <2>1. /\ (daemon = "print")' => daemon = "print" /\ [Pn!PnNext]_st
        /\ (daemon = "printer")' => daemon = "printer" /\ [Ps!PsNext]_st
    BY DEF SessionNext, Of, vars
  <2> QED
    BY <2>1, PnNextInv, PsNextInv
<1>3. Inv => PrintersAreServed
  BY PnInvFollows, PsInvFollows DEF PrintersAreServed
<1> QED
  BY <1>1, <1>2, <1>3, PTL DEF SessionSpec

===============================================================================
