----------------------------- MODULE DaemonProofs -----------------------------
(***************************************************************************)
(* More of the daemons of Session keep what they promise, whatever the       *)
(* constants are: the screen reader and the SIM prompts.  The parts are laid   *)
(* out as those of SessionProofs.                                           *)
(***************************************************************************)
EXTENDS Session, TLAPS

-------------------------------------------------------------------------------
(* Sequences, as all parts use them.                                       *)

\* What is appended comes after what is there.
LEMMA Appended ==
  ASSUME NEW S, NEW seq \in Seq(S), NEW e \in S
  PROVE  /\ Append(seq, e) \in Seq(S) /\ Len(Append(seq, e)) = Len(seq) + 1
         /\ DOMAIN Append(seq, e) = 1 .. Len(seq) + 1 /\ DOMAIN seq = 1 .. Len(seq)
         /\ \A i \in 1 .. Len(seq) + 1 :
              \/ i = Len(seq) + 1 /\ Append(seq, e)[i] = e
              \/ i \in 1 .. Len(seq) /\ Append(seq, e)[i] = seq[i]
  OBVIOUS

\* What is left when the head is gone.
LEMMA Tailed ==
  ASSUME NEW S, NEW seq \in Seq(S), seq # <<>>
  PROVE  /\ Head(seq) \in S /\ Head(seq) = seq[1] /\ 1 \in DOMAIN seq
         /\ Tail(seq) \in Seq(S) /\ Len(Tail(seq)) = Len(seq) - 1
         /\ \A i \in DOMAIN Tail(seq) : i + 1 \in DOMAIN seq /\ Tail(seq)[i] = seq[i + 1]
  OBVIOUS

-------------------------------------------------------------------------------
(***************************************************************************)
(* gsd-a11y-settings: Orca is started without systemd only while it is       *)
(* wanted, however many calls are under way.  A call that has not been        *)
(* cancelled is the newest, it is for what the setting is unless the daemon   *)
(* is still to see a change of it, and once it has been answered no call is   *)
(* left that could bring up the unit.                                       *)
(***************************************************************************)

\* The state is a record of these fields; AyTypeOK says as much.
Readers ==
  [systemd : BOOLEAN, started : BOOLEAN, apps : SUBSET Ay!AyApps, changed : SUBSET Ay!AyApps,
   toolkit : BOOLEAN, calls : Seq(Ay!AyJobs), replies : Seq(Ay!AyJobs), unit : BOOLEAN,
   linked : BOOLEAN, fallback_orca : {"none", "alive", "dead"}]

\* What the setting asks for is what the jobs that count are for.
Agrees(s, jobs) ==
  \A i \in DOMAIN jobs : ~jobs[i].cancelled => (jobs[i].running <=> "reader" \in s.apps)

\* Only the newest call counts, and then no answer does.
NewestCounts(s) ==
  \A i \in DOMAIN s.calls : ~s.calls[i].cancelled =>
    /\ i = Len(s.calls)
    /\ \A j \in DOMAIN s.replies : s.replies[j].cancelled

\* An answer that counts is the last, and has failed to start what is not there.
AnswersAreLast(s) ==
  \A i \in DOMAIN s.replies : ~s.replies[i].cancelled =>
    /\ s.calls = <<>>
    /\ s.replies[i].running /\ ~s.replies[i].ok => ~s.unit

\* The Orca of the daemon is alone.
Alone(s) ==
  s.fallback_orca # "none" =>
    /\ s.calls = <<>> /\ ~s.unit
    /\ "reader" \notin s.changed => "reader" \in s.apps

AyInv(s) ==
  /\ s \in Readers
  /\ ~s.systemd => s.calls = <<>> /\ ~s.unit
  /\ "reader" \notin s.changed => Agrees(s, s.calls) /\ Agrees(s, s.replies)
  /\ NewestCounts(s)
  /\ AnswersAreLast(s)
  /\ Alone(s)

\* Cancelling changes nothing else of a job.
LEMMA CancelledJobs ==
  ASSUME NEW jobs \in Seq(Ay!AyJobs)
  PROVE  /\ Ay!Cancelled(jobs) \in Seq(Ay!AyJobs) /\ Len(Ay!Cancelled(jobs)) = Len(jobs)
         /\ DOMAIN Ay!Cancelled(jobs) = DOMAIN jobs
         /\ \A i \in DOMAIN jobs : Ay!Cancelled(jobs)[i].cancelled
         /\ jobs = <<>> => Ay!Cancelled(jobs) = <<>>
<1>0. \A job \in Ay!AyJobs :
        /\ [job EXCEPT !.cancelled = TRUE] \in Ay!AyJobs
        /\ [job EXCEPT !.cancelled = TRUE].cancelled
  BY DEF Ay!AyJobs
<1>1. \A i \in DOMAIN jobs : jobs[i] \in Ay!AyJobs
  OBVIOUS
<1>2. DOMAIN jobs = 1 .. Len(jobs) /\ Len(jobs) \in Nat
  OBVIOUS
<1>3. Ay!Cancelled(jobs) \in [1 .. Len(jobs) -> Ay!AyJobs]
  BY <1>0, <1>1, <1>2 DEF Ay!Cancelled
<1>4. Ay!Cancelled(jobs) \in Seq(Ay!AyJobs) /\ Len(Ay!Cancelled(jobs)) = Len(jobs)
  BY <1>2, <1>3
<1>5. \A i \in DOMAIN jobs : Ay!Cancelled(jobs)[i].cancelled
  BY <1>0, <1>1 DEF Ay!Cancelled
<1>6. jobs = <<>> => Ay!Cancelled(jobs) = <<>>
  BY <1>4
<1> QED
  BY <1>2, <1>3, <1>4, <1>5, <1>6

\* manage_orca leaves one job that counts, and no Orca of the daemon.
LEMMA ManageOrcaInv ==
  ASSUME NEW s \in Readers, NEW enabled \in BOOLEAN, enabled <=> "reader" \in s.apps,
         ~s.systemd => s.calls = <<>> /\ ~s.unit
  PROVE  AyInv(Ay!ManageOrca(s, enabled))
<1> DEFINE job     == [running |-> enabled, cancelled |-> FALSE, ok |-> FALSE]
           calls   == Ay!Cancelled(s.calls)
           replies == Ay!Cancelled(s.replies)
           killed  == [Ay!KillFallbackOrca(s) EXCEPT !.calls = calls, !.replies = replies]
<1>1. /\ calls \in Seq(Ay!AyJobs) /\ \A i \in DOMAIN calls : calls[i].cancelled
      /\ s.calls = <<>> => calls = <<>>
  BY CancelledJobs DEF Readers
<1>2. replies \in Seq(Ay!AyJobs) /\ \A i \in DOMAIN replies : replies[i].cancelled
  BY CancelledJobs DEF Readers
<1>3. job \in Ay!AyJobs /\ (job.running <=> enabled) /\ ~job.cancelled /\ ~job.ok
  BY DEF Ay!AyJobs
<1>4. Ay!ManageOrca(s, enabled) = IF s.systemd THEN [killed EXCEPT !.calls = Append(calls, job)]
                                  ELSE [killed EXCEPT !.replies = Append(replies, job)]
  BY DEF Ay!ManageOrca, Ay!ManageUnit, Ay!KillFallbackOrca, Readers
<1>5. /\ killed \in Readers /\ killed.calls = calls /\ killed.replies = replies
      /\ killed.apps = s.apps /\ killed.changed = s.changed /\ killed.systemd = s.systemd
      /\ killed.unit = s.unit /\ killed.fallback_orca = "none"
  BY <1>1, <1>2 DEF Ay!KillFallbackOrca, Readers
<1> HIDE DEF job, calls, replies, killed
<1>6. CASE s.systemd
  <2> DEFINE t == Ay!ManageOrca(s, enabled)
  <2>1. /\ t \in Readers /\ t.calls = Append(calls, job) /\ t.replies = replies
        /\ t.apps = s.apps /\ t.systemd /\ t.fallback_orca = "none"
    <3>1. t = [killed EXCEPT !.calls = Append(calls, job)] /\ Append(calls, job) \in Seq(Ay!AyJobs)
      BY <1>1, <1>3, <1>4, <1>6, Appended
    <3> HIDE DEF t
    <3> QED
      BY <3>1, <1>5, <1>6 DEF Readers
  <2>2. \A i \in DOMAIN t.calls : \/ i = Len(t.calls) /\ t.calls[i] = job
                                  \/ i \in DOMAIN calls /\ t.calls[i] = calls[i]
    BY <1>1, <1>3, <2>1, Appended
  <2> HIDE DEF t
  <2>3. Agrees(t, t.calls) /\ Agrees(t, t.replies)
    BY <1>1, <1>2, <1>3, <2>1, <2>2 DEF Agrees
  <2>4. NewestCounts(t) /\ AnswersAreLast(t) /\ Alone(t)
    BY <1>1, <1>2, <2>1, <2>2 DEF NewestCounts, AnswersAreLast, Alone
  <2> QED
    BY <2>1, <2>3, <2>4 DEF AyInv, t
<1>7. CASE ~s.systemd
  <2> DEFINE t == Ay!ManageOrca(s, enabled)
  <2>1. /\ t \in Readers /\ t.replies = Append(replies, job) /\ t.calls = calls /\ t.unit = s.unit
        /\ t.apps = s.apps /\ ~t.systemd /\ t.fallback_orca = "none"
    <3>1. t = [killed EXCEPT !.replies = Append(replies, job)] /\ Append(replies, job) \in Seq(Ay!AyJobs)
      BY <1>2, <1>3, <1>4, <1>7, Appended
    <3> HIDE DEF t
    <3> QED
      BY <3>1, <1>5, <1>7 DEF Readers
  <2>2. \A i \in DOMAIN t.replies : \/ t.replies[i] = job
                                    \/ i \in DOMAIN replies /\ t.replies[i] = replies[i]
    BY <1>2, <1>3, <2>1, Appended
  <2>3. t.calls = <<>> /\ ~t.unit
    BY <1>1, <1>7, <2>1
  <2> HIDE DEF t
  <2>4. Agrees(t, t.calls) /\ Agrees(t, t.replies)
    BY <1>1, <1>2, <1>3, <2>1, <2>2 DEF Agrees
  <2>5. NewestCounts(t) /\ AnswersAreLast(t) /\ Alone(t)
    BY <2>1, <2>3 DEF NewestCounts, AnswersAreLast, Alone
  <2> QED
    BY <2>1, <2>3, <2>4, <2>5 DEF AyInv, t
<1> QED
  BY <1>6, <1>7 DEF Readers

\* What a step keeps that makes no new call: jobs may be cancelled or dropped,
\* and the unit and the Orca of the daemon may go.
LEMMA LessInv ==
  ASSUME NEW s, AyInv(s), NEW t \in Readers,
         t.systemd = s.systemd, t.unit => s.unit,
         t.calls = s.calls \/ t.calls = Ay!Cancelled(s.calls),
         t.replies = s.replies \/ t.replies = <<>>,
         "reader" \notin t.changed =>
           \/ "reader" \notin s.changed /\ ("reader" \in t.apps <=> "reader" \in s.apps)
           \/ t.replies = <<>> /\ t.calls = Ay!Cancelled(s.calls) /\ t.fallback_orca = "none",
         t.fallback_orca # "none" => s.fallback_orca # "none"
  PROVE  AyInv(t)
<1>1. s \in Readers /\ s.calls \in Seq(Ay!AyJobs)
  BY DEF AyInv, Readers
<1>2. /\ DOMAIN t.calls = DOMAIN s.calls /\ Len(t.calls) = Len(s.calls)
      /\ \A i \in DOMAIN t.calls : ~t.calls[i].cancelled => t.calls[i] = s.calls[i]
      /\ s.calls = <<>> => t.calls = <<>>
  BY <1>1, CancelledJobs
<1>3. \A i \in DOMAIN t.replies : i \in DOMAIN s.replies /\ t.replies[i] = s.replies[i]
  OBVIOUS
<1>4. "reader" \notin t.changed => Agrees(t, t.calls) /\ Agrees(t, t.replies)
  BY <1>1, <1>2, <1>3, CancelledJobs DEF AyInv, Agrees
<1>5. NewestCounts(t)
  BY <1>2, <1>3 DEF AyInv, NewestCounts
<1>6. AnswersAreLast(t)
  BY <1>2, <1>3 DEF AyInv, AnswersAreLast
<1>7. Alone(t)
  BY <1>2 DEF AyInv, Alone
<1> QED
  BY <1>2, <1>4, <1>5, <1>6, <1>7 DEF AyInv

\* SystemdRuns keeps the invariant: the call that is answered was the only one
\* that counts, or did not count.
LEMMA SystemdRunsInv == ASSUME AyInv(st), Ay!SystemdRuns PROVE AyInv(st')
<1>0. /\ st \in Readers /\ st.systemd /\ st.fallback_orca = "none"
      /\ st.calls \in Seq(Ay!AyJobs) /\ st.calls # <<>>
  BY DEF AyInv, Alone, Ay!SystemdRuns, Readers
<1>1. PICK ok \in BOOLEAN, linked \in BOOLEAN :
        st' = LET job == Head(st.calls)
                  s   == [st EXCEPT !.calls = Tail(@), !.replies = Append(@, [job EXCEPT !.ok = ok]),
                                    !.linked = IF linked THEN job.running ELSE @]
              IN IF ok THEN [s EXCEPT !.unit = job.running]
                 ELSE [s EXCEPT !.unit = @ /\ ~job.running]
  BY DEF Ay!SystemdRuns
<1> DEFINE job    == Head(st.calls)
           answer == [job EXCEPT !.ok = ok]
<1>2. job \in Ay!AyJobs /\ job = st.calls[1] /\ 1 \in DOMAIN st.calls
  BY <1>0, Tailed
<1>3. /\ answer \in Ay!AyJobs /\ (answer.cancelled <=> job.cancelled)
      /\ (answer.running <=> job.running) /\ (answer.ok <=> ok)
  BY <1>2 DEF Ay!AyJobs
<1>4. /\ Tail(st.calls) \in Seq(Ay!AyJobs) /\ Len(Tail(st.calls)) = Len(st.calls) - 1
      /\ \A i \in DOMAIN Tail(st.calls) : i + 1 \in DOMAIN st.calls /\ Tail(st.calls)[i] = st.calls[i + 1]
  BY <1>0, Tailed
<1>5. Append(st.replies, answer) \in Seq(Ay!AyJobs)
  BY <1>0, <1>3, Appended DEF Readers
<1>6. PICK unit \in BOOLEAN, link \in BOOLEAN :
        /\ st' = [st EXCEPT !.calls = Tail(st.calls), !.replies = Append(st.replies, answer),
                            !.linked = link, !.unit = unit]
        /\ ~ok /\ job.running => ~unit
  BY <1>0, <1>1, <1>2, <1>4, <1>5 DEF Readers, Ay!AyJobs
<1>7. /\ st' \in Readers /\ st'.calls = Tail(st.calls) /\ st'.replies = Append(st.replies, answer)
      /\ st'.apps = st.apps /\ st'.changed = st.changed /\ st'.systemd
      /\ st'.fallback_orca = "none" /\ (~ok /\ job.running => ~st'.unit)
  BY <1>0, <1>4, <1>5, <1>6 DEF Readers
<1>8. \A i \in DOMAIN st'.replies : \/ st'.replies[i] = answer
                                    \/ i \in DOMAIN st.replies /\ st'.replies[i] = st.replies[i]
  BY <1>0, <1>3, <1>7, Appended DEF Readers
<1> HIDE DEF job, answer
\* No answer counted, because there was a call.
<1>9. \A i \in DOMAIN st.replies : st.replies[i].cancelled
  BY <1>0 DEF AyInv, AnswersAreLast
\* If the call counts it was the newest.
<1>10. ~job.cancelled => Len(st.calls) = 1 /\ Tail(st.calls) = <<>>
  <2>1. ~job.cancelled => Len(st.calls) = 1
    BY <1>0, <1>2 DEF AyInv, NewestCounts
  <2>2. Len(Tail(st.calls)) = 0 => Tail(st.calls) = <<>>
    BY <1>4
  <2> QED
    BY <1>4, <2>1, <2>2
<1>11. "reader" \notin st'.changed => Agrees(st', st'.calls) /\ Agrees(st', st'.replies)
  BY <1>2, <1>3, <1>4, <1>7, <1>8, <1>9 DEF AyInv, Agrees
<1>12. NewestCounts(st')
  <2>1. SUFFICES ASSUME NEW i \in DOMAIN st'.calls, ~st'.calls[i].cancelled
                 PROVE  i = Len(st'.calls) /\ job.cancelled
    BY <1>3, <1>8, <1>9 DEF NewestCounts
  <2>2. i + 1 \in DOMAIN st.calls /\ ~st.calls[i + 1].cancelled /\ i \in 1 .. Len(st.calls) - 1
    BY <1>4, <1>7, <2>1
  <2>3. i + 1 = Len(st.calls)
    BY <2>2 DEF AyInv, NewestCounts
  <2> QED
    BY <1>0, <1>4, <1>7, <1>10, <2>2, <2>3 DEF Readers
<1>13. AnswersAreLast(st')
  BY <1>3, <1>7, <1>8, <1>9, <1>10 DEF AnswersAreLast
<1> QED
  BY <1>7, <1>11, <1>12, <1>13 DEF AyInv, Alone

\* unit_start_stop_cb starts Orca for an answer that counts, or does nothing.
LEMMA StartStopOps ==
  ASSUME NEW s, NEW job \in Ay!AyJobs, NEW t \in Ay!UnitStartStop(s, job)
  PROVE  \/ t = s
         \/ job.running /\ ~job.ok /\ ~job.cancelled /\ t = [s EXCEPT !.fallback_orca = "alive"]
<1> DEFINE fails == job.running /\ ~job.ok /\ ~job.cancelled
<1>1. CASE fails
  BY <1>1 DEF Ay!UnitStartStop, Ay!AyJobs
<1>2. CASE ~fails
  BY <1>2 DEF Ay!UnitStartStop, Ay!AyJobs
<1> QED
  BY <1>1, <1>2

\* UnitAnswered keeps the invariant: only an answer that counts starts Orca.
LEMMA UnitAnsweredInv == ASSUME AyInv(st), Ay!UnitAnswered PROVE AyInv(st')
<1>0. st \in Readers /\ st.replies # <<>>
  BY DEF AyInv, Ay!UnitAnswered
<1> DEFINE job  == Head(st.replies)
           rest == [st EXCEPT !.replies = Tail(@)]
<1>1. /\ job \in Ay!AyJobs /\ job = st.replies[1] /\ 1 \in DOMAIN st.replies /\ Tail(st.replies) \in Seq(Ay!AyJobs)
      /\ \A i \in DOMAIN Tail(st.replies) :
           i + 1 \in DOMAIN st.replies /\ Tail(st.replies)[i] = st.replies[i + 1]
  BY <1>0, Tailed DEF Readers
<1>2. /\ rest \in Readers /\ rest.replies = Tail(st.replies) /\ rest.calls = st.calls
      /\ rest.apps = st.apps /\ rest.changed = st.changed /\ rest.systemd = st.systemd
      /\ rest.unit = st.unit /\ rest.fallback_orca = st.fallback_orca
  BY <1>0, <1>1 DEF Readers
<1>3. \/ st' = rest
      \/ job.running /\ ~job.ok /\ ~job.cancelled /\ st' = [rest EXCEPT !.fallback_orca = "alive"]
  <2>1. st' \in Ay!UnitStartStop(rest, job)
    BY DEF Ay!UnitAnswered
  <2> HIDE DEF rest, job
  <2> QED
    BY <1>1, <2>1, StartStopOps
<1> HIDE DEF rest, job
<1>4. /\ st' \in Readers /\ st'.replies = Tail(st.replies) /\ st'.calls = st.calls
      /\ st'.apps = st.apps /\ st'.changed = st.changed /\ st'.systemd = st.systemd
      /\ st'.unit = st.unit
      /\ \/ st'.fallback_orca = st.fallback_orca
         \/ job.running /\ ~job.ok /\ ~job.cancelled
  BY <1>2, <1>3 DEF Readers
<1>5. "reader" \notin st'.changed => Agrees(st', st'.calls) /\ Agrees(st', st'.replies)
  BY <1>1, <1>4 DEF AyInv, Agrees
<1>6. NewestCounts(st') /\ AnswersAreLast(st')
  BY <1>1, <1>4 DEF AyInv, NewestCounts, AnswersAreLast
<1>7. Alone(st')
  BY <1>1, <1>4 DEF AyInv, Alone, AnswersAreLast, Agrees
<1> QED
  BY <1>4, <1>5, <1>6, <1>7 DEF AyInv

\* Every step keeps the invariant.
LEMMA AyNextInv == ASSUME AyInv(st), [Ay!AyNext]_st PROVE AyInv(st')
<1>0. st \in Readers /\ st.calls \in Seq(Ay!AyJobs)
  BY DEF AyInv, Readers
<1>1. CASE Ay!AyStartup
  <2> DEFINE enabled == "reader" \in st.apps
             t       == Ay!ManageOrca(st, enabled)
             toolkit == t.toolkit \/ st.apps # {}
  <2>1. AyInv(t)
    <3>1. enabled \in BOOLEAN /\ (enabled <=> "reader" \in st.apps)
      OBVIOUS
    <3>2. ~st.systemd => st.calls = <<>> /\ ~st.unit
      BY DEF AyInv
    <3> HIDE DEF enabled
    <3> QED
      BY <1>0, <3>1, <3>2, ManageOrcaInv
  <2>2. st' = [t EXCEPT !.started = TRUE, !.toolkit = toolkit] /\ toolkit \in BOOLEAN
    BY <1>1 DEF Ay!AyStartup
  <2> HIDE DEF t, enabled, toolkit
  <2>3. /\ st' \in Readers /\ st'.calls = t.calls /\ st'.replies = t.replies /\ st'.apps = t.apps
        /\ st'.changed = t.changed /\ st'.systemd = t.systemd /\ st'.unit = t.unit
        /\ st'.fallback_orca = t.fallback_orca
    BY <2>1, <2>2 DEF AyInv, Readers
  <2> QED
    BY <2>1, <2>3 DEF AyInv, Agrees, NewestCounts, AnswersAreLast, Alone
<1>2. ASSUME NEW key \in Ay!AyApps, Ay!AppsSettingsChanged(key) PROVE AyInv(st')
  <2> DEFINE toolkit == st.apps # {}
             s       == [st EXCEPT !.changed = @ \ {key}, !.toolkit = toolkit]
  <2>1. /\ s \in Readers /\ s.calls = st.calls /\ s.replies = st.replies /\ s.apps = st.apps
        /\ s.changed = st.changed \ {key} /\ s.systemd = st.systemd /\ s.unit = st.unit
        /\ s.fallback_orca = st.fallback_orca
    BY <1>0 DEF Readers
  <2>2. st' = IF key = "reader" THEN Ay!ManageOrca(s, "reader" \in s.apps) ELSE s
    BY <1>2 DEF Ay!AppsSettingsChanged
  <2> HIDE DEF s
  <2>3. CASE key = "reader"
    <3>1. st' = Ay!ManageOrca(s, "reader" \in s.apps)
      BY <2>2, <2>3
    <3>2. ("reader" \in s.apps) \in BOOLEAN /\ (~s.systemd => s.calls = <<>> /\ ~s.unit)
      BY <2>1 DEF AyInv
    <3> QED
      BY <2>1, <3>1, <3>2, ManageOrcaInv
  <2>4. CASE key # "reader"
    BY <2>1, <2>2, <2>4, LessInv
  <2> QED
    BY <2>3, <2>4
<1>3. ASSUME NEW key \in Ay!AyApps, Ay!AppToggled(key) PROVE AyInv(st')
  <2> DEFINE apps == IF key \in st.apps THEN st.apps \ {key} ELSE st.apps \cup {key}
  <2>1. st' = [st EXCEPT !.apps = apps, !.changed = st.changed \cup {key}] /\ apps \subseteq Ay!AyApps
    BY <1>0, <1>3 DEF Ay!AppToggled, Readers
  <2>2. key # "reader" => ("reader" \in apps <=> "reader" \in st.apps)
    OBVIOUS
  <2> HIDE DEF apps
  <2>3. /\ st' \in Readers /\ st'.calls = st.calls /\ st'.replies = st.replies /\ st'.apps = apps
        /\ st'.changed = st.changed \cup {key} /\ st'.systemd = st.systemd /\ st'.unit = st.unit
        /\ st'.fallback_orca = st.fallback_orca
    BY <1>0, <2>1 DEF Readers
  <2> QED
    BY <2>2, <2>3, LessInv
<1>4. CASE Ay!OrcaExits
  <2>1. /\ st' \in Readers /\ st'.calls = st.calls /\ st'.replies = st.replies /\ st'.apps = st.apps
        /\ st'.changed = st.changed /\ st'.systemd = st.systemd /\ (st'.unit => st.unit)
        /\ st'.fallback_orca # "none" => st.fallback_orca # "none"
    BY <1>0, <1>4 DEF Ay!OrcaExits, Readers
  <2> QED
    BY <2>1, LessInv
<1>5. CASE Ay!AyShutdown
  <2> DEFINE killed == Ay!KillFallbackOrca(st)
  <2>0. /\ killed \in Readers /\ killed.calls = st.calls /\ killed.apps = st.apps
        /\ killed.systemd = st.systemd /\ killed.unit = st.unit /\ killed.fallback_orca = "none"
    BY <1>0 DEF Ay!KillFallbackOrca, Readers
  <2>1. st' = [killed EXCEPT !.started = FALSE, !.changed = {},
                             !.replies = <<>>, !.calls = Ay!Cancelled(@)]
    BY <1>5 DEF Ay!AyShutdown
  <2> HIDE DEF killed
  <2>2. /\ st' \in Readers /\ st'.calls = Ay!Cancelled(st.calls) /\ st'.replies = <<>>
        /\ st'.apps = st.apps /\ st'.changed = {} /\ st'.systemd = st.systemd
        /\ st'.unit = st.unit /\ st'.fallback_orca = "none"
    <3>1. Ay!Cancelled(st.calls) \in Seq(Ay!AyJobs) /\ <<>> \in Seq(Ay!AyJobs)
      BY <1>0, CancelledJobs
    <3>2. st' = [killed EXCEPT !.started = FALSE, !.changed = {}, !.replies = <<>>,
                               !.calls = Ay!Cancelled(st.calls)]
      BY <2>0, <2>1
    <3> QED
      BY <2>0, <3>1, <3>2 DEF Readers
  <2> QED
    BY <2>2, LessInv
<1>6. CASE UNCHANGED st
  BY <1>6
<1> QED
  BY <1>1, <1>2, <1>3, <1>4, <1>5, <1>6, SystemdRunsInv, UnitAnsweredInv DEF Ay!AyNext

\* Once the daemon has seen the setting, the Orca of its own runs only while the
\* screen reader is wanted, and never beside the one of systemd
\* (gsd-a11y-settings-manager.c: manage_orca, unit_start_stop_cb).
THEOREM FallbackCorrect == SessionSpec => []FallbackOnlyWhenWanted
<1> DEFINE Inv == daemon = "a11y" => AyInv(st)
<1>1. SessionInit => Inv
  <2> SUFFICES ASSUME Ay!AyInit PROVE AyInv(st)
    BY DEF SessionInit
  <2>1. PICK systemd \in BOOLEAN, apps \in SUBSET Ay!AyApps, toolkit \in BOOLEAN, linked \in BOOLEAN,
             unit \in BOOLEAN :
          /\ st = [systemd |-> systemd, started |-> FALSE, apps |-> apps, changed |-> {},
                   toolkit |-> toolkit, calls |-> <<>>, replies |-> <<>>, unit |-> unit,
                   linked |-> linked, fallback_orca |-> "none"]
          /\ unit => systemd
    BY SessionAssumption DEF Ay!AyInit
  <2>2. st \in Readers /\ st.calls = <<>> /\ st.replies = <<>> /\ st.fallback_orca = "none"
        /\ (st.unit => st.systemd)
    BY <2>1 DEF Readers
  <2> QED
    BY <2>1, <2>2 DEF AyInv, Agrees, NewestCounts, AnswersAreLast, Alone
<1>2. Inv /\ [SessionNext]_vars => Inv'
  <2> SUFFICES ASSUME Inv, [SessionNext]_vars, (daemon = "a11y")' PROVE AyInv(st')
    OBVIOUS
  <2>1. daemon = "a11y" /\ [Ay!AyNext]_st
    BY DEF SessionNext, Of, vars
  <2> QED
    BY <2>1, AyNextInv
<1>3. Inv => FallbackOnlyWhenWanted
  BY DEF AyInv, Alone, Ay!FallbackOnlyWhenWanted, FallbackOnlyWhenWanted
<1> QED
  BY <1>1, <1>2, <1>3, PTL DEF SessionSpec

-------------------------------------------------------------------------------
(***************************************************************************)
(* gsd-wwan: the user is asked for one SIM at a time, however many modems     *)
(* come, go and get locked while the prompt runs its main loop, and every     *)
(* modem waits in one of the two lists.  One task is under way at most, but   *)
(* for what is left behind when ModemManager leaves; what waits to be unlocked *)
(* has a lock, which keeps a task from failing before the prompt is there;    *)
(* and a main loop is always that of a task that asks.                        *)
(***************************************************************************)

Tasks == [stage : Ww!UnlockStages, device : Modems \cup {Ww!NoModem}, lock : Ww!Locks,
          cancelled : BOOLEAN]

\* The state is a record of these fields; WwTypeOK says as much.
Unlockers ==
  [may : WwWorlds, unlock : BOOLEAN, mm1_running : BOOLEAN,
   lock : [Modems -> Ww!Locks], present : SUBSET Modems, gone : SUBSET Modems,
   devices : SUBSET Modems, devices_to_unlock : Seq(Modems), prompt : BOOLEAN,
   unlocking_device : Modems \cup {Ww!NoModem}, cancellable : 0 .. MaxUnlocks,
   prompt_timeout_id : 0 .. MaxUnlocks, puk_code : BOOLEAN,
   tasks : [Ww!UnlockIds -> Tasks], loops : Seq(Ww!UnlockIds), sent : 0 .. MaxCodes,
   forgotten : BOOLEAN]

Waits(s)     == Ww!ToSet(s.devices_to_unlock)
Active(s, i) == s.tasks[i].stage \notin {"new", "over"}
Asking(s, i) == s.tasks[i].stage \in {"asking", "asking_new"}

\* Every modem that is there is in one of the two lists, and once; what waits
\* has a lock, but for those of but.
Listed(s, but) ==
  /\ s \in Unlockers
  /\ Waits(s) \cap s.devices = {} /\ Ww!IsInjective(s.devices_to_unlock)
  /\ Waits(s) \cup s.devices = s.present
  /\ \A d \in Waits(s) \ but : Ww!Locked(s, d)

\* A main loop is that of a task that asks, and such a task has one; LoopsBut
\* leaves open what i, which has none, does.
LoopsAsk(s) ==
  /\ Ww!IsInjective(s.loops)
  /\ \A i \in Ww!UnlockIds : Asking(s, i) <=> i \in Ww!ToSet(s.loops)

LoopsBut(s, i) ==
  /\ Ww!IsInjective(s.loops) /\ i \notin Ww!ToSet(s.loops)
  /\ \A j \in Ww!UnlockIds : j # i => (Asking(s, j) <=> j \in Ww!ToSet(s.loops))

\* One task at most is under way, and it is for the modem that is being unlocked.
OneTask(s) ==
  /\ \A i, j \in Ww!UnlockIds : Active(s, i) /\ Active(s, j) => i = j
  /\ \A i \in Ww!UnlockIds : Active(s, i) =>
       s.tasks[i].device \in Modems /\ s.tasks[i].device = s.unlocking_device

Calm(s) == "no_prompt" \notin s.may /\ ~s.forgotten

WwBut(s, but) == Listed(s, but) /\ LoopsAsk(s) /\ (Calm(s) => OneTask(s))

WwInv(s) == WwBut(s, {})

-------------------------------------------------------------------------------
(* The lists.                                                              *)

\* What is left of a sequence without its k-th element.
LEMMA RemovedAt ==
  ASSUME NEW S, NEW seq \in Seq(S), NEW k \in 1 .. Len(seq)
  PROVE  /\ Ww!RemoveAt(seq, k) \in Seq(S) /\ Len(Ww!RemoveAt(seq, k)) = Len(seq) - 1
         /\ \A i \in 1 .. Len(seq) - 1 : Ww!RemoveAt(seq, k)[i] = IF i < k THEN seq[i] ELSE seq[i + 1]
<1> DEFINE a == SubSeq(seq, 1, k - 1)
           b == SubSeq(seq, k + 1, Len(seq))
<1>1. /\ a \in Seq(S) /\ Len(a) = k - 1 
      /\ \A i \in 1 .. k - 1 : a[i] = seq[i]
  OBVIOUS
<1>2. /\ b \in Seq(S) /\ Len(b) = Len(seq) - k
      /\ \A i \in 1 .. Len(seq) - k : b[i] = seq[k + i]
  OBVIOUS
<1>3. Ww!RemoveAt(seq, k) = a \o b
  BY DEF Ww!RemoveAt
<1> HIDE DEF a, b
<1>4. a \o b \in Seq(S) /\ Len(a \o b) = Len(a) + Len(b)
  <2>1. a \in Seq(S) /\ b \in Seq(S)
    BY <1>1, <1>2
  <2> QED
    BY <2>1
<1>5. ASSUME NEW i \in 1 .. Len(seq) - 1
      PROVE  (a \o b)[i] = IF i < k THEN seq[i] ELSE seq[i + 1]
  <2>1. CASE i < k
    <3>1. i \in 1 .. Len(a) /\ (a \o b)[i] = a[i]
      BY <1>1, <1>2, <2>1
    <3> QED
      BY <1>1, <2>1, <3>1
  <2>2. CASE ~(i < k)
    <3>1. i - Len(a) \in 1 .. Len(b) /\ (a \o b)[i] = b[i - Len(a)]
      BY <1>1, <1>2, <2>2
    <3>2. k + (i - Len(a)) = i + 1
      BY <1>1, <2>2
    <3>3. i - Len(a) \in 1 .. Len(seq) - k
      BY <1>1, <1>2, <3>1
    <3>4. b[i - Len(a)] = seq[k + (i - Len(a))]
      BY <1>2, <3>3
    <3> QED
      BY <2>2, <3>1, <3>2, <3>4
  <2> QED
    BY <2>1, <2>2
<1>6. a \o b \in Seq(S) /\ Len(a \o b) = Len(seq) - 1
  BY <1>1, <1>2, <1>4
<1> QED
  BY <1>3, <1>5, <1>6

\* g_ptr_array_remove: the element is gone if it was there once.
LEMMA WithoutIt ==
  ASSUME NEW S, NEW seq \in Seq(S), NEW e
  PROVE  /\ Ww!Without(seq, e) \in Seq(S)
         /\ Ww!ToSet(Ww!Without(seq, e)) \subseteq Ww!ToSet(seq)
         /\ Ww!IsInjective(seq) =>
              /\ Ww!IsInjective(Ww!Without(seq, e))
              /\ Ww!ToSet(Ww!Without(seq, e)) = Ww!ToSet(seq) \ {e}
<1>0. Len(seq) \in Nat /\ DOMAIN seq = 1 .. Len(seq)
  OBVIOUS
<1>1. CASE e \in Ww!ToSet(seq)
  <2>1. PICK k \in 1 .. Len(seq) : seq[k] = e /\ Ww!Without(seq, e) = Ww!RemoveAt(seq, k)
    BY <1>0, <1>1 DEF Ww!Without, Ww!ToSet
  <2> DEFINE r == Ww!RemoveAt(seq, k)
  <2>2. /\ r \in Seq(S) /\ DOMAIN r = 1 .. Len(seq) - 1
        /\ \A i \in 1 .. Len(seq) - 1 : r[i] = IF i < k THEN seq[i] ELSE seq[i + 1]
    <3>1. /\ r \in Seq(S) /\ Len(r) = Len(seq) - 1
          /\ \A i \in 1 .. Len(seq) - 1 : r[i] = IF i < k THEN seq[i] ELSE seq[i + 1]
      BY RemovedAt
    <3> HIDE DEF r
    <3> QED
      BY <3>1
  <2> HIDE DEF r
  <2> DEFINE at(i) == IF i < k THEN i ELSE i + 1
  <2>31. \A i \in DOMAIN r : at(i) \in DOMAIN seq /\ at(i) # k
    BY <1>0, <2>2
  <2>32. \A i \in DOMAIN r : r[i] = seq[at(i)]
    BY <2>2
  <2>33. \A i, j \in DOMAIN r : at(i) = at(j) => i = j
    BY <1>0, <2>2
  <2> HIDE DEF at
  <2>3. \A i \in DOMAIN r : \E j \in DOMAIN seq : j # k /\ r[i] = seq[j]
    BY <2>31, <2>32
  <2>4. Ww!ToSet(r) \subseteq Ww!ToSet(seq)
    BY <2>3 DEF Ww!ToSet
  <2>5. ASSUME Ww!IsInjective(seq) PROVE Ww!IsInjective(r) /\ Ww!ToSet(r) = Ww!ToSet(seq) \ {e}
    <3>1. e \notin Ww!ToSet(r)
      BY <1>0, <2>1, <2>3, <2>5 DEF Ww!ToSet, Ww!IsInjective
    <3>2. Ww!IsInjective(r)
      BY <2>31, <2>32, <2>33, <2>5 DEF Ww!IsInjective
    <3>3. ASSUME NEW j \in DOMAIN seq, seq[j] # e PROVE \E i \in DOMAIN r : r[i] = seq[j]
      <4>1. CASE j < k
        BY <1>0, <2>2, <4>1
      <4>2. CASE j > k
        <5>1. j - 1 \in DOMAIN r /\ r[j - 1] = seq[j]
          BY <1>0, <2>2, <4>2
        <5> QED
          BY <5>1
      <4> QED
        BY <1>0, <2>1, <3>3, <4>1, <4>2
    <3> QED
      BY <2>4, <3>1, <3>2, <3>3 DEF Ww!ToSet
  <2> QED
    BY <2>1, <2>2, <2>4, <2>5 DEF r
<1>2. CASE e \notin Ww!ToSet(seq)
  BY <1>2 DEF Ww!Without
<1> QED
  BY <1>1, <1>2

\* A modem that is appended was in neither list.
LEMMA AppendIt ==
  ASSUME NEW S, NEW seq \in Seq(S), NEW e \in S
  PROVE  /\ Append(seq, e) \in Seq(S) /\ Ww!ToSet(Append(seq, e)) = Ww!ToSet(seq) \cup {e}
         /\ Ww!IsInjective(seq) /\ e \notin Ww!ToSet(seq) => Ww!IsInjective(Append(seq, e))
<1>1. /\ Append(seq, e) \in Seq(S) /\ Len(Append(seq, e)) = Len(seq) + 1 /\ Len(seq) \in Nat
      /\ DOMAIN Append(seq, e) = 1 .. Len(seq) + 1 /\ DOMAIN seq = 1 .. Len(seq)
      /\ \A i \in 1 .. Len(seq) : Append(seq, e)[i] = seq[i]
      /\ Append(seq, e)[Len(seq) + 1] = e
  OBVIOUS
<1> DEFINE r == Append(seq, e)
<1> HIDE DEF r
<1>2. \A i \in DOMAIN r : (i \in DOMAIN seq /\ r[i] = seq[i]) \/ (i = Len(seq) + 1 /\ r[i] = e)
  BY <1>1 DEF r
<1>3. \A i \in DOMAIN seq : i \in DOMAIN r /\ r[i] = seq[i]
  BY <1>1 DEF r
<1>4. Len(seq) + 1 \in DOMAIN r /\ r[Len(seq) + 1] = e
  BY <1>1 DEF r
<1>5. Ww!ToSet(r) = Ww!ToSet(seq) \cup {e}
  BY <1>2, <1>3, <1>4 DEF Ww!ToSet
<1>6. Ww!IsInjective(seq) /\ e \notin Ww!ToSet(seq) => Ww!IsInjective(r)
  BY <1>2 DEF Ww!ToSet, Ww!IsInjective
<1> QED
  BY <1>1, <1>5, <1>6 DEF r


-------------------------------------------------------------------------------
(* The helpers.                                                            *)

\* What the tasks' own steps leave alone.
SameLists(s, t) ==
  /\ t.may = s.may /\ t.unlock = s.unlock /\ t.mm1_running = s.mm1_running /\ t.lock = s.lock
  /\ t.present = s.present /\ t.gone = s.gone /\ t.forgotten = s.forgotten
  /\ t.devices = s.devices /\ t.devices_to_unlock = s.devices_to_unlock

\* The lists stay when a step leaves them alone.
LEMMA SameListed ==
  ASSUME NEW s, NEW but, Listed(s, but), NEW t \in Unlockers, SameLists(s, t)
  PROVE  Listed(t, but)
BY DEF Listed, SameLists, Waits, Ww!Locked

\* The loops stay when no stage changes.
LEMMA SameLoops ==
  ASSUME NEW s, NEW t, t.loops = s.loops,
         \A i \in Ww!UnlockIds : Asking(t, i) <=> Asking(s, i)
  PROVE  LoopsAsk(s) => LoopsAsk(t)
BY DEF LoopsAsk

\* A task that does not ask has no loop.
LEMMA NoLoop ==
  ASSUME NEW s, LoopsAsk(s), NEW i \in Ww!UnlockIds, ~Asking(s, i)
  PROVE  LoopsBut(s, i)
BY DEF LoopsAsk, LoopsBut

\* What a step of a task that has no loop keeps: it asks in a loop of its own, or
\* there is none.
LEMMA MovedInv ==
  ASSUME NEW s, Listed(s, {}), NEW i \in Ww!UnlockIds, LoopsBut(s, i), s.loops \in Seq(Ww!UnlockIds),
         NEW t \in Unlockers, SameLists(s, t),
         \A j \in Ww!UnlockIds : j # i => t.tasks[j] = s.tasks[j],
         \/ t.loops = s.loops /\ ~Asking(t, i)
         \/ t.loops = Append(s.loops, i) /\ Asking(t, i),
         Calm(s) => OneTask(t)
  PROVE  WwInv(t)
<1>1. Listed(t, {}) /\ (Calm(t) => OneTask(t))
  BY SameListed DEF SameLists, Calm
<1>2. \A j \in Ww!UnlockIds : j # i => (Asking(t, j) <=> j \in Ww!ToSet(s.loops))
  BY DEF LoopsBut, Asking
<1>3. CASE t.loops = s.loops /\ ~Asking(t, i)
  BY <1>1, <1>2, <1>3 DEF WwInv, WwBut, LoopsBut, LoopsAsk
<1>4. CASE t.loops = Append(s.loops, i) /\ Asking(t, i)
  <2> DEFINE loops == Append(s.loops, i)
  <2>1. Ww!ToSet(loops) = Ww!ToSet(s.loops) \cup {i} /\ Ww!IsInjective(loops)
    BY AppendIt DEF LoopsBut
  <2> HIDE DEF loops
  <2>2. t.loops = loops
    BY <1>4 DEF loops
  <2> QED
    BY <1>1, <1>2, <1>4, <2>1, <2>2 DEF WwInv, WwBut, LoopsAsk
<1> QED
  BY <1>3, <1>4

\* The task under way stays the one.
LEMMA StillOne ==
  ASSUME NEW s, NEW t, NEW i \in Ww!UnlockIds, OneTask(s), Active(s, i),
         \A j \in Ww!UnlockIds : j # i => t.tasks[j] = s.tasks[j],
         t.tasks[i].device = s.tasks[i].device, t.unlocking_device = s.unlocking_device
  PROVE  OneTask(t)
<1>1. \A j \in Ww!UnlockIds : j # i => ~Active(t, j)
  BY DEF OneTask, Active
<1> QED
  BY <1>1 DEF OneTask

\* A task is moved on.
LEMMA StageOps ==
  ASSUME NEW s \in Unlockers, NEW i \in Ww!UnlockIds, NEW stage \in Ww!UnlockStages
  PROVE  LET t == Ww!Stage(s, i, stage)
         IN /\ t \in Unlockers /\ SameLists(s, t)
            /\ t.prompt = s.prompt /\ t.unlocking_device = s.unlocking_device
            /\ t.cancellable = s.cancellable /\ t.prompt_timeout_id = s.prompt_timeout_id
            /\ t.puk_code = s.puk_code /\ t.loops = s.loops /\ t.sent = s.sent
            /\ t.tasks[i].stage = stage /\ t.tasks[i].device = s.tasks[i].device
            /\ \A j \in Ww!UnlockIds : j # i => t.tasks[j] = s.tasks[j]
<1> DEFINE tasks == [s.tasks EXCEPT ![i].stage = stage]
<1>1. s.tasks[i] \in Tasks /\ [s.tasks[i] EXCEPT !.stage = stage] \in Tasks
  BY DEF Unlockers, Tasks
<1>2. /\ tasks \in [Ww!UnlockIds -> Tasks] /\ tasks[i] = [s.tasks[i] EXCEPT !.stage = stage]
      /\ \A j \in Ww!UnlockIds : j # i => tasks[j] = s.tasks[j]
  BY <1>1 DEF Unlockers
<1>3. Ww!Stage(s, i, stage) = [s EXCEPT !.tasks = tasks]
  BY DEF Ww!Stage, Unlockers
<1>4. tasks[i].stage = stage /\ tasks[i].device = s.tasks[i].device
  BY <1>1, <1>2 DEF Tasks
<1> HIDE DEF tasks
<1> QED
  BY <1>2, <1>3, <1>4 DEF Unlockers, SameLists

\* A task is cancelled.
LEMMA CancelOps ==
  ASSUME NEW s \in Unlockers
  PROVE  LET t == Ww!Cancel(s)
         IN /\ t \in Unlockers /\ SameLists(s, t)
            /\ t.unlocking_device = s.unlocking_device /\ t.loops = s.loops
            /\ \A i \in Ww!UnlockIds : /\ t.tasks[i].stage = s.tasks[i].stage
                                       /\ t.tasks[i].device = s.tasks[i].device
<1>1. CASE s.cancellable = 0
  BY <1>1 DEF Ww!Cancel, SameLists
<1>2. CASE s.cancellable # 0
  <2> DEFINE c     == s.cancellable
             tasks == [s.tasks EXCEPT ![c].cancelled = TRUE]
  <2>1. c \in Ww!UnlockIds
    BY <1>2, SessionAssumption DEF Unlockers, Ww!UnlockIds
  <2>2. /\ s.tasks[c] \in Tasks /\ [s.tasks[c] EXCEPT !.cancelled = TRUE] \in Tasks
        /\ [s.tasks[c] EXCEPT !.cancelled = TRUE].stage = s.tasks[c].stage
        /\ [s.tasks[c] EXCEPT !.cancelled = TRUE].device = s.tasks[c].device
    BY <2>1 DEF Unlockers, Tasks
  <2>3. /\ tasks \in [Ww!UnlockIds -> Tasks]
        /\ \A i \in Ww!UnlockIds : tasks[i].stage = s.tasks[i].stage /\ tasks[i].device = s.tasks[i].device
    BY <2>1, <2>2 DEF Unlockers
  <2>4. Ww!Cancel(s) = [s EXCEPT !.tasks = tasks]
    BY <1>2 DEF Ww!Cancel, Unlockers
  <2> HIDE DEF tasks
  <2> QED
    BY <2>3, <2>4 DEF Unlockers, SameLists
<1> QED
  BY <1>1, <1>2

\* A task that can ask does, for its modem; one that cannot returns.
LEMMA AskOps ==
  ASSUME NEW s \in Unlockers, NEW i \in Ww!UnlockIds, NEW stage \in {"asking", "asking_new"},
         NEW opened \in BOOLEAN
  PROVE  LET t == Ww!Ask(s, i, stage, opened)
         IN /\ t \in Unlockers /\ SameLists(s, t)
            /\ t.tasks[i].device = s.tasks[i].device
            /\ \A j \in Ww!UnlockIds : j # i => t.tasks[j] = s.tasks[j]
            /\ \/ t.loops = s.loops /\ ~Asking(t, i)
               \/ t.loops = Append(s.loops, i) /\ Asking(t, i)
            /\ s.tasks[i].lock # "none" /\ opened => t.unlocking_device = s.tasks[i].device
<1> DEFINE t == Ww!Ask(s, i, stage, opened)
<1>1. CASE s.tasks[i].lock = "none" \/ ~(s.prompt \/ opened)
  <2> DEFINE u == Ww!Stage(s, i, "returned")
  <2>1. /\ u \in Unlockers /\ SameLists(s, u) /\ u.tasks[i].stage = "returned" /\ u.loops = s.loops
        /\ u.tasks[i].device = s.tasks[i].device
        /\ \A j \in Ww!UnlockIds : j # i => u.tasks[j] = s.tasks[j]
    BY StageOps DEF Ww!UnlockStages
  <2>2. t = [u EXCEPT !.prompt = FALSE]
    BY <1>1 DEF Ww!Ask
  <2> HIDE DEF u, t
  <2>3. t \in Unlockers /\ SameLists(s, t) /\ t.tasks = u.tasks /\ t.loops = s.loops
    BY <2>1, <2>2 DEF Unlockers, SameLists
  <2> QED
    BY <1>1, <2>1, <2>3 DEF t, Asking
<1>2. CASE ~(s.tasks[i].lock = "none" \/ ~(s.prompt \/ opened))
  <2> DEFINE u == Ww!Stage(s, i, stage)
             d == s.tasks[i].device
             loops == Append(s.loops, i)
  <2>0. stage \in Ww!UnlockStages
    BY DEF Ww!UnlockStages
  <2>1. /\ u \in Unlockers /\ SameLists(s, u) /\ u.tasks[i].stage = stage /\ u.loops = s.loops
        /\ u.tasks[i].device = d
        /\ \A j \in Ww!UnlockIds : j # i => u.tasks[j] = s.tasks[j]
    BY <2>0, StageOps
  <2>2. t = [u EXCEPT !.prompt = TRUE, !.unlocking_device = d, !.loops = loops]
    <3>1. t = [u EXCEPT !.prompt = TRUE, !.unlocking_device = d, !.loops = Append(@, i)]
      BY <1>2 DEF Ww!Ask
    <3> QED
      BY <2>1, <3>1 DEF Unlockers
  <2>3. d \in Modems \cup {Ww!NoModem} /\ loops \in Seq(Ww!UnlockIds)
    BY DEF Unlockers, Tasks
  <2> HIDE DEF u, t, d, loops
  <2>4. /\ t \in Unlockers /\ SameLists(s, t) /\ t.tasks = u.tasks
        /\ t.unlocking_device = d /\ t.loops = loops
    BY <2>1, <2>2, <2>3 DEF Unlockers, SameLists
  <2> QED
    BY <2>1, <2>4 DEF t, d, loops, Asking
<1> QED
  BY <1>1, <1>2

\* The task asks for the lock its modem has by then.
LEMMA UnlockDeviceOps ==
  ASSUME NEW s \in Unlockers, NEW i \in Ww!UnlockIds, NEW opened \in BOOLEAN,
         s.tasks[i].device \in Modems \/ Ww!Locked(s, s.tasks[i].device)
  PROVE  LET t == Ww!UnlockDevice(s, i, opened)
             d == s.tasks[i].device
         IN /\ t \in Unlockers /\ SameLists(s, t) /\ t.tasks[i].device = d
            /\ \A j \in Ww!UnlockIds : j # i => t.tasks[j] = s.tasks[j]
            /\ \/ t.loops = s.loops /\ ~Asking(t, i)
               \/ t.loops = Append(s.loops, i) /\ Asking(t, i)
            /\ Ww!Locked(s, d) /\ opened => t.unlocking_device = d
<1> DEFINE d     == s.tasks[i].device
           lock  == s.lock[d]
           tasks == [s.tasks EXCEPT ![i].lock = lock]
           u     == [s EXCEPT !.tasks = tasks]
<1>1. lock \in Ww!Locks /\ (Ww!Locked(s, d) => lock # "none")
  BY DEF Unlockers, Ww!Locks, Ww!Locked
<1>2. s.tasks[i] \in Tasks
  BY DEF Unlockers
<1>3. Ww!UnlockDevice(s, i, opened) = Ww!Ask(u, i, "asking", opened)
  BY DEF Ww!UnlockDevice, Unlockers
<1> HIDE DEF lock
<1>4. /\ [s.tasks[i] EXCEPT !.lock = lock] \in Tasks /\ [s.tasks[i] EXCEPT !.lock = lock].device = d
      /\ [s.tasks[i] EXCEPT !.lock = lock].lock = lock
  BY <1>1, <1>2 DEF Tasks
<1>5. /\ tasks \in [Ww!UnlockIds -> Tasks] /\ tasks[i].device = d /\ tasks[i].lock = lock
      /\ \A j \in Ww!UnlockIds : j # i => tasks[j] = s.tasks[j]
  BY <1>2, <1>4 DEF Unlockers
<1> HIDE DEF tasks, d
<1>6. u \in Unlockers /\ SameLists(s, u) /\ u.tasks = tasks /\ u.loops = s.loops
  BY <1>5 DEF Unlockers, SameLists
<1> HIDE DEF u
<1> DEFINE t == Ww!Ask(u, i, "asking", opened)
<1>7. /\ t \in Unlockers /\ SameLists(u, t) /\ t.tasks[i].device = u.tasks[i].device
      /\ \A j \in Ww!UnlockIds : j # i => t.tasks[j] = u.tasks[j]
      /\ \/ t.loops = u.loops /\ ~Asking(t, i)
         \/ t.loops = Append(u.loops, i) /\ Asking(t, i)
      /\ u.tasks[i].lock # "none" /\ opened => t.unlocking_device = u.tasks[i].device
  BY <1>6, AskOps
<1>8. Ww!UnlockDevice(s, i, opened) = t
  BY <1>3 DEF u
<1> HIDE DEF t
<1>9. SameLists(s, t)
  BY <1>6, <1>7 DEF SameLists
<1>10. /\ t.tasks[i].device = d /\ \A j \in Ww!UnlockIds : j # i => t.tasks[j] = s.tasks[j]
       /\ Ww!Locked(s, d) /\ opened => t.unlocking_device = d
  BY <1>1, <1>5, <1>6, <1>7
<1>11. \/ t.loops = s.loops /\ ~Asking(t, i)
       \/ t.loops = Append(s.loops, i) /\ Asking(t, i)
  BY <1>6, <1>7
<1> QED
  BY <1>7, <1>8, <1>9, <1>10, <1>11 DEF d

\* Cancelling keeps all of it.
LEMMA CancelInv == ASSUME NEW s, WwInv(s) PROVE WwInv(Ww!Cancel(s))
<1> DEFINE t == Ww!Cancel(s)
<1>1. /\ t \in Unlockers /\ SameLists(s, t)
      /\ t.unlocking_device = s.unlocking_device /\ t.loops = s.loops
      /\ \A i \in Ww!UnlockIds : /\ t.tasks[i].stage = s.tasks[i].stage
                                 /\ t.tasks[i].device = s.tasks[i].device
  BY CancelOps DEF WwInv, WwBut, Listed
<1> HIDE DEF t
<1>2. \A i \in Ww!UnlockIds : (Active(t, i) <=> Active(s, i)) /\ (Asking(t, i) <=> Asking(s, i))
  BY <1>1 DEF Active, Asking
<1>3. Listed(t, {}) /\ LoopsAsk(t)
  BY <1>1, <1>2, SameListed, SameLoops DEF WwInv, WwBut
<1>4. OneTask(s) => OneTask(t)
  BY <1>1, <1>2 DEF OneTask
<1> QED
  BY <1>1, <1>3, <1>4 DEF WwInv, WwBut, Calm, SameLists, t

\* wwan_manager_ensure_unlocking begins a task when there is none.
LEMMA EnsureInv ==
  ASSUME NEW s, WwInv(s), NEW opened \in BOOLEAN, "no_prompt" \notin s.may => opened
  PROVE  WwInv(Ww!EnsureUnlocking(s, opened))
<1> DEFINE t     == Ww!EnsureUnlocking(s, opened)
           fresh == {i \in Ww!UnlockIds : s.tasks[i].stage = "new"}
           none  == ~s.unlock \/ s.unlocking_device # Ww!NoModem \/ Ww!Waiting(s) = <<>> \/ fresh = {}
           i     == CHOOSE i \in fresh : TRUE
           d     == Head(Ww!Waiting(s))
           v     == [s EXCEPT !.tasks[i].device = d, !.cancellable = i]
<1>1. t = IF none THEN s ELSE Ww!UnlockDevice(v, i, opened)
  BY DEF Ww!EnsureUnlocking
<1>2. CASE none
  BY <1>1, <1>2
<1>3. CASE ~none
  <2>1. s \in Unlockers /\ s.devices_to_unlock \in Seq(Modems) /\ s.devices_to_unlock # <<>>
    BY <1>3 DEF WwInv, WwBut, Listed, Unlockers, Ww!Waiting
  <2>2. d \in Modems /\ d \in Waits(s)
    BY <2>1, Tailed DEF Ww!Waiting, Waits, Ww!ToSet
  <2>3. i \in Ww!UnlockIds /\ s.tasks[i].stage = "new" /\ s.unlocking_device = Ww!NoModem
    BY <1>3
  <2>4. t = Ww!UnlockDevice(v, i, opened)
    BY <1>1, <1>3
  <2> HIDE DEF none, fresh, d, i
  <2>5. s.tasks[i] \in Tasks /\ [s.tasks[i] EXCEPT !.device = d] \in Tasks
    BY <2>1, <2>2, <2>3 DEF Unlockers, Tasks
  <2>6. [s.tasks EXCEPT ![i].device = d] \in [Ww!UnlockIds -> Tasks]
    BY <2>1, <2>3, <2>5 DEF Unlockers
  <2>7. i \in 0 .. MaxUnlocks
    BY <2>3, SessionAssumption DEF Ww!UnlockIds
  <2>8. /\ v \in Unlockers /\ SameLists(s, v) /\ v.tasks = [s.tasks EXCEPT ![i].device = d]
        /\ v.loops = s.loops
    BY <2>1, <2>6, <2>7 DEF Unlockers, SameLists
  <2>9. v.tasks[i].device = d /\ \A j \in Ww!UnlockIds : j # i => v.tasks[j] = s.tasks[j]
    BY <2>1, <2>3, <2>5, <2>8 DEF Unlockers, Tasks
  <2> HIDE DEF v
  <2>10. /\ t \in Unlockers /\ SameLists(v, t) /\ t.tasks[i].device = d
         /\ \A j \in Ww!UnlockIds : j # i => t.tasks[j] = v.tasks[j]
         /\ \/ t.loops = v.loops /\ ~Asking(t, i)
            \/ t.loops = Append(v.loops, i) /\ Asking(t, i)
         /\ Ww!Locked(v, d) /\ opened => t.unlocking_device = d
    <3>1. v.tasks[i].device \in Modems
      BY <2>2, <2>9
    <3> DEFINE w == Ww!UnlockDevice(v, i, opened)
    <3>2. /\ w \in Unlockers /\ SameLists(v, w) /\ w.tasks[i].device = v.tasks[i].device
          /\ \A j \in Ww!UnlockIds : j # i => w.tasks[j] = v.tasks[j]
          /\ \/ w.loops = v.loops /\ ~Asking(w, i)
             \/ w.loops = Append(v.loops, i) /\ Asking(w, i)
          /\ Ww!Locked(v, v.tasks[i].device) /\ opened => w.unlocking_device = v.tasks[i].device
      BY <2>3, <2>8, <3>1, UnlockDeviceOps
    <3>3. t = w
      BY <2>4
    <3> HIDE DEF w, t
    <3> QED
      BY <2>9, <3>2, <3>3
  <2> HIDE DEF t
  <2>11. /\ t \in Unlockers /\ SameLists(s, t) /\ t.tasks[i].device = d
         /\ \A j \in Ww!UnlockIds : j # i => t.tasks[j] = s.tasks[j]
         /\ \/ t.loops = s.loops /\ ~Asking(t, i)
            \/ t.loops = Append(s.loops, i) /\ Asking(t, i)
    BY <2>8, <2>9, <2>10 DEF SameLists
  <2>12. LoopsBut(s, i)
    BY <2>3, NoLoop DEF WwInv, WwBut, Asking
  <2>13. Ww!Locked(v, d)
    BY <2>2, <2>8 DEF WwInv, WwBut, Listed, SameLists, Ww!Locked
  <2>14. ASSUME Calm(s) PROVE OneTask(t)
    <3>1. OneTask(s) /\ opened
      BY <2>14 DEF WwInv, WwBut, Calm
    <3>2. \A j \in Ww!UnlockIds : ~Active(s, j)
      BY <2>3, <3>1, SessionAssumption DEF OneTask
    <3>3. \A j \in Ww!UnlockIds : j # i => ~Active(t, j)
      BY <2>11, <3>2 DEF Active
    <3>4. t.unlocking_device = d
      BY <2>10, <2>13, <3>1
    <3> QED
      BY <2>2, <2>11, <3>3, <3>4 DEF OneTask
  <2>15. Listed(s, {}) /\ s.loops \in Seq(Ww!UnlockIds)
    BY <2>1 DEF WwInv, WwBut, Unlockers
  <2>16. WwInv(t)
    BY <2>3, <2>11, <2>12, <2>14, <2>15, MovedInv
  <2> QED
    BY <2>16 DEF t
<1> QED
  BY <1>2, <1>3

\* What is changed besides the tasks and their loops leaves these alone.
LEMMA SameTasks ==
  ASSUME NEW s, NEW t, t.tasks = s.tasks, t.loops = s.loops, t.unlocking_device = s.unlocking_device,
         t.may = s.may, t.forgotten = s.forgotten, LoopsAsk(s), Calm(s) => OneTask(s)
  PROVE  LoopsAsk(t) /\ (Calm(t) => OneTask(t))
BY DEF LoopsAsk, Calm, OneTask, Asking, Active

\* wwan_manager_unlock_required_cb puts the modem in its list again.
LEMMA UnlockRequiredInv ==
  ASSUME NEW s, NEW d \in s.present, WwBut(s, {d}), NEW opened \in BOOLEAN,
         "no_prompt" \notin s.may => opened
  PROVE  WwInv(Ww!UnlockRequired(s, d, opened))
<1> DEFINE t == Ww!UnlockRequired(s, d, opened)
<1>0. /\ s \in Unlockers /\ d \in Modems /\ s.devices_to_unlock \in Seq(Modems)
      /\ s.devices \in SUBSET Modems /\ Waits(s) \subseteq Modems
  BY DEF WwBut, Listed, Unlockers
<1>1. CASE Ww!Locked(s, d) /\ d \notin s.devices
  <2>1. t = s
    BY <1>1 DEF Ww!UnlockRequired
  <2>2. WwInv(s)
    BY <1>1 DEF WwInv, WwBut, Listed
  <2> HIDE DEF t
  <2> QED
    BY <2>1, <2>2 DEF t
<1>2. CASE Ww!Locked(s, d) /\ d \in s.devices
  <2> DEFINE list == Append(s.devices_to_unlock, d)
             m    == [s EXCEPT !.devices = @ \ {d}, !.devices_to_unlock = list]
  <2>1. t = Ww!EnsureUnlocking(m, opened)
    BY <1>2, <1>0 DEF Ww!UnlockRequired, Unlockers
  <2>2. list \in Seq(Modems) /\ Ww!ToSet(list) = Waits(s) \cup {d} /\ Ww!IsInjective(list)
    BY <1>0, <1>2, AppendIt DEF WwBut, Listed, Waits
  <2> HIDE DEF list
  <2>3. /\ m \in Unlockers /\ m.devices = s.devices \ {d} /\ m.devices_to_unlock = list
        /\ m.may = s.may /\ m.lock = s.lock /\ m.tasks = s.tasks /\ m.present = s.present
        /\ m.unlocking_device = s.unlocking_device /\ m.loops = s.loops /\ m.forgotten = s.forgotten
    BY <1>0, <2>2 DEF Unlockers
  <2> HIDE DEF m
  <2>4. Listed(m, {})
    BY <1>2, <2>2, <2>3 DEF WwBut, Listed, Waits, Ww!Locked
  <2>5. WwInv(m)
    BY <2>3, <2>4, SameTasks DEF WwBut, WwInv
  <2> HIDE DEF t
  <2> QED
    BY <2>1, <2>3, <2>5, EnsureInv DEF t
<1>3. CASE ~Ww!Locked(s, d)
  <2> DEFINE m == IF d \in Ww!ToSet(Ww!Waiting(s))
                  THEN [s EXCEPT !.devices = @ \cup {d},
                                 !.devices_to_unlock = Ww!Without(@, d)]
                  ELSE s
  <2>1. t = IF d = s.unlocking_device THEN Ww!Cancel(m) ELSE m
    BY <1>3 DEF Ww!UnlockRequired
  <2>2. WwInv(m)
    <3>1. CASE d \in Waits(s)
      <4> DEFINE list == Ww!Without(s.devices_to_unlock, d)
      <4>1. list \in Seq(Modems) /\ Ww!ToSet(list) = Waits(s) \ {d} /\ Ww!IsInjective(list)
        BY <1>0, WithoutIt DEF WwBut, Listed, Waits
      <4>2. m = [s EXCEPT !.devices = @ \cup {d}, !.devices_to_unlock = list]
        BY <1>0, <3>1 DEF Waits, Ww!Waiting, Unlockers
      <4> HIDE DEF list, m
      <4>3. /\ m \in Unlockers /\ m.devices = s.devices \cup {d} /\ m.devices_to_unlock = list
            /\ m.may = s.may /\ m.lock = s.lock /\ m.tasks = s.tasks /\ m.present = s.present
            /\ m.unlocking_device = s.unlocking_device /\ m.loops = s.loops
            /\ m.forgotten = s.forgotten
        BY <1>0, <4>1, <4>2 DEF Unlockers
      <4>4. Listed(m, {})
        BY <3>1, <4>1, <4>3 DEF WwBut, Listed, Waits, Ww!Locked
      <4> QED
        BY <4>3, <4>4, SameTasks DEF WwBut, WwInv
    <3>2. CASE d \notin Waits(s)
      <4>1. m = s
        BY <3>2 DEF Waits, Ww!Waiting
      <4>2. WwInv(s)
        BY <3>2 DEF WwBut, WwInv, Listed
      <4> HIDE DEF m
      <4> QED
        BY <4>1, <4>2
    <3> QED
      BY <3>1, <3>2
  <2> HIDE DEF m, t
  <2> QED
    BY <2>1, <2>2, CancelInv DEF t
<1> QED
  BY <1>1, <1>2, <1>3

-------------------------------------------------------------------------------
(* The steps.                                                              *)

\* A prompt can be had in any world but those in which it may not.
LEMMA OpenedOps ==
  ASSUME NEW opened \in Ww!Opened
  PROVE  opened \in BOOLEAN /\ ("no_prompt" \notin st.may => opened)
BY DEF Ww!Opened

\* A modem comes, with a lock or without.
LEMMA ObjectAddedInv ==
  ASSUME WwInv(st), NEW d \in Modems, Ww!ObjectAdded(d)
  PROVE  WwInv(st')
<1>1. PICK lock \in Ww!Locks, opened \in Ww!Opened :
        st' = Ww!CacheMmObject([st EXCEPT !.lock[d] = lock, !.present = @ \cup {d}], d, opened)
  BY DEF Ww!ObjectAdded
<1>2. st \in Unlockers /\ d \notin st.present
  BY DEF WwInv, WwBut, Listed, Ww!ObjectAdded
<1>3. opened \in BOOLEAN /\ ("no_prompt" \notin st.may => opened)
  BY OpenedOps
<1> DEFINE locks == [st.lock EXCEPT ![d] = lock]
           s     == [st EXCEPT !.lock = locks, !.present = st.present \cup {d}]
           m     == IF Ww!Locked(s, d) THEN [s EXCEPT !.devices_to_unlock = Append(@, d)]
                    ELSE [s EXCEPT !.devices = @ \cup {d}]
<1>4. st' = Ww!EnsureUnlocking(m, opened)
  BY <1>1, <1>2 DEF Ww!CacheMmObject, Unlockers
<1>5. /\ locks \in [Modems -> Ww!Locks] /\ locks[d] = lock
      /\ \A e \in Modems : e # d => locks[e] = st.lock[e]
  BY <1>2 DEF Unlockers
<1> HIDE DEF locks
<1>6. /\ s \in Unlockers /\ s.lock = locks /\ s.present = st.present \cup {d} /\ s.devices = st.devices
      /\ s.devices_to_unlock = st.devices_to_unlock /\ s.may = st.may /\ s.tasks = st.tasks
      /\ s.unlocking_device = st.unlocking_device /\ s.loops = st.loops /\ s.forgotten = st.forgotten
  BY <1>2, <1>5 DEF Unlockers
<1>7. d \notin Waits(st) /\ d \notin st.devices
  BY <1>2 DEF WwInv, WwBut, Listed
<1> HIDE DEF s
<1> DEFINE list == Append(st.devices_to_unlock, d)
<1>8. list \in Seq(Modems) /\ Ww!ToSet(list) = Waits(st) \cup {d} /\ Ww!IsInjective(list)
  BY <1>2, <1>7, AppendIt DEF WwInv, WwBut, Listed, Waits, Unlockers
<1>9. m = IF Ww!Locked(s, d) THEN [s EXCEPT !.devices_to_unlock = list]
          ELSE [s EXCEPT !.devices = st.devices \cup {d}]
  BY <1>6 DEF Unlockers
<1> HIDE DEF list, m
<1>10. /\ m \in Unlockers /\ m.lock = locks /\ m.present = s.present /\ m.may = st.may
       /\ m.tasks = st.tasks /\ m.unlocking_device = st.unlocking_device /\ m.loops = st.loops
       /\ m.forgotten = st.forgotten
       /\ \/ /\ m.devices = st.devices /\ m.devices_to_unlock = list /\ Ww!Locked(s, d)
          \/ /\ m.devices = st.devices \cup {d} /\ m.devices_to_unlock = st.devices_to_unlock
  BY <1>2, <1>6, <1>8, <1>9 DEF Unlockers
<1>11. Waits(st) \subseteq Modems /\ \A e \in Waits(st) : Ww!Locked(st, e)
  BY <1>2 DEF WwInv, WwBut, Listed, Unlockers
<1>12. \A e \in Waits(m) : Ww!Locked(m, e)
  BY <1>5, <1>6, <1>7, <1>8, <1>10, <1>11 DEF Waits, Ww!Locked
<1>13. Listed(m, {})
  BY <1>6, <1>7, <1>8, <1>10, <1>12 DEF WwInv, WwBut, Listed, Waits
<1>14. WwInv(m)
  BY <1>10, <1>13, SameTasks DEF WwInv, WwBut
<1> QED
  BY <1>3, <1>4, <1>10, <1>14, EnsureInv

\* A modem goes.
LEMMA ObjectRemovedInv ==
  ASSUME WwInv(st), NEW d \in Modems, Ww!ObjectRemoved(d)
  PROVE  WwInv(st')
<1> DEFINE list  == Ww!Without(st.devices_to_unlock, d)
           s     == [st EXCEPT !.present = @ \ {d}, !.gone = @ \cup {d}, !.devices = @ \ {d},
                               !.devices_to_unlock = list]
<1>1. st \in Unlockers
  BY DEF WwInv, WwBut, Listed
<1>2. st' = IF d = s.unlocking_device THEN Ww!Cancel(s) ELSE s
  BY <1>1 DEF Ww!ObjectRemoved, Unlockers
<1>3. list \in Seq(Modems) /\ Ww!ToSet(list) = Waits(st) \ {d} /\ Ww!IsInjective(list)
  BY <1>1, WithoutIt DEF WwInv, WwBut, Listed, Waits, Unlockers
<1> HIDE DEF list
<1>4. /\ s \in Unlockers /\ s.lock = st.lock /\ s.present = st.present \ {d}
      /\ s.devices = st.devices \ {d} /\ s.devices_to_unlock = list /\ s.may = st.may
      /\ s.tasks = st.tasks /\ s.unlocking_device = st.unlocking_device
      /\ s.loops = st.loops /\ s.forgotten = st.forgotten
  BY <1>1, <1>3 DEF Unlockers
<1> HIDE DEF s
<1>5. Listed(s, {})
  BY <1>3, <1>4 DEF WwInv, WwBut, Listed, Waits, Ww!Locked
<1>6. WwInv(s)
  BY <1>4, <1>5, SameTasks DEF WwInv, WwBut
<1> QED
  BY <1>2, <1>6, CancelInv

\* A lock comes or goes.
LEMMA LockChangesInv ==
  ASSUME WwInv(st), NEW d \in Modems, Ww!LockChanges(d)
  PROVE  WwInv(st')
<1>1. PICK lock \in Ww!Locks, opened \in Ww!Opened :
        st' = Ww!UnlockRequired([st EXCEPT !.lock[d] = lock], d, opened)
  BY DEF Ww!LockChanges
<1>2. st \in Unlockers /\ d \in st.present
  BY DEF WwInv, WwBut, Listed, Ww!LockChanges
<1>3. opened \in BOOLEAN /\ ("no_prompt" \notin st.may => opened)
  BY OpenedOps
<1> DEFINE locks == [st.lock EXCEPT ![d] = lock]
           s     == [st EXCEPT !.lock = locks]
<1>4. st' = Ww!UnlockRequired(s, d, opened)
  BY <1>1, <1>2 DEF Unlockers
<1>5. /\ locks \in [Modems -> Ww!Locks]
      /\ \A e \in Modems : e # d => locks[e] = st.lock[e]
  BY <1>2 DEF Unlockers
<1> HIDE DEF locks
<1>6. /\ s \in Unlockers /\ s.lock = locks /\ s.present = st.present /\ s.devices = st.devices
      /\ s.devices_to_unlock = st.devices_to_unlock /\ s.may = st.may /\ s.tasks = st.tasks
      /\ s.unlocking_device = st.unlocking_device /\ s.loops = st.loops /\ s.forgotten = st.forgotten
  BY <1>2, <1>5 DEF Unlockers
<1> HIDE DEF s
<1>7. Waits(st) \subseteq Modems /\ Waits(s) = Waits(st)
  BY <1>2, <1>6 DEF WwInv, WwBut, Listed, Unlockers, Waits
<1>8. Listed(s, {d})
  BY <1>5, <1>6, <1>7 DEF WwInv, WwBut, Listed, Ww!Locked
<1>9. WwBut(s, {d})
  BY <1>6, <1>8, SameTasks DEF WwInv, WwBut
<1> QED
  BY <1>2, <1>3, <1>4, <1>6, <1>9, UnlockRequiredInv

\* The setting is changed.
LEMMA SetUnlockSimInv == ASSUME WwInv(st), Ww!SetUnlockSim PROVE WwInv(st')
<1> DEFINE s == [st EXCEPT !.unlock = ~@]
           d == Head(Ww!Waiting(s))
<1>1. PICK opened \in Ww!Opened :
        st' = IF s.unlock /\ Ww!Waiting(s) # <<>> /\ s.unlocking_device = Ww!NoModem
              THEN Ww!UnlockRequired(s, d, opened) ELSE s
  BY DEF Ww!SetUnlockSim
<1>2. opened \in BOOLEAN /\ ("no_prompt" \notin st.may => opened)
  BY OpenedOps
<1>3. /\ s \in Unlockers /\ s.lock = st.lock /\ s.present = st.present /\ s.devices = st.devices
      /\ s.devices_to_unlock = st.devices_to_unlock /\ s.may = st.may /\ s.tasks = st.tasks
      /\ s.unlocking_device = st.unlocking_device /\ s.loops = st.loops /\ s.forgotten = st.forgotten
  BY DEF WwInv, WwBut, Listed, Unlockers
<1> HIDE DEF s
<1>4. WwInv(s)
  <2>1. Listed(s, {})
    BY <1>3 DEF WwInv, WwBut, Listed, Waits, Ww!Locked
  <2> QED
    BY <1>3, <2>1, SameTasks DEF WwInv, WwBut
<1>5. Ww!Waiting(s) # <<>> => d \in s.present
  <2>1. Ww!Waiting(s) # <<>> => d \in Waits(s)
    BY <1>3, Tailed DEF Unlockers, Ww!Waiting, Waits, Ww!ToSet
  <2> QED
    BY <1>4, <2>1 DEF WwInv, WwBut, Listed
<1>6. WwBut(s, {d})
  BY <1>4 DEF WwInv, WwBut, Listed
<1> HIDE DEF d
<1> QED
  BY <1>1, <1>2, <1>3, <1>4, <1>5, <1>6, UnlockRequiredInv

\* ModemManager leaves with its modems, or is there again.
LEMMA NameOwnerChangedInv == ASSUME WwInv(st), Ww!NameOwnerChanged PROVE WwInv(st')
<1>1. st \in Unlockers
  BY DEF WwInv, WwBut, Listed
<1>2. CASE st.mm1_running
  <2> DEFINE forgotten == st.forgotten \/ Ww!UnderWay(st) # {}
             gone == st.gone \cup st.present
  <2>1. st' = [st EXCEPT !.mm1_running = FALSE, !.present = {}, !.gone = gone,
                         !.devices = {}, !.devices_to_unlock = <<>>, !.prompt = FALSE,
                         !.puk_code = FALSE, !.unlocking_device = Ww!NoModem,
                         !.forgotten = forgotten]
    BY <1>1, <1>2 DEF Ww!NameOwnerChanged, Unlockers
  <2>2. <<>> \in Seq(Modems) /\ gone \subseteq Modems
    BY <1>1 DEF Unlockers
  <2>3. forgotten \in BOOLEAN
    BY <1>1 DEF Unlockers
  <2>4. ~forgotten => \A i \in Ww!UnlockIds : ~Active(st, i)
    BY DEF Ww!UnderWay, Active
  <2> HIDE DEF forgotten, gone
  <2>5. /\ st' \in Unlockers /\ st'.present = {} /\ st'.devices = {}
        /\ st'.devices_to_unlock = <<>> /\ st'.tasks = st.tasks /\ st'.loops = st.loops
        /\ st'.forgotten = forgotten
    BY <1>1, <2>1, <2>2, <2>3 DEF Unlockers
  <2>6. Waits(st') = {} /\ Ww!IsInjective(st'.devices_to_unlock)
    BY <2>5 DEF Waits, Ww!ToSet, Ww!IsInjective
  <2>7. Listed(st', {})
    BY <2>5, <2>6 DEF Listed
  <2>8. LoopsAsk(st')
    BY <2>5 DEF WwInv, WwBut, LoopsAsk, Asking
  <2>9. Calm(st') => OneTask(st')
    BY <2>4, <2>5 DEF Calm, OneTask, Active
  <2> QED
    BY <2>7, <2>8, <2>9 DEF WwInv, WwBut
<1>3. CASE ~st.mm1_running
  <2>1. st' = [st EXCEPT !.mm1_running = TRUE]
    BY <1>3 DEF Ww!NameOwnerChanged
  <2>2. /\ st' \in Unlockers /\ st'.lock = st.lock /\ st'.devices = st.devices
        /\ st'.present = st.present /\ st'.forgotten = st.forgotten
        /\ st'.devices_to_unlock = st.devices_to_unlock /\ st'.loops = st.loops
        /\ st'.unlocking_device = st.unlocking_device /\ st'.tasks = st.tasks /\ st'.may = st.may
    BY <1>1, <2>1 DEF Unlockers
  <2>3. Listed(st', {})
    BY <2>2 DEF WwInv, WwBut, Listed, Waits, Ww!Locked
  <2> QED
    BY <2>2, <2>3, SameTasks DEF WwInv, WwBut
<1> QED
  BY <1>2, <1>3

\* A task that is given up returns.
LEMMA GivenUpOps ==
  ASSUME NEW s \in Unlockers, NEW i \in Ww!UnlockIds
  PROVE  LET t == Ww!Stage([s EXCEPT !.tasks[i].cancelled = TRUE], i, "returned")
         IN /\ t \in Unlockers /\ SameLists(s, t)
            /\ t.unlocking_device = s.unlocking_device /\ t.loops = s.loops
            /\ t.tasks[i].device = s.tasks[i].device /\ t.tasks[i].stage = "returned"
            /\ \A j \in Ww!UnlockIds : j # i => t.tasks[j] = s.tasks[j]
<1> DEFINE tasks == [s.tasks EXCEPT ![i].cancelled = TRUE]
           u     == [s EXCEPT !.tasks = tasks]
           t     == Ww!Stage(u, i, "returned")
<1>1. /\ s.tasks[i] \in Tasks /\ [s.tasks[i] EXCEPT !.cancelled = TRUE] \in Tasks
      /\ [s.tasks[i] EXCEPT !.cancelled = TRUE].device = s.tasks[i].device
  BY DEF Unlockers, Tasks
<1>2. /\ tasks \in [Ww!UnlockIds -> Tasks] /\ tasks[i].device = s.tasks[i].device
      /\ \A j \in Ww!UnlockIds : j # i => tasks[j] = s.tasks[j]
  BY <1>1 DEF Unlockers
<1>3. Ww!Stage([s EXCEPT !.tasks[i].cancelled = TRUE], i, "returned") = t
  BY DEF Unlockers
<1> HIDE DEF tasks
<1>4. /\ u \in Unlockers /\ SameLists(s, u) /\ u.tasks = tasks
      /\ u.unlocking_device = s.unlocking_device /\ u.loops = s.loops
  BY <1>2 DEF Unlockers, SameLists
<1> HIDE DEF u
<1>5. /\ t \in Unlockers /\ SameLists(u, t) /\ t.unlocking_device = u.unlocking_device
      /\ t.loops = u.loops /\ t.tasks[i].stage = "returned" /\ t.tasks[i].device = u.tasks[i].device
      /\ \A j \in Ww!UnlockIds : j # i => t.tasks[j] = u.tasks[j]
  <2>1. "returned" \in Ww!UnlockStages
    BY DEF Ww!UnlockStages
  <2> QED
    BY <1>4, <2>1, StageOps
<1> HIDE DEF t
<1>6. SameLists(s, t)
  BY <1>4, <1>5 DEF SameLists
<1> QED
  BY <1>2, <1>3, <1>4, <1>5, <1>6

\* What is left of the loops when the innermost ends.
LEMMA LastOff ==
  ASSUME NEW S, NEW seq \in Seq(S), seq # <<>>, Ww!IsInjective(seq)
  PROVE  /\ Ww!Last(seq) \in S /\ Ww!Front(seq) \in Seq(S)
         /\ Ww!IsInjective(Ww!Front(seq)) /\ Ww!Last(seq) \in Ww!ToSet(seq)
         /\ Ww!ToSet(Ww!Front(seq)) = Ww!ToSet(seq) \ {Ww!Last(seq)}
<1> DEFINE f == SubSeq(seq, 1, Len(seq) - 1)
           l == seq[Len(seq)]
<1>1. Ww!Front(seq) = f /\ Ww!Last(seq) = l
  BY DEF Ww!Front, Ww!Last
<1>2. /\ Len(seq) \in Nat /\ Len(seq) > 0 /\ DOMAIN seq = 1 .. Len(seq)
      /\ f \in Seq(S) /\ DOMAIN f = 1 .. Len(seq) - 1 /\ l \in S
      /\ \A i \in 1 .. Len(seq) - 1 : f[i] = seq[i]
  OBVIOUS
<1> HIDE DEF f
<1>3. Ww!IsInjective(f) /\ l \in Ww!ToSet(seq)
  BY <1>2 DEF Ww!IsInjective, Ww!ToSet
<1>4. \A i \in DOMAIN f : i \in DOMAIN seq /\ f[i] = seq[i] /\ seq[i] # l
  BY <1>2 DEF Ww!IsInjective
<1>5. \A i \in DOMAIN seq : seq[i] # l => i \in DOMAIN f /\ f[i] = seq[i]
  BY <1>2
<1>6. Ww!ToSet(f) = Ww!ToSet(seq) \ {l}
  BY <1>4, <1>5 DEF Ww!ToSet
<1> QED
  BY <1>1, <1>2, <1>3, <1>6

\* The innermost prompt's main loop ends.
LEMMA PromptAnsweredInv == ASSUME WwInv(st), Ww!PromptAnswered PROVE WwInv(st')
<1> DEFINE i     == Ww!Last(st.loops)
           loops == Ww!Front(st.loops)
           s     == [st EXCEPT !.loops = loops]
<1>1. st \in Unlockers /\ st.loops \in Seq(Ww!UnlockIds) /\ st.loops # <<>> /\ Ww!IsInjective(st.loops)
  BY DEF WwInv, WwBut, LoopsAsk, Listed, Unlockers, Ww!PromptAnswered
<1>2. /\ i \in Ww!UnlockIds /\ loops \in Seq(Ww!UnlockIds)
      /\ Ww!IsInjective(loops) /\ i \in Ww!ToSet(st.loops)
      /\ Ww!ToSet(loops) = Ww!ToSet(st.loops) \ {i}
  BY <1>1, LastOff
<1>3. \/ st' = Ww!Stage([s EXCEPT !.tasks[i].cancelled = TRUE], i, "returned")
      \/ /\ s.tasks[i].lock = "puk"
         /\ \E opened \in Ww!Opened : st' = Ww!Ask([s EXCEPT !.puk_code = TRUE], i, "asking_new", opened)
      \/ st' = Ww!Stage(s, i, "over")
      \/ s.sent < MaxCodes /\ st' = [Ww!Stage(s, i, "sending") EXCEPT !.sent = @ + 1]
  BY DEF Ww!PromptAnswered
<1>4. Asking(st, i) /\ Active(st, i)
  BY <1>2 DEF WwInv, WwBut, LoopsAsk, Asking, Active
<1> HIDE DEF i, loops
<1>5. /\ s \in Unlockers /\ SameLists(st, s) /\ s.tasks = st.tasks /\ s.loops = loops
      /\ s.unlocking_device = st.unlocking_device
  BY <1>1, <1>2 DEF Unlockers, SameLists
<1> HIDE DEF s
<1>6. LoopsBut(s, i)
  BY <1>2, <1>5 DEF WwInv, WwBut, LoopsAsk, LoopsBut, Asking
<1>7. Listed(s, {}) /\ s.loops \in Seq(Ww!UnlockIds)
  BY <1>2, <1>5, SameListed DEF WwInv, WwBut
<1>8. Calm(s) => OneTask(s) /\ Active(s, i)
  BY <1>4, <1>5 DEF WwInv, WwBut, Calm, SameLists, OneTask, Active
<1>9. ASSUME NEW stage \in {"returned", "over", "sending"},
             st' \in Unlockers, SameLists(s, st'), st'.loops = s.loops,
             st'.unlocking_device = s.unlocking_device,
             st'.tasks[i].stage = stage, st'.tasks[i].device = s.tasks[i].device,
             \A j \in Ww!UnlockIds : j # i => st'.tasks[j] = s.tasks[j]
      PROVE  WwInv(st')
  <2>1. ~Asking(st', i)
    BY <1>9 DEF Asking
  <2>2. Calm(s) => OneTask(st')
    BY <1>2, <1>8, <1>9, StillOne
  <2> QED
    BY <1>2, <1>6, <1>7, <1>9, <2>1, <2>2, MovedInv
<1>10. CASE st' = Ww!Stage([s EXCEPT !.tasks[i].cancelled = TRUE], i, "returned")
  <2>1. /\ st' \in Unlockers /\ SameLists(s, st')
        /\ st'.unlocking_device = s.unlocking_device /\ st'.loops = s.loops
        /\ st'.tasks[i].device = s.tasks[i].device /\ st'.tasks[i].stage = "returned"
        /\ \A j \in Ww!UnlockIds : j # i => st'.tasks[j] = s.tasks[j]
    BY <1>2, <1>5, <1>10, GivenUpOps
  <2> QED
    BY <1>9, <2>1
<1>11. CASE st' = Ww!Stage(s, i, "over")
  <2>1. "over" \in Ww!UnlockStages
    BY DEF Ww!UnlockStages
  <2>2. /\ st' \in Unlockers /\ SameLists(s, st')
        /\ st'.unlocking_device = s.unlocking_device /\ st'.loops = s.loops
        /\ st'.tasks[i].device = s.tasks[i].device /\ st'.tasks[i].stage = "over"
        /\ \A j \in Ww!UnlockIds : j # i => st'.tasks[j] = s.tasks[j]
    BY <1>2, <1>5, <1>11, <2>1, StageOps
  <2> QED
    BY <1>9, <2>2
<1>12. CASE /\ s.tasks[i].lock = "puk"
            /\ \E opened \in Ww!Opened : st' = Ww!Ask([s EXCEPT !.puk_code = TRUE], i, "asking_new", opened)
  <2> DEFINE u == [s EXCEPT !.puk_code = TRUE]
  <2>1. PICK opened \in Ww!Opened : st' = Ww!Ask(u, i, "asking_new", opened)
    BY <1>12
  <2>2. opened \in BOOLEAN /\ ("no_prompt" \notin st.may => opened)
    BY OpenedOps
  <2>3. /\ u \in Unlockers /\ SameLists(s, u) /\ u.tasks = s.tasks /\ u.loops = s.loops
    BY <1>5 DEF Unlockers, SameLists
  <2> HIDE DEF u
  <2> DEFINE t == Ww!Ask(u, i, "asking_new", opened)
  <2>4. /\ t \in Unlockers /\ SameLists(u, t)
        /\ t.tasks[i].device = u.tasks[i].device
        /\ \A j \in Ww!UnlockIds : j # i => t.tasks[j] = u.tasks[j]
        /\ \/ t.loops = u.loops /\ ~Asking(t, i)
           \/ t.loops = Append(u.loops, i) /\ Asking(t, i)
        /\ u.tasks[i].lock # "none" /\ opened => t.unlocking_device = u.tasks[i].device
    BY <1>2, <2>2, <2>3, AskOps
  <2>5. st' = t
    BY <2>1
  <2> HIDE DEF t
  <2>6. /\ st' \in Unlockers /\ SameLists(s, st') /\ st'.tasks[i].device = s.tasks[i].device
        /\ \A j \in Ww!UnlockIds : j # i => st'.tasks[j] = s.tasks[j]
        /\ \/ st'.loops = s.loops /\ ~Asking(st', i)
           \/ st'.loops = Append(s.loops, i) /\ Asking(st', i)
    BY <2>3, <2>4, <2>5 DEF SameLists
  <2>7. ASSUME Calm(s) PROVE OneTask(st')
    <3>1. opened
      BY <1>5, <2>2, <2>7 DEF Calm, SameLists
    <3>2. st'.unlocking_device = s.tasks[i].device
      BY <1>12, <2>3, <2>4, <2>5, <3>1
    <3>3. s.tasks[i].device = s.unlocking_device
      BY <1>2, <1>8, <2>7 DEF OneTask
    <3> QED
      BY <1>2, <1>8, <2>6, <2>7, <3>2, <3>3, StillOne
  <2> QED
    BY <1>2, <1>6, <1>7, <2>6, <2>7, MovedInv
<1>13. CASE s.sent < MaxCodes /\ st' = [Ww!Stage(s, i, "sending") EXCEPT !.sent = @ + 1]
  <2> DEFINE u == Ww!Stage(s, i, "sending")
  <2>0. "sending" \in Ww!UnlockStages
    BY DEF Ww!UnlockStages
  <2>1. /\ u \in Unlockers /\ SameLists(s, u) /\ u.loops = s.loops /\ u.sent = s.sent
        /\ u.unlocking_device = s.unlocking_device
        /\ u.tasks[i].stage = "sending" /\ u.tasks[i].device = s.tasks[i].device
        /\ \A j \in Ww!UnlockIds : j # i => u.tasks[j] = s.tasks[j]
    BY <1>2, <1>5, <2>0, StageOps
  <2>2. st' = [u EXCEPT !.sent = @ + 1]
    BY <1>13
  <2> HIDE DEF u
  <2>3. s.sent + 1 \in 0 .. MaxCodes
    <3>1. s.sent \in 0 .. MaxCodes /\ MaxCodes \in Nat /\ s.sent < MaxCodes
      BY <1>5, <1>13, SessionAssumption DEF Unlockers
    <3> QED
      BY <3>1
  <2>4. /\ st' \in Unlockers /\ SameLists(u, st') /\ st'.tasks = u.tasks /\ st'.loops = u.loops
        /\ st'.unlocking_device = u.unlocking_device
    BY <2>1, <2>2, <2>3 DEF Unlockers, SameLists
  <2>5. SameLists(s, st')
    BY <2>1, <2>4 DEF SameLists
  <2> QED
    BY <1>9, <2>1, <2>4, <2>5
<1> QED
  BY <1>3, <1>10, <1>11, <1>12, <1>13

\* The code was wrong and the user is to be asked again, or the task returns.
LEMMA PasswordSentInv ==
  ASSUME WwInv(st), NEW i \in Ww!UnlockIds, Ww!PasswordSent(i)
  PROVE  WwInv(st')
<1> DEFINE s == [st EXCEPT !.puk_code = FALSE]
<1>1. /\ st \in Unlockers /\ Listed(st, {}) /\ Active(st, i) /\ ~Asking(st, i)
      /\ st.loops \in Seq(Ww!UnlockIds)
  BY DEF WwInv, WwBut, Listed, Unlockers, Ww!PasswordSent, Active, Asking
<1>2. PICK stage \in {"returned", "waiting"}, id \in {s.prompt_timeout_id, i} :
        st' = [Ww!Stage(s, i, stage) EXCEPT !.prompt_timeout_id = id]
  <2>1. \/ st' = Ww!Stage(s, i, "returned")
        \/ st' = [Ww!Stage(s, i, "waiting") EXCEPT !.prompt_timeout_id = i]
    BY DEF Ww!PasswordSent
  <2>2. s \in Unlockers
    BY <1>1 DEF Unlockers
  <2> HIDE DEF s
  <2> DEFINE u == Ww!Stage(s, i, "returned")
  <2>3. u \in Unlockers /\ u.prompt_timeout_id = s.prompt_timeout_id
    BY <2>2, StageOps DEF Ww!UnlockStages
  <2> HIDE DEF u
  <2>4. u = [u EXCEPT !.prompt_timeout_id = s.prompt_timeout_id]
    BY <2>3 DEF Unlockers
  <2>5. u = [Ww!Stage(s, i, "returned") EXCEPT !.prompt_timeout_id = s.prompt_timeout_id]
    BY <2>4 DEF u
  <2> QED
    BY <2>1, <2>5 DEF u
<1>3. /\ s \in Unlockers /\ SameLists(st, s) /\ s.tasks = st.tasks /\ s.loops = st.loops
      /\ s.unlocking_device = st.unlocking_device
  BY <1>1 DEF Unlockers, SameLists
<1>4. id \in 0 .. MaxUnlocks
  <2>1. s.prompt_timeout_id \in 0 .. MaxUnlocks
    BY <1>3 DEF Unlockers
  <2>2. i \in 0 .. MaxUnlocks
    BY SessionAssumption DEF Ww!UnlockIds
  <2> QED
    BY <2>1, <2>2
<1> HIDE DEF s
<1> DEFINE u == Ww!Stage(s, i, stage)
<1>50. stage \in Ww!UnlockStages
  BY DEF Ww!UnlockStages
<1>5. /\ u \in Unlockers /\ SameLists(s, u) /\ u.loops = s.loops
      /\ u.unlocking_device = s.unlocking_device
      /\ u.tasks[i].stage = stage /\ u.tasks[i].device = s.tasks[i].device
      /\ \A j \in Ww!UnlockIds : j # i => u.tasks[j] = s.tasks[j]
  BY <1>3, <1>50, StageOps
<1>6. st' = [u EXCEPT !.prompt_timeout_id = id]
  BY <1>2
<1> HIDE DEF u
<1>7. /\ st' \in Unlockers /\ SameLists(st, st') /\ st'.tasks = u.tasks /\ st'.loops = st.loops
      /\ st'.unlocking_device = st.unlocking_device
  BY <1>3, <1>4, <1>5, <1>6 DEF Unlockers, SameLists
<1>8. ~Asking(st', i) /\ LoopsBut(st, i)
  BY <1>1, <1>2, <1>5, <1>7, NoLoop DEF WwInv, WwBut, Asking
<1>9. st'.tasks[i].device = st.tasks[i].device /\ \A j \in Ww!UnlockIds : j # i => st'.tasks[j] = st.tasks[j]
  BY <1>3, <1>5, <1>7
<1>10. Calm(st) => OneTask(st')
  BY <1>1, <1>7, <1>9, StillOne DEF WwInv, WwBut
<1> QED
  BY <1>1, <1>7, <1>8, <1>9, <1>10, MovedInv

\* The user is asked once more, if the modem is still locked.
LEMMA UnlockAgainInv ==
  ASSUME WwInv(st), NEW i \in Ww!UnlockIds, Ww!UnlockAgain(i)
  PROVE  WwInv(st')
<1> DEFINE d == st.tasks[i].device
           s == [st EXCEPT !.prompt_timeout_id = 0]
<1>1. /\ st \in Unlockers /\ Listed(st, {}) /\ Active(st, i) /\ ~Asking(st, i)
      /\ st.loops \in Seq(Ww!UnlockIds)
  BY DEF WwInv, WwBut, Listed, Unlockers, Ww!UnlockAgain, Active, Asking
<1>2. \/ st' = Ww!Stage([s EXCEPT !.tasks[i].cancelled = TRUE], i, "returned")
      \/ Ww!Locked(s, s.tasks[i].device) /\ \E opened \in Ww!Opened : st' = Ww!UnlockDevice(s, i, opened)
  BY DEF Ww!UnlockAgain
<1>3. /\ s \in Unlockers /\ SameLists(st, s) /\ s.tasks = st.tasks /\ s.loops = st.loops
      /\ s.unlocking_device = st.unlocking_device
  <2>1. 0 \in 0 .. MaxUnlocks
    BY SessionAssumption
  <2>2. s \in Unlockers
    BY <1>1, <2>1 DEF Unlockers
  <2> QED
    BY <1>1, <2>2 DEF Unlockers, SameLists
<1> HIDE DEF s
<1>4. LoopsBut(st, i)
  BY <1>1, NoLoop DEF WwInv, WwBut
<1>5. CASE st' = Ww!Stage([s EXCEPT !.tasks[i].cancelled = TRUE], i, "returned")
  <2>1. /\ st' \in Unlockers /\ SameLists(s, st')
        /\ st'.unlocking_device = s.unlocking_device /\ st'.loops = s.loops
        /\ st'.tasks[i].device = s.tasks[i].device /\ st'.tasks[i].stage = "returned"
        /\ \A j \in Ww!UnlockIds : j # i => st'.tasks[j] = s.tasks[j]
    BY <1>3, <1>5, GivenUpOps
  <2>2. SameLists(st, st') /\ ~Asking(st', i)
    BY <1>3, <2>1 DEF SameLists, Asking
  <2>3. Calm(st) => OneTask(st')
    BY <1>1, <1>3, <2>1, StillOne DEF WwInv, WwBut
  <2> QED
    BY <1>1, <1>3, <1>4, <2>1, <2>2, <2>3, MovedInv
<1>6. CASE Ww!Locked(s, s.tasks[i].device) /\ \E opened \in Ww!Opened : st' = Ww!UnlockDevice(s, i, opened)
  <2>1. PICK opened \in Ww!Opened : st' = Ww!UnlockDevice(s, i, opened)
    BY <1>6
  <2>2. opened \in BOOLEAN /\ ("no_prompt" \notin st.may => opened)
    BY OpenedOps
  <2> DEFINE t == Ww!UnlockDevice(s, i, opened)
  <2>3. /\ t \in Unlockers /\ SameLists(s, t) /\ t.tasks[i].device = s.tasks[i].device
        /\ \A j \in Ww!UnlockIds : j # i => t.tasks[j] = s.tasks[j]
        /\ \/ t.loops = s.loops /\ ~Asking(t, i)
           \/ t.loops = Append(s.loops, i) /\ Asking(t, i)
        /\ Ww!Locked(s, s.tasks[i].device) /\ opened => t.unlocking_device = s.tasks[i].device
    BY <1>3, <1>6, <2>2, UnlockDeviceOps
  <2>4. st' = t
    BY <2>1
  <2> HIDE DEF t
  <2>5. SameLists(st, st')
    BY <1>3, <2>3, <2>4 DEF SameLists
  <2>6. ASSUME Calm(st) PROVE OneTask(st')
    <3>1. OneTask(st) /\ opened
      BY <2>2, <2>6 DEF WwInv, WwBut, Calm
    <3>2. st.tasks[i].device = st.unlocking_device
      BY <1>1, <3>1 DEF OneTask
    <3>3. st'.unlocking_device = st.unlocking_device
      BY <1>3, <1>6, <2>3, <2>4, <3>1, <3>2
    <3> QED
      BY <1>1, <1>3, <2>3, <2>4, <3>1, <3>3, StillOne
  <2> QED
    BY <1>1, <1>3, <1>4, <2>3, <2>4, <2>5, <2>6, MovedInv
<1> QED
  BY <1>2, <1>5, <1>6

\* The task is over, and the next modem's turn has come.
LEMMA UnlockDeviceDoneInv ==
  ASSUME WwInv(st), NEW i \in Ww!UnlockIds, Ww!UnlockDeviceDone(i)
  PROVE  WwInv(st')
<1> DEFINE d    == st.tasks[i].device
           u    == Ww!Stage(st, i, "over")
           t    == Ww!ClearTimeout(u)
           list == Ww!Without(st.devices_to_unlock, d)
           devices == IF d \in Waits(st) THEN st.devices \cup {d} ELSE st.devices
           forgotten == st.forgotten /\ Ww!UnderWay(t) # {}
           s    == [t EXCEPT !.devices = devices, !.devices_to_unlock = list, !.puk_code = FALSE,
                             !.prompt = FALSE, !.cancellable = 0, !.unlocking_device = Ww!NoModem,
                             !.forgotten = forgotten]
           next == Head(Ww!Waiting(s))
<1>1. st \in Unlockers /\ Listed(st, {}) /\ Active(st, i) /\ ~Asking(st, i)
  BY DEF WwInv, WwBut, Listed, Ww!UnlockDeviceDone, Active, Asking
<1>2. /\ u \in Unlockers /\ SameLists(st, u) /\ u.loops = st.loops
      /\ u.tasks[i].stage = "over"
      /\ \A j \in Ww!UnlockIds : j # i => u.tasks[j] = st.tasks[j]
  BY <1>1, StageOps DEF Ww!UnlockStages
<1>3. /\ t \in Unlockers /\ SameLists(st, t) /\ t.loops = st.loops
      /\ \A j \in Ww!UnlockIds : /\ Asking(t, j) <=> Asking(u, j)
                                 /\ Active(t, j) => Active(u, j)
  <2> HIDE DEF u
  <2> DEFINE cleared(j) == IF j = u.prompt_timeout_id /\ u.tasks[j].stage = "waiting"
                           THEN [u.tasks[j] EXCEPT !.stage = "over"] ELSE u.tasks[j]
             tasks == [j \in Ww!UnlockIds |-> cleared(j)]
  <2>1. t = [u EXCEPT !.prompt_timeout_id = 0, !.tasks = tasks]
    BY <1>2 DEF Ww!ClearTimeout, Unlockers
  <2>2. ASSUME NEW j \in Ww!UnlockIds
        PROVE  /\ cleared(j) \in Tasks
               /\ cleared(j).stage = u.tasks[j].stage \/ (cleared(j).stage = "over" /\ u.tasks[j].stage = "waiting")
    <3>1. u.tasks[j] \in Tasks /\ [u.tasks[j] EXCEPT !.stage = "over"] \in Tasks
          /\ [u.tasks[j] EXCEPT !.stage = "over"].stage = "over"
      BY <1>2 DEF Unlockers, Tasks, Ww!UnlockStages
    <3> QED
      BY <3>1
  <2> HIDE DEF cleared
  <2>3. tasks \in [Ww!UnlockIds -> Tasks] /\ \A j \in Ww!UnlockIds : tasks[j] = cleared(j)
    BY <2>2
  <2> HIDE DEF tasks
  <2>4. 0 \in 0 .. MaxUnlocks
    BY SessionAssumption
  <2> HIDE DEF t
  <2>5. /\ t \in Unlockers /\ SameLists(st, t) /\ t.loops = st.loops /\ t.tasks = tasks
    BY <1>2, <2>1, <2>3, <2>4 DEF Unlockers, SameLists
  <2>6. \A j \in Ww!UnlockIds : /\ Asking(t, j) <=> Asking(u, j)
                                /\ Active(t, j) => Active(u, j)
    BY <2>2, <2>3, <2>5 DEF Asking, Active
  <2> QED
    BY <2>5, <2>6
<1>4. PICK opened \in Ww!Opened :
        st' = IF Ww!Waiting(s) = <<>> THEN s ELSE Ww!UnlockRequired(s, next, opened)
  <2>1. s = [t EXCEPT !.devices = IF d \in Ww!ToSet(Ww!Waiting(st)) THEN @ \cup {d} ELSE @,
                      !.devices_to_unlock = Ww!Without(@, d), !.puk_code = FALSE, !.prompt = FALSE,
                      !.cancellable = 0, !.unlocking_device = Ww!NoModem,
                      !.forgotten = @ /\ Ww!UnderWay(t) # {}]
    <3> HIDE DEF t
    <3> QED
      BY <1>3 DEF Unlockers, SameLists, Waits, Ww!Waiting
  <2> HIDE DEF s
  <2> QED
    BY <2>1 DEF Ww!UnlockDeviceDone
<1>5. opened \in BOOLEAN /\ ("no_prompt" \notin st.may => opened)
  BY OpenedOps
<1>6. \A j \in Ww!UnlockIds : /\ Asking(t, j) <=> Asking(st, j)
                              /\ Active(t, j) => Active(st, j) /\ j # i
  <2> HIDE DEF t, u
  <2> QED
    BY <1>1, <1>2, <1>3 DEF Asking, Active
<1>7. list \in Seq(Modems) /\ Ww!ToSet(list) = Waits(st) \ {d} /\ Ww!IsInjective(list)
  BY <1>1, WithoutIt DEF Listed, Waits, Unlockers
<1>8. Waits(st) \subseteq Modems
  BY <1>1 DEF Listed, Unlockers
<1>9. devices \subseteq Modems
  BY <1>1, <1>8 DEF Unlockers
<1>10. devices \cap (Waits(st) \ {d}) = {} /\ devices \cup (Waits(st) \ {d}) = st.present
  BY <1>1 DEF Listed
<1>11. forgotten \in BOOLEAN
  BY <1>1 DEF Unlockers
<1>12. ~forgotten => ~st.forgotten \/ \A j \in Ww!UnlockIds : ~Active(t, j)
  BY DEF Ww!UnderWay, Active
<1> HIDE DEF t, u, list, devices, forgotten
<1>13. /\ s \in Unlockers /\ s.may = st.may /\ s.present = st.present /\ s.lock = st.lock
       /\ s.devices = devices /\ s.devices_to_unlock = list /\ s.loops = st.loops /\ s.tasks = t.tasks
       /\ s.unlocking_device = Ww!NoModem /\ s.forgotten = forgotten
  <2>1. 0 \in 0 .. MaxUnlocks /\ devices \in SUBSET Modems /\ list \in Seq(Modems)
    BY <1>7, <1>9, SessionAssumption
  <2>2. s \in Unlockers
    BY <1>3, <1>11, <2>1 DEF Unlockers
  <2> QED
    BY <1>3, <2>2 DEF Unlockers, SameLists
<1> HIDE DEF s
<1>14. Waits(s) = Waits(st) \ {d}
  BY <1>7, <1>13 DEF Waits
<1>15. Listed(s, {})
  <2>1. \A e \in Waits(s) : Ww!Locked(s, e)
    BY <1>1, <1>13, <1>14 DEF Listed, Ww!Locked
  <2> QED
    BY <1>7, <1>10, <1>13, <1>14, <2>1 DEF Listed
<1>16. LoopsAsk(s)
  <2>1. \A j \in Ww!UnlockIds : Asking(s, j) <=> Asking(st, j)
    BY <1>6, <1>13 DEF Asking
  <2> QED
    BY <1>13, <2>1, SameLoops DEF WwInv, WwBut
<1>17. ASSUME Calm(s) PROVE OneTask(s)
  <2>1. \A j \in Ww!UnlockIds : ~Active(t, j)
    <3>1. CASE ~st.forgotten
      <4>1. OneTask(st)
        BY <1>13, <1>17, <3>1 DEF WwInv, WwBut, Calm
      <4> QED
        BY <1>1, <1>6, <4>1 DEF OneTask
    <3>2. CASE \A j \in Ww!UnlockIds : ~Active(t, j)
      BY <3>2
    <3> QED
      BY <1>12, <1>13, <1>17, <3>1, <3>2 DEF Calm
  <2> QED
    BY <1>13, <2>1 DEF OneTask, Active
<1>18. WwInv(s)
  BY <1>15, <1>16, <1>17 DEF WwInv, WwBut
<1>19. Ww!Waiting(s) # <<>> => next \in s.present
  <2>1. Ww!Waiting(s) # <<>> => next \in Waits(s)
    BY <1>13, Tailed DEF Unlockers, Ww!Waiting, Waits, Ww!ToSet
  <2> QED
    BY <1>15, <2>1 DEF Listed
<1>20. WwBut(s, {next})
  BY <1>18 DEF WwInv, WwBut, Listed
<1> HIDE DEF next
<1> QED
  BY <1>4, <1>5, <1>13, <1>18, <1>19, <1>20, UnlockRequiredInv

LEMMA WwNextInv == ASSUME WwInv(st), [Ww!WwNext]_st PROVE WwInv(st')
<1>1. CASE UNCHANGED st
  BY <1>1
<1> QED
  BY <1>1, ObjectAddedInv, ObjectRemovedInv, LockChangesInv, NameOwnerChangedInv, SetUnlockSimInv,
     PromptAnsweredInv, PasswordSentInv, UnlockAgainInv, UnlockDeviceDoneInv DEF Ww!WwNext

\* What is promised follows.
LEMMA OnePromptInv == ASSUME WwInv(st) PROVE Ww!OnePromptAtATime /\ Ww!ListsArePartition
<1>1. Ww!ListsArePartition
  BY DEF WwInv, WwBut, Listed, Waits, Ww!ListsArePartition
<1>2. ASSUME OneTask(st) PROVE Len(st.loops) <= 1
  <2>1. st.loops \in Seq(Ww!UnlockIds)
    BY DEF WwInv, WwBut, Listed, Unlockers
  <2>2. \A k \in DOMAIN st.loops : st.loops[k] \in Ww!UnlockIds /\ Active(st, st.loops[k])
    <3>1. \A k \in DOMAIN st.loops : st.loops[k] \in Ww!UnlockIds /\ st.loops[k] \in Ww!ToSet(st.loops)
      BY <2>1 DEF Ww!ToSet
    <3> QED
      BY <3>1 DEF WwInv, WwBut, LoopsAsk, Asking, Active
  <2>3. \A k, l \in DOMAIN st.loops : k = l
    BY <1>2, <2>2 DEF OneTask, WwInv, WwBut, LoopsAsk, Ww!IsInjective
  <2>4. DOMAIN st.loops = 1 .. Len(st.loops) /\ Len(st.loops) \in Nat
    BY <2>1
  <2>5. CASE Len(st.loops) >= 2
    <3>1. 1 \in DOMAIN st.loops /\ 2 \in DOMAIN st.loops
      BY <2>4, <2>5
    <3>2. 1 = 2
      BY <2>3, <3>1
    <3> QED
      BY <3>2
  <2> QED
    BY <2>4, <2>5
<1> QED
  BY <1>1, <1>2 DEF WwInv, WwBut, Calm, Ww!OnePromptAtATime

\* The user is asked for the codes of one modem at a time
\* (gsd-wwan-manager.c: wwan_manager_ensure_unlocking, wwan_manager_show_prompt),
\* as long as a prompt can be had and nothing is under way that ModemManager has
\* left behind; a modem that is there waits in one list or the other, never in
\* both and never twice, and one that waits to be unlocked has a lock.
THEOREM OnePromptCorrect == SessionSpec => []OnePromptAtATime
<1> DEFINE Inv == daemon = "wwan" => WwInv(st)
<1>1. SessionInit => Inv
  <2> SUFFICES ASSUME Ww!WwInit PROVE WwInv(st)
    BY DEF SessionInit
  <2> DEFINE task  == [stage |-> "new", device |-> Ww!NoModem, lock |-> "none", cancelled |-> FALSE]
             tasks == [i \in Ww!UnlockIds |-> task]
             locks == [d \in Modems |-> "none"]
  <2>1. PICK may \in WwWorlds, unlock \in BOOLEAN :
          st = [may |-> may, unlock |-> unlock, mm1_running |-> TRUE,
                lock |-> locks, present |-> {}, gone |-> {}, devices |-> {}, devices_to_unlock |-> <<>>,
                prompt |-> FALSE, unlocking_device |-> Ww!NoModem, cancellable |-> 0,
                prompt_timeout_id |-> 0, puk_code |-> FALSE, tasks |-> tasks,
                loops |-> <<>>, sent |-> 0, forgotten |-> FALSE]
    BY DEF Ww!WwInit
  <2>2. task \in Tasks
    BY DEF Tasks, Ww!UnlockStages, Ww!Locks
  <2>3. /\ tasks \in [Ww!UnlockIds -> Tasks] /\ \A i \in Ww!UnlockIds : tasks[i].stage = "new"
        /\ locks \in [Modems -> Ww!Locks]
    BY <2>2 DEF Ww!Locks
  <2>4. <<>> \in Seq(Modems) /\ <<>> \in Seq(Ww!UnlockIds) /\ 0 \in 0 .. MaxUnlocks /\ 0 \in 0 .. MaxCodes
    BY SessionAssumption
  <2> HIDE DEF task, tasks, locks
  <2>5. st \in Unlockers
    BY <2>1, <2>3, <2>4 DEF Unlockers
  <2>6. Waits(st) = {} /\ Ww!IsInjective(st.devices_to_unlock)
        /\ Ww!ToSet(st.loops) = {} /\ Ww!IsInjective(st.loops)
    BY <2>1 DEF Waits, Ww!ToSet, Ww!IsInjective
  <2>7. \A i \in Ww!UnlockIds : ~Active(st, i) /\ ~Asking(st, i)
    BY <2>1, <2>3 DEF Active, Asking
  <2>8. st.devices = {} /\ st.present = {}
    BY <2>1
  <2> QED
    BY <2>5, <2>6, <2>7, <2>8 DEF WwInv, WwBut, Listed, LoopsAsk, OneTask
<1>2. Inv /\ [SessionNext]_vars => Inv'
  <2> SUFFICES ASSUME Inv, [SessionNext]_vars, (daemon = "wwan")' PROVE WwInv(st')
    OBVIOUS
  <2>1. daemon = "wwan" /\ [Ww!WwNext]_st
    BY DEF SessionNext, Of, vars
  <2> QED
    BY <2>1, WwNextInv
<1>3. Inv => OnePromptAtATime
  BY OnePromptInv DEF OnePromptAtATime
<1> QED
  BY <1>1, <1>2, <1>3, PTL DEF SessionSpec

==============================================================================
