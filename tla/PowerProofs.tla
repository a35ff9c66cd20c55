------------------------------ MODULE PowerProofs ------------------------------
(***************************************************************************)
(* Theorems about gsd-power, for every keyboard range, every set of        *)
(* settings, inhibitors and scenarios, every guint range and every kind of *)
(* machine.  First the idle machine, PowerIdle: its type and what it never    *)
(* does; that it implements IdleLadder, that its devices show what its mode  *)
(* says, that nothing lights up an idle machine without a reason and that     *)
(* idleness costs no keyboard level; that no idle watch is a leftover and the *)
(* sleep warning is true.  Then the daemon as a whole, PowerManager.        *)
(***************************************************************************)
EXTENDS PowerManager, FiniteSetTheorems, Sequences, TLAPS

-------------------------------------------------------------------------------
(* The brightness arithmetic stays in its range.                           *)

LEMMA DivBounds ==
  ASSUME NEW a \in Nat, NEW b \in Nat \ {0}, NEW q \in Nat, a < (q + 1) * b
  PROVE  a \div b \in 0..q
  OBVIOUS

LEMMA ModNat ==
  ASSUME NEW a \in Int, NEW b \in Nat \ {0}
  PROVE  a % b \in Nat
  OBVIOUS

\* A percentage of the range is a level of the range.
LEMMA PercentageIsLevel ==
  ASSUME NEW v \in 0..100
  PROVE  PercentageToAbs(0, KbdMax, v) \in KbdLevels
<1>1. KbdMax \in Nat \ {0}
  BY KbdAssumption
<1>2. v * KbdMax <= 100 * KbdMax /\ v * KbdMax \in Nat
  BY <1>1
<1>3. v * KbdMax + 50 \in Nat /\ v * KbdMax + 50 < (KbdMax + 1) * 100
  BY <1>1, <1>2
<1>4. (v * KbdMax + 50) \div 100 \in 0..KbdMax
  BY <1>1, <1>3, DivBounds
<1>5. 100 \div 2 = 50
  OBVIOUS
<1> QED
  BY <1>1, <1>4, <1>5 DEF PercentageToAbs, ConvertSafe, KbdLevels

\* A level of the range is a percentage.
LEMMA LevelIsPercentage ==
  ASSUME NEW level \in KbdLevels
  PROVE  AbsToPercentage(0, KbdMax, level) \in 0..100
<1>1. KbdMax \in Nat \ {0} /\ level \in 0..KbdMax
  BY KbdAssumption DEF KbdLevels
<1>2. KbdMax \div 2 \in Nat /\ KbdMax \div 2 < KbdMax
  BY <1>1
<1>3. level * 100 + KbdMax \div 2 \in Nat
  BY <1>1, <1>2
<1>4. level * 100 + KbdMax \div 2 < (100 + 1) * KbdMax
  BY <1>1, <1>2
<1>5. (level * 100 + KbdMax \div 2) \div KbdMax \in 0..100
  BY <1>1, <1>3, <1>4, DivBounds
<1> QED
  BY <1>1, <1>5 DEF AbsToPercentage, ConvertSafe

-------------------------------------------------------------------------------
(* The keyboard helpers map records to records.                            *)

LEMMA KbdOpsType ==
  ASSUME NEW k \in KbdRecords, NEW a \in BOOLEAN, NEW b \in BOOLEAN,
         NEW level \in KbdLevels
  PROVE  /\ KbdSet(k, level, a) \in KbdRecords
         /\ KbdToggle(k, a) \in KbdRecords
         /\ KbdDim(k, a) \in KbdRecords
         /\ KbdBlank(k, a) \in KbdRecords
         /\ KbdWake(k, a, b) \in KbdRecords
<1>1. ASSUME NEW j \in KbdRecords, NEW x \in KbdLevels, NEW ok \in BOOLEAN
      PROVE  KbdSet(j, x, ok) \in KbdRecords
  BY <1>1 DEF KbdSet, KbdRecords
<1>2. 0 \in KbdLevels /\ NoLevel \notin KbdLevels
  BY KbdAssumption DEF KbdLevels, NoLevel
<1>3. ASSUME NEW j \in KbdRecords, NEW ok \in BOOLEAN
      PROVE  KbdToggle(j, ok) \in KbdRecords
  <2>1. CASE j.old # NoLevel
    <3>1. j.old \in KbdLevels
      BY <2>1 DEF KbdRecords
    <3>2. KbdSet(j, j.old, ok) \in KbdRecords
      BY <1>1, <3>1
    <3>3. [KbdSet(j, j.old, ok) EXCEPT !.old = NoLevel] \in KbdRecords
      BY <3>2 DEF KbdRecords
    <3> QED
      BY <2>1, <3>3 DEF KbdToggle
  <2>2. CASE j.old = NoLevel
    <3>1. KbdSet(j, 0, ok) \in KbdRecords
      BY <1>1, <1>2
    <3>2. j.now \in KbdLevels
      BY DEF KbdRecords
    <3>3. [KbdSet(j, 0, ok) EXCEPT !.old = j.now] \in KbdRecords
      BY <3>1, <3>2 DEF KbdRecords
    <3> QED
      BY <2>2, <3>3 DEF KbdToggle
  <2> QED
    BY <2>1, <2>2
<1>4. KbdDim(k, a) \in KbdRecords
  <2> DEFINE idle == PercentageToAbs(0, KbdMax, KbdIdle)
  <2>1. idle \in KbdLevels
    BY KbdAssumption, PercentageIsLevel
  <2>2. KbdSet(k, idle, a) \in KbdRecords /\ k.now \in KbdLevels
    BY <1>1, <2>1 DEF KbdRecords
  <2> HIDE DEF idle
  <2>3. [KbdSet(k, idle, a) EXCEPT !.pre_dim = k.now] \in KbdRecords
    BY <2>2 DEF KbdRecords
  <2> QED
    BY <2>3 DEF KbdDim, idle
<1>5. KbdWake(k, a, b) \in KbdRecords
  <2> DEFINE t == IF HasKbd /\ k.old # NoLevel THEN KbdToggle(k, a) ELSE k
  <2>1. t \in KbdRecords
    BY <1>3
  <2> HIDE DEF t
  <2>2. CASE t.pre_dim # NoLevel
    <3>1. t.pre_dim \in KbdLevels
      BY <2>1, <2>2 DEF KbdRecords
    <3>2. KbdSet(t, t.pre_dim, b) \in KbdRecords
      BY <1>1, <2>1, <3>1
    <3> QED
      BY <2>2, <3>2 DEF KbdWake, KbdRecords, t
  <2>3. CASE t.pre_dim = NoLevel
    BY <2>1, <2>3 DEF KbdWake, t
  <2> QED
    BY <2>2, <2>3
<1> QED
  BY <1>1, <1>3, <1>4, <1>5 DEF KbdBlank

-------------------------------------------------------------------------------
(* What the helpers read has the type the watches need.                    *)

LEMMA ReadersType ==
  ASSUME NEW p \in Managers, NEW e \in Environments
  PROVE  /\ SleepType(e) \in ActionTypes
         /\ SleepTimeout(e) \in Nat
         /\ DimTimeout(p, e) \in Nat
         /\ ShouldClaimLight(p, e) \in BOOLEAN
<1>1. e.settings \in SettingRecords /\ e.source \in Sources
  BY IdleAssumption DEF Environments
<1>2. SleepType(e) \in ActionTypes /\ e.settings.timeout[e.source] \in Int
      /\ e.settings.idle_delay \in Nat /\ e.settings.idle_dim \in BOOLEAN
      /\ e.settings.ambient \in BOOLEAN
  BY <1>1 DEF SettingRecords, SleepType
<1>3. SleepTimeout(e) \in Nat
  BY <1>2 DEF SleepTimeout
<1>4. DimTimeout(p, e) \in Nat
  <2>1. e.settings.idle_delay \div 2 \in Nat
    BY <1>2
  <2> QED
    BY <1>2, <2>1 DEF DimTimeout, SCREENSAVER_TIMEOUT_BLANK,
                      IDLE_DIM_BLANK_DISABLED_MIN, Managers
<1>5. ShouldClaimLight(p, e) \in BOOLEAN
  BY <1>2 DEF ShouldClaimLight, Managers, Environments
<1> QED
  BY <1>2, <1>3, <1>4, <1>5

LEMMA MsecType ==
  ASSUME NEW n \in Nat
  PROVE  Msec(n) \in Nat /\ WarningMsec(n) \in Nat
<1>1. (n * 1000) % GuintRange \in Nat /\ (n * 500) % GuintRange \in Nat
  BY IdleAssumption, ModNat
<1> QED
  BY <1>1 DEF Msec, WarningMsec

-------------------------------------------------------------------------------
(* The helpers map states to states.                                       *)

LEMMA LightType ==
  ASSUME NEW s \in State
  PROVE  /\ MaybeClaimLight(s) \in State
         /\ EnableMonitors(s) \in State
         /\ DisableMonitors(s) \in State
         /\ DoPowerAction(s) \in State
<1>1. ASSUME NEW t \in State
      PROVE  MaybeClaimLight(t) \in State
  <2>1. t.p \in Managers /\ t.e \in Environments
    BY DEF State
  <2>2. ShouldClaimLight(t.p, t.e) \in BOOLEAN
    BY <2>1, ReadersType
  <2>3. ASSUME NEW x \in BOOLEAN, NEW y \in BOOLEAN
        PROVE  [t EXCEPT !.p.light_claimed = y, !.e.sensor_claimed = x] \in State
    BY <2>1 DEF State, Managers, Environments
  <2>4. (~t.p.light_claimed) \in BOOLEAN
    OBVIOUS
  <2>5. [t EXCEPT !.p.light_claimed = ~@,
                  !.e.sensor_claimed = ShouldClaimLight(t.p, t.e)] \in State
    BY <2>2, <2>3, <2>4
  <2> QED
    BY <2>5 DEF MaybeClaimLight
<1>2. ASSUME NEW x \in BOOLEAN
      PROVE  [s EXCEPT !.p.screen_blanked = x] \in State
  BY DEF State, Managers, Environments
<1> QED
  BY <1>1, <1>2 DEF EnableMonitors, DisableMonitors, DoPowerAction

\* What UPower can answer in any scenario.
KbdReplies == [toggle : BOOLEAN, set : BOOLEAN]

LEMMA RepliesType ==
  Replies \subseteq KbdReplies
<1>1. {Accepted} \subseteq KbdReplies
  BY DEF Accepted, KbdReplies
<1> QED
  BY <1>1 DEF Replies, KbdReplies

LEMMA EnterModeType ==
  ASSUME NEW s \in State, NEW mode \in IdleModes, NEW r \in KbdReplies
  PROVE  EnterMode(s, mode, r) \in State
<1>1. r.set \in BOOLEAN /\ r.toggle \in BOOLEAN
  BY DEF KbdReplies
<1>2. ASSUME NEW t \in State, NEW k \in KbdRecords
      PROVE  [t EXCEPT !.p.kbd = k] \in State
  BY DEF State, Managers, Environments
<1>3. ASSUME NEW t \in State
      PROVE  t.p.kbd \in KbdRecords
  BY DEF State, Managers
<1>4. 0 \in KbdLevels
  BY KbdAssumption DEF KbdLevels
<1>5. CASE mode = DIM
  <2>1. KbdDim(s.p.kbd, r.set) \in KbdRecords
    BY <1>1, <1>3, <1>4, KbdOpsType
  <2>2. [s EXCEPT !.p.kbd = KbdDim(s.p.kbd, r.set), !.e.dimming = TRUE] \in State
    BY <2>1 DEF State, Managers, Environments
  <2>3. EnterMode(s, mode, r)
          = [s EXCEPT !.p.kbd = KbdDim(s.p.kbd, r.set), !.e.dimming = TRUE]
    BY <1>5 DEF EnterMode, DIM, BLANK, SLEEP, NORMAL
  <2> QED
    BY <2>2, <2>3
<1>6. CASE mode = BLANK
  <2>1. DisableMonitors(s) \in State
    BY LightType
  <2>2. KbdBlank(DisableMonitors(s).p.kbd, r.toggle) \in KbdRecords
    BY <1>1, <1>3, <1>4, <2>1, KbdOpsType
  <2>3. EnterMode(s, mode, r)
          = [DisableMonitors(s) EXCEPT !.p.kbd = KbdBlank(DisableMonitors(s).p.kbd, r.toggle)]
    BY <1>6 DEF EnterMode, DIM, BLANK, SLEEP, NORMAL
  <2> QED
    BY <1>2, <2>1, <2>2, <2>3
<1>7. CASE mode = SLEEP
  <2>1. EnterMode(s, mode, r) = DoPowerAction(s)
    BY <1>7 DEF EnterMode, DIM, BLANK, SLEEP, NORMAL
  <2> QED
    BY <2>1, LightType
<1>8. CASE mode = NORMAL
  <2> DEFINE n == EnableMonitors(s)
  <2>1. n \in State
    BY LightType
  <2>2. KbdWake(n.p.kbd, r.toggle, r.set) \in KbdRecords
    BY <1>1, <1>3, <1>4, <2>1, KbdOpsType
  <2> HIDE DEF n
  <2>3. ASSUME NEW k \in KbdRecords
        PROVE  [n EXCEPT !.e.dimming = FALSE, !.p.kbd = k] \in State
    BY <2>1 DEF State, Managers, Environments
  <2>4. [n EXCEPT !.e.dimming = FALSE, !.p.kbd = KbdWake(n.p.kbd, r.toggle, r.set)] \in State
    BY <2>2, <2>3
  <2> QED
    BY <1>8, <2>4 DEF EnterMode, DIM, BLANK, SLEEP, NORMAL, n
<1> QED
  BY <1>5, <1>6, <1>7, <1>8 DEF IdleModes, NORMAL, DIM, BLANK, SLEEP

\* Fields of the daemon set one at a time.
LEMMA FieldsType ==
  ASSUME NEW s \in State, NEW b \in BOOLEAN, NEW mode \in IdleModes
  PROVE  /\ [s EXCEPT !.p.current_idle_mode = mode] \in State
         /\ [s EXCEPT !.p.previous_idle_mode = mode] \in State
         /\ [s EXCEPT !.p.temporary_unidle = b] \in State
         /\ [s EXCEPT !.p.user_active_id = b] \in State
         /\ [s EXCEPT !.p.notification = b] \in State
         /\ [s EXCEPT !.p.session_is_active = b] \in State
         /\ [s EXCEPT !.p.screensaver_active = b] \in State
         /\ [s EXCEPT !.p.lid_is_closed = b] \in State
         /\ [s EXCEPT !.p.battery_is_low = b] \in State
         /\ [s EXCEPT !.p.power_saver_enabled = b] \in State
  BY DEF State, Managers

LEMMA IdleSetModeType ==
  ASSUME NEW s \in State, NEW mode \in IdleModes, NEW r \in KbdReplies
  PROVE  IdleSetMode(s, mode, r) \in State
<1> DEFINE watched == [s EXCEPT !.p.user_active_id = @ \/ mode # NORMAL]
<1>1. watched \in State
  <2>1. (s.p.user_active_id \/ mode # NORMAL) \in BOOLEAN
    OBVIOUS
  <2> QED
    BY <2>1, FieldsType
<1> HIDE DEF watched
<1>2. EnterMode(watched, mode, r) \in State
  BY <1>1, EnterModeType
<1>3. [EnterMode(watched, mode, r) EXCEPT !.p.current_idle_mode = mode] \in State
  BY <1>2, FieldsType
<1> QED
  BY <1>1, <1>3 DEF IdleSetMode, watched

LEMMA UnidleType ==
  ASSUME NEW s \in State, NEW b \in BOOLEAN, NEW mode \in IdleModes,
         NEW r \in KbdReplies
  PROVE  /\ IdleSetModeNoTemp(s, mode, r) \in State
         /\ SetTemporaryUnidle(s, b, r) \in State
         /\ UpdateTemporaryUnidle(s, r) \in State
<1>1. NORMAL \in IdleModes /\ s.p.current_idle_mode \in IdleModes
  BY DEF NORMAL, SLEEP, IdleModes, State, Managers
<1>2. IdleSetModeNoTemp(s, mode, r) \in State
  BY IdleSetModeType, FieldsType DEF IdleSetModeNoTemp
<1>3. ASSUME NEW x \in BOOLEAN
      PROVE  SetTemporaryUnidle(s, x, r) \in State
  <2> DEFINE n == [s EXCEPT !.p.previous_idle_mode = s.p.current_idle_mode]
  <2>1. n \in State
    BY <1>1, FieldsType
  <2> HIDE DEF n
  <2>2. IdleSetMode(n, NORMAL, r) \in State
    BY <1>1, <2>1, IdleSetModeType
  <2>3. [IdleSetMode(n, NORMAL, r) EXCEPT !.p.temporary_unidle = TRUE] \in State
    BY <2>2, FieldsType
  <2>4. [s EXCEPT !.p.temporary_unidle = FALSE] \in State
    BY FieldsType
  <2> QED
    BY <2>3, <2>4 DEF SetTemporaryUnidle, n
<1>4. ShouldSetTemporaryUnidle(s.p) \in BOOLEAN
  BY DEF ShouldSetTemporaryUnidle
<1> QED
  BY <1>2, <1>3, <1>4 DEF UpdateTemporaryUnidle

LEMMA SetWatchType ==
  ASSUME NEW s \in State, NEW w \in Watches, NEW b \in BOOLEAN, NEW n \in Nat
  PROVE  SetWatch(s, w, b, n) \in State
<1> DEFINE x == IF b THEN "armed" ELSE "none"
           y == IF b THEN n ELSE 0
<1>1. x \in WatchStates /\ y \in Nat
  BY DEF WatchStates
<1> HIDE DEF x, y
<1>2. [s EXCEPT !.p.watch[w] = x, !.p.after[w] = y] \in State
  BY <1>1 DEF State, Managers
<1> QED
  BY <1>2 DEF SetWatch, x, y

LEMMA ConfigureType ==
  ASSUME NEW s \in State, NEW r \in KbdReplies
  PROVE  /\ StandDown(s, r) \in State
         /\ ConfigureSleep(s) \in State
         /\ ConfigureDim(s) \in State
         /\ IdleConfigure(s, r) \in State
<1>1. {"dim", "blank", "sleep", "warning"} \subseteq Watches /\ NORMAL \in IdleModes
  BY DEF Watches, IdleModes, NORMAL, SLEEP
<1>2. ASSUME NEW t \in State
      PROVE  StandDown(t, r) \in State
  <2> DEFINE n == IdleSetMode(t, NORMAL, r)
             c == SetWatch(SetWatch(SetWatch(n, "sleep", FALSE, 0), "dim", FALSE, 0),
                           "warning", FALSE, 0)
             d == [c EXCEPT !.p.notification = FALSE]
  <2>1. n \in State
    BY <1>1, IdleSetModeType
  <2> HIDE DEF n
  <2>2. c \in State
    BY <1>1, <2>1, SetWatchType
  <2> HIDE DEF c
  <2>3. d \in State
    BY <1>1, <2>2, FieldsType
  <2> HIDE DEF d
  <2>4. SetTemporaryUnidle(d, FALSE, r) \in State
    BY <1>1, <2>3, UnidleType
  <2> QED
    BY <2>4 DEF StandDown, n, c, d
<1>3. ASSUME NEW t \in State
      PROVE  ConfigureSleep(t) \in State
  <2> DEFINE action  == SleepType(t.e)
             timeout == SleepTimeout(t.e)
             warns   == timeout # 0 /\ action \in {"logout", "suspend", "hibernate"}
             wanted  == timeout # 0 /\ action # "nothing"
             sleep   == SetWatch(t, "sleep", wanted, Msec(timeout))
             warned  == SetWatch(sleep, "warning", warns, WarningMsec(timeout))
  <2>1. action \in ActionTypes /\ timeout \in Nat /\ warns \in BOOLEAN /\ wanted \in BOOLEAN
    BY ReadersType DEF State
  <2>2. Msec(timeout) \in Nat /\ WarningMsec(timeout) \in Nat
    BY <2>1, MsecType
  <2> HIDE DEF action, timeout, warns, wanted
  <2>3. sleep \in State
    BY <1>1, <2>1, <2>2, SetWatchType
  <2> HIDE DEF sleep
  <2>4. warned \in State
    BY <1>1, <2>1, <2>2, <2>3, SetWatchType
  <2> HIDE DEF warned
  <2>5. warned.p.sleep_action_type \in ActionTypes /\ (warned.p.notification /\ warns) \in BOOLEAN
    BY <2>4 DEF State, Managers
  <2>6. ASSUME NEW a \in ActionTypes, NEW b \in BOOLEAN
        PROVE  [warned EXCEPT !.p.sleep_action_type = a, !.p.notification = b] \in State
    BY <2>4 DEF State, Managers
  <2>7. [warned EXCEPT !.p.sleep_action_type = IF warns THEN action ELSE @,
                       !.p.notification = @ /\ warns] \in State
    BY <2>1, <2>5, <2>6
  <2> QED
    BY <2>7 DEF ConfigureSleep, action, timeout, warns, wanted, sleep, warned
<1>4. ASSUME NEW t \in State
      PROVE  ConfigureDim(t) \in State
  <2>1. DimTimeout(t.p, t.e) \in Nat
    BY ReadersType DEF State
  <2>2. Msec(DimTimeout(t.p, t.e)) \in Nat /\ (DimTimeout(t.p, t.e) # 0) \in BOOLEAN
    BY <2>1, MsecType
  <2> QED
    BY <1>1, <2>2, SetWatchType DEF ConfigureDim
<1>5. IdleConfigure(s, r) \in State
  <2> DEFINE b == SetWatch(s, "blank", s.p.screensaver_active,
                           Msec(SCREENSAVER_TIMEOUT_BLANK))
  <2>1. s.p.screensaver_active \in BOOLEAN /\ SCREENSAVER_TIMEOUT_BLANK \in Nat
    BY DEF State, Managers, SCREENSAVER_TIMEOUT_BLANK
  <2>2. b \in State
    BY <1>1, <2>1, MsecType, SetWatchType
  <2> HIDE DEF b
  <2>3. StandDown(b, r) \in State /\ ConfigureDim(ConfigureSleep(b)) \in State
    BY <1>2, <1>3, <1>4, <2>2
  <2> QED
    BY <2>3 DEF IdleConfigure, b
<1> QED
  BY <1>2, <1>3, <1>4, <1>5

LEMMA SessionType ==
  ASSUME NEW s \in State, NEW b \in BOOLEAN, NEW r \in KbdReplies
  PROVE  SessionActiveChanged(s, b, r) \in State
<1> DEFINE a == [s EXCEPT !.p.session_is_active = b]
<1>0. NORMAL \in IdleModes
  BY DEF IdleModes, NORMAL, SLEEP
<1>1. a \in State
  BY <1>0, FieldsType
<1> HIDE DEF a
<1>2. IdleSetMode(a, NORMAL, r) \in State
  BY <1>0, <1>1, IdleSetModeType
<1> QED
  BY <1>1, <1>2, LightType DEF SessionActiveChanged, a

-------------------------------------------------------------------------------
(* Type correctness.                                                       *)

LEMMA HereType ==
  ASSUME TypeOK
  PROVE  /\ Here \in State /\ Here.p = pm /\ Here.e = env
         /\ \A s \in State : Step(s) => TypeOK'
<1>1. Here \in State /\ Here.p = pm /\ Here.e = env
  BY DEF TypeOK, Here, State
<1>2. ASSUME NEW s \in State, Step(s)
      PROVE  TypeOK'
  <2>1. s.p \in Managers /\ s.e \in Environments
    BY DEF State
  <2>2. pm' \in Managers /\ env' \in Environments
    BY <1>2, <2>1 DEF Step
  <2> QED
    BY <2>2 DEF TypeOK, Managers, Environments
<1> QED
  BY <1>1, <1>2

LEMMA InitType ==
  Init => TypeOK
<1> SUFFICES ASSUME NEW known \in BOOLEAN, NEW active \in BOOLEAN, NEW lid \in BOOLEAN,
                    NEW level \in KbdLevels, NEW inhibited \in SUBSET Inhibitors,
                    NEW source \in Sources, NEW settings \in Settings,
                    NEW control \in BOOLEAN, NEW events \in Scenarios,
                    LET e == [session_known |-> known,
                              inhibited |-> IF known THEN inhibited ELSE {},
                              source |-> source, settings |-> settings,
                              ppd_running |-> FALSE,
                              shell_control |-> control, iio_proxy |-> FALSE,
                              sensor_claimed |-> FALSE,
                              dimming |-> FALSE, sleeping |-> FALSE, activity |-> FALSE,
                              events |-> events]
                        s == Startup(e, active, lid, level)
                    IN  pm = s.p /\ env = s.e
             PROVE  TypeOK
  BY DEF Init
<1> DEFINE e == [session_known |-> known,
                 inhibited |-> IF known THEN inhibited ELSE {},
                 source |-> source, settings |-> settings, ppd_running |-> FALSE,
                 shell_control |-> control, iio_proxy |-> FALSE,
                 sensor_claimed |-> FALSE,
                 dimming |-> FALSE, sleeping |-> FALSE, activity |-> FALSE,
                 events |-> events]
<1> DEFINE p == [session_is_active |-> active, screensaver_active |-> FALSE,
                 lid_is_closed |-> lid, battery_is_low |-> FALSE,
                 power_saver_enabled |-> FALSE,
                 current_idle_mode |-> NORMAL, previous_idle_mode |-> NORMAL,
                 temporary_unidle |-> FALSE,
                 watch |-> [w \in Watches |-> "none"], after |-> [w \in Watches |-> 0],
                 user_active_id |-> FALSE,
                 notification |-> FALSE, sleep_action_type |-> "blank",
                 screen_blanked |-> FALSE, light_claimed |-> FALSE,
                 kbd |-> [now |-> level, old |-> NoLevel, pre_dim |-> NoLevel]]
<1>1. e \in Environments
  BY DEF Environments
<1>2. p \in Managers
  BY DEF Managers, IdleModes, NORMAL, SLEEP, WatchStates, ActionTypes, KbdRecords
<1> HIDE DEF p
<1>3. [p |-> p, e |-> e] \in State /\ Accepted \in KbdReplies
  BY <1>1, <1>2 DEF State, Accepted, KbdReplies
<1>0. pm = Startup(e, active, lid, level).p /\ env = Startup(e, active, lid, level).e
  OBVIOUS
<1> HIDE DEF e
<1>4. EnableMonitors(IdleConfigure([p |-> p, e |-> e], Accepted)) \in State
  BY <1>3, ConfigureType, LightType
<1>5. Startup(e, active, lid, level) = EnableMonitors(IdleConfigure([p |-> p, e |-> e], Accepted))
  BY DEF Startup, p
<1> QED
  BY <1>0, <1>4, <1>5 DEF TypeOK, State

\* Every action commits a state that a helper made of the present one.
LEMMA NextType ==
  TypeOK /\ [Next]_vars => TypeOK'
<1> SUFFICES ASSUME TypeOK, [Next]_vars
             PROVE  TypeOK'
  OBVIOUS
<1> USE RepliesType
<1>0. /\ Here \in State /\ Here.p = pm /\ Here.e = env
      /\ NORMAL \in IdleModes /\ DIM \in IdleModes /\ BLANK \in IdleModes /\ SLEEP \in IdleModes
      /\ 0 \in KbdLevels
  BY HereType, KbdAssumption DEF IdleModes, NORMAL, DIM, BLANK, SLEEP, KbdLevels
<1>a. ASSUME NEW s \in State, Step(s)
      PROVE  TypeOK'
  BY <1>a, HereType
<1>b. ASSUME NEW k \in KbdRecords, Step([Here EXCEPT !.p.kbd = k])
      PROVE  TypeOK'
  <2>1. [Here EXCEPT !.p.kbd = k] \in State
    BY <1>0 DEF State, Managers
  <2> QED
    BY <1>a, <1>b, <2>1
<1>c. pm.kbd \in KbdRecords
  BY DEF TypeOK, Managers
<1>1. ASSUME NEW w \in Watches, WatchFires(w)
      PROVE  TypeOK'
  <2> DEFINE f == [Here EXCEPT !.p.watch[w] = "fired"]
             n == [f EXCEPT !.p.notification = ShowSleepWarnings,
                            !.p.user_active_id = TRUE]
  <2>1. f \in State
    BY <1>0 DEF State, Managers, WatchStates
  <2>2. n \in State
    BY <2>1, IdleAssumption DEF State, Managers
  <2> HIDE DEF f, n
  <2>3. PICK r \in Replies :
          Step(CASE w = "dim"     -> IdleSetModeNoTemp(f, DIM, r)
                 [] w = "blank"   -> IdleSetModeNoTemp(f, BLANK, r)
                 [] w = "sleep"   -> IdleSetModeNoTemp(f, SLEEP, r)
                 [] w = "warning" -> n)
    BY <1>1 DEF WatchFires, f, n
  <2>4. ASSUME NEW mode \in IdleModes
        PROVE  IdleSetModeNoTemp(f, mode, r) \in State
    BY <2>1, UnidleType
  <2>5. CASE w = "dim"
    BY <1>0, <1>a, <2>3, <2>4, <2>5
  <2>6. CASE w = "blank"
    BY <1>0, <1>a, <2>3, <2>4, <2>6
  <2>7. CASE w = "sleep"
    BY <1>0, <1>a, <2>3, <2>4, <2>7
  <2>8. CASE w = "warning"
    BY <1>a, <2>2, <2>3, <2>8
  <2> QED
    BY <2>5, <2>6, <2>7, <2>8 DEF Watches
<1>2. CASE IdleBecameActive
  <2> DEFINE h == [Here EXCEPT !.e.activity = FALSE]
  <2>1. h \in State
    BY <1>0 DEF State, Environments
  <2> HIDE DEF h
  <2>2. PICK r \in Replies :
          LET t == SetTemporaryUnidle(h, FALSE, r)
              n == IdleSetMode([t EXCEPT !.p.notification = FALSE], NORMAL, r)
          IN  Step([n EXCEPT !.p.user_active_id = FALSE])
    BY <1>2 DEF IdleBecameActive, h
  <2> DEFINE t == SetTemporaryUnidle(h, FALSE, r)
             q == [t EXCEPT !.p.notification = FALSE]
             n == IdleSetMode(q, NORMAL, r)
  <2>3. t \in State
    BY <1>0, <2>1, UnidleType
  <2>4. Step([n EXCEPT !.p.user_active_id = FALSE])
    BY <2>2
  <2> HIDE DEF t
  <2>5. q \in State
    BY <1>0, <2>3, FieldsType
  <2> HIDE DEF q
  <2>6. n \in State
    BY <1>0, <2>5, IdleSetModeType
  <2> HIDE DEF n
  <2>7. [n EXCEPT !.p.user_active_id = FALSE] \in State
    BY <1>0, <2>6, FieldsType
  <2> QED
    BY <1>a, <2>4, <2>7
<1>3. CASE TemporaryUnidleDone
  <2>1. PICK r \in Replies :
          Step([IdleSetMode(Here, pm.previous_idle_mode, r) EXCEPT !.p.temporary_unidle = FALSE])
    BY <1>3 DEF TemporaryUnidleDone
  <2>2. pm.previous_idle_mode \in IdleModes
    BY DEF TypeOK, Managers
  <2>3. IdleSetMode(Here, pm.previous_idle_mode, r) \in State
    BY <1>0, <2>2, IdleSetModeType
  <2>4. [IdleSetMode(Here, pm.previous_idle_mode, r) EXCEPT !.p.temporary_unidle = FALSE] \in State
    BY <1>0, <2>3, FieldsType
  <2> QED
    BY <1>a, <2>1, <2>4
<1>4. CASE UserActivity
  <2>1. ASSUME NEW f \in [Watches -> WatchStates], NEW b \in BOOLEAN
        PROVE  [Here EXCEPT !.p.watch = f, !.e.activity = b] \in State
    BY <1>0 DEF State, Managers, Environments
  <2>2. [w \in Watches |-> IF pm.watch[w] = "fired" THEN "armed" ELSE pm.watch[w]]
          \in [Watches -> WatchStates]
    BY DEF TypeOK, Managers, WatchStates
  <2>3. (env.activity \/ pm.user_active_id) \in BOOLEAN
    OBVIOUS
  <2>4. Step([Here EXCEPT
          !.p.watch = [w \in Watches |-> IF pm.watch[w] = "fired" THEN "armed" ELSE pm.watch[w]],
          !.e.activity = env.activity \/ pm.user_active_id])
    BY <1>0, <1>4 DEF UserActivity
  <2> QED
    BY <1>a, <2>1, <2>2, <2>3, <2>4
<1>5. CASE ScreensaverActiveChanged
  <2> DEFINE h == [Here EXCEPT !.p.screensaver_active = ~pm.screensaver_active]
  <2>1. h \in State
    BY <1>0, FieldsType
  <2> HIDE DEF h
  <2>2. PICK r \in Replies :
          Step(IF ~pm.screensaver_active THEN IdleSetMode(IdleConfigure(h, r), BLANK, r)
               ELSE IdleConfigure(h, r))
    BY <1>5 DEF ScreensaverActiveChanged, h
  <2>3. IdleConfigure(h, r) \in State
    BY <2>1, ConfigureType
  <2>4. IdleSetMode(IdleConfigure(h, r), BLANK, r) \in State
    BY <1>0, <2>3, IdleSetModeType
  <2> QED
    BY <1>a, <2>2, <2>3, <2>4
<1>6. CASE WakeUpScreen
  <2>1. PICK r \in Replies : Step(UpdateTemporaryUnidle(Here, r))
    BY <1>6 DEF WakeUpScreen
  <2> QED
    BY <1>0, <1>a, <2>1, UnidleType
<1>7. CASE OnBatteryChanged
  <2>1. PICK r \in Replies, source \in Sources :
          Step(UpdateTemporaryUnidle(IdleConfigure([Here EXCEPT !.e.source = source], r), r))
    BY <1>7 DEF OnBatteryChanged
  <2>2. [Here EXCEPT !.e.source = source] \in State
    BY <1>0 DEF State, Environments
  <2>3. IdleConfigure([Here EXCEPT !.e.source = source], r) \in State
    BY <2>2, ConfigureType
  <2> QED
    BY <1>0, <1>a, <2>1, <2>3, UnidleType
<1>8. CASE LidChanged
  <2>1. Step([Here EXCEPT !.p.lid_is_closed = ~pm.lid_is_closed])
    BY <1>0, <1>8 DEF LidChanged
  <2> QED
    BY <1>0, <1>a, <2>1, FieldsType
<1>9. CASE SessionPropertiesChanged
  <2>1. PICK active \in BOOLEAN, inhibited \in SUBSET Inhibitors, r \in Replies :
          LET s == [Here EXCEPT !.e.session_known = TRUE, !.e.inhibited = inhibited]
              a == IF active = pm.session_is_active /\ env.session_known
                   THEN s ELSE SessionActiveChanged(s, active, r)
          IN  Step(IF inhibited = env.inhibited /\ env.session_known
                   THEN a ELSE IdleConfigure(a, r))
    BY <1>9 DEF SessionPropertiesChanged
  <2> DEFINE s == [Here EXCEPT !.e.session_known = TRUE, !.e.inhibited = inhibited]
             a == IF active = pm.session_is_active /\ env.session_known
                  THEN s ELSE SessionActiveChanged(s, active, r)
  <2>2. Step(IF inhibited = env.inhibited /\ env.session_known
             THEN a ELSE IdleConfigure(a, r))
    BY <2>1
  <2>3. s \in State
    BY <1>0 DEF State, Environments
  <2> HIDE DEF s
  <2>4. a \in State
    BY <2>3, SessionType
  <2> HIDE DEF a
  <2>5. IdleConfigure(a, r) \in State
    BY <2>4, ConfigureType
  <2> QED
    BY <1>a, <2>2, <2>4, <2>5
<1>10. CASE SettingChanged
  <2>1. PICK settings \in Settings, r \in Replies :
          LET s == [Here EXCEPT !.e.settings = settings]
          IN  Step(IF SameIdleKeys(settings, env.settings)
                   THEN MaybeClaimLight(s) ELSE IdleConfigure(s, r))
    BY <1>10 DEF SettingChanged
  <2> DEFINE s == [Here EXCEPT !.e.settings = settings]
  <2>2. s \in State
    BY <1>0 DEF State, Environments
  <2>3. Step(IF SameIdleKeys(settings, env.settings)
             THEN MaybeClaimLight(s) ELSE IdleConfigure(s, r))
    BY <2>1
  <2> HIDE DEF s
  <2>4. MaybeClaimLight(s) \in State /\ IdleConfigure(s, r) \in State
    BY <2>2, LightType, ConfigureType
  <2> QED
    BY <1>a, <2>3, <2>4
<1>11. CASE BatteryLowChanged
  <2>1. PICK r \in Replies :
          Step(IdleConfigure([Here EXCEPT !.p.battery_is_low = ~pm.battery_is_low], r))
    BY <1>0, <1>11 DEF BatteryLowChanged
  <2>2. [Here EXCEPT !.p.battery_is_low = ~pm.battery_is_low] \in State
    BY <1>0, FieldsType
  <2> QED
    BY <1>a, <2>1, <2>2, ConfigureType
<1>12. CASE PowerProfileShown
  <2>1. PICK saver \in BOOLEAN, r \in Replies :
          LET s == [Here EXCEPT !.e.ppd_running = TRUE]
          IN  Step(IF saver = pm.power_saver_enabled
                   THEN s
                   ELSE IdleConfigure([s EXCEPT !.p.power_saver_enabled = saver], r))
    BY <1>12 DEF PowerProfileShown
  <2> DEFINE s == [Here EXCEPT !.e.ppd_running = TRUE]
  <2>2. s \in State
    BY <1>0 DEF State, Environments
  <2>3. Step(IF saver = pm.power_saver_enabled
             THEN s
             ELSE IdleConfigure([s EXCEPT !.p.power_saver_enabled = saver], r))
    BY <2>1
  <2> HIDE DEF s
  <2>4. [s EXCEPT !.p.power_saver_enabled = saver] \in State
    BY <1>0, <2>2, FieldsType
  <2>5. IdleConfigure([s EXCEPT !.p.power_saver_enabled = saver], r) \in State
    BY <2>4, ConfigureType
  <2> QED
    BY <1>a, <2>2, <2>3, <2>5
<1>13. CASE PowerProfilesVanished
  <2>1. PICK r \in Replies : Step(IdleConfigure([Here EXCEPT !.e.ppd_running = FALSE], r))
    BY <1>13 DEF PowerProfilesVanished
  <2>2. [Here EXCEPT !.e.ppd_running = FALSE] \in State
    BY <1>0 DEF State, Environments
  <2> QED
    BY <1>a, <2>1, <2>2, ConfigureType
<1>14. CASE PrepareForSleep
  <2>1. [Here EXCEPT !.e.sleeping = TRUE, !.p.notification = FALSE] \in State
    BY <1>0 DEF State, Managers, Environments
  <2>2. Step(DisableMonitors([Here EXCEPT !.e.sleeping = TRUE, !.p.notification = FALSE]))
    BY <1>14 DEF PrepareForSleep
  <2> QED
    BY <1>a, <2>1, <2>2, LightType
<1>15. CASE ResumeFromSleep
  <2>1. [Here EXCEPT !.e.sleeping = FALSE] \in State
    BY <1>0 DEF State, Environments
  <2> QED
    BY <1>15, <1>a, <2>1, LightType DEF ResumeFromSleep
<1>16. CASE IioProxyAppeared
  <2>1. [Here EXCEPT !.e.iio_proxy = TRUE] \in State
    BY <1>0 DEF State, Environments
  <2> QED
    BY <1>16, <1>a, <2>1, LightType DEF IioProxyAppeared
<1>17. CASE IioProxyVanished
  <2>1. [Here EXCEPT !.e.iio_proxy = FALSE, !.e.sensor_claimed = FALSE] \in State
    BY <1>0 DEF State, Environments
  <2> QED
    BY <1>17, <1>a, <2>1 DEF IioProxyVanished
<1>s. CASE BrightnessControlChanges
  <2>1. [Here EXCEPT !.e.shell_control = ~env.shell_control] \in State
    BY <1>0 DEF State, Environments
  <2> QED
    BY <1>0, <1>a, <1>s, <2>1 DEF BrightnessControlChanges
<1>18. CASE NotificationDismissed
  <2>1. [Here EXCEPT !.p.notification = FALSE] \in State
    BY <1>0, FieldsType
  <2> QED
    BY <1>18, <1>a, <2>1 DEF NotificationDismissed
<1>19. CASE KbdStep
  <2>1. PICK step \in {StepAmount(KbdMax), -StepAmount(KbdMax)}, r \in Replies :
          LET level == IF pm.kbd.now + step > KbdMax THEN KbdMax
                       ELSE IF pm.kbd.now + step < 0 THEN 0 ELSE pm.kbd.now + step
          IN  Step([Here EXCEPT !.p.kbd = KbdSet(pm.kbd, level, r.set)])
    BY <1>0, <1>19 DEF KbdStep
  <2> DEFINE level == IF pm.kbd.now + step > KbdMax THEN KbdMax
                      ELSE IF pm.kbd.now + step < 0 THEN 0 ELSE pm.kbd.now + step
  <2>2. KbdMax \in Nat \ {0} /\ pm.kbd.now \in 0..KbdMax
    BY <1>c, KbdAssumption DEF KbdRecords, KbdLevels
  <2>3. StepAmount(KbdMax) \in Nat
    BY <2>2 DEF StepAmount
  <2>4. level \in KbdLevels
    BY <2>2, <2>3 DEF KbdLevels
  <2>5. Step([Here EXCEPT !.p.kbd = KbdSet(pm.kbd, level, r.set)])
    BY <2>1
  <2> HIDE DEF level
  <2>6. KbdSet(pm.kbd, level, r.set) \in KbdRecords
    BY <1>c, <2>4, KbdOpsType DEF KbdReplies
  <2> QED
    BY <1>b, <2>5, <2>6
<1>20. CASE KbdToggleCall
  <2>1. PICK r \in Replies : Step([Here EXCEPT !.p.kbd = KbdToggle(pm.kbd, r.toggle)])
    BY <1>0, <1>20 DEF KbdToggleCall
  <2>2. KbdToggle(pm.kbd, r.toggle) \in KbdRecords
    BY <1>0, <1>c, KbdOpsType DEF KbdReplies
  <2> QED
    BY <1>b, <2>1, <2>2
<1>21. CASE KbdSetBrightness
  <2>1. PICK level \in KbdLevels, r \in Replies :
          LET percentage == AbsToPercentage(0, KbdMax, level)
          IN  Step([Here EXCEPT !.p.kbd =
                     KbdSet(pm.kbd, PercentageToAbs(0, KbdMax, percentage), r.set)])
    BY <1>0, <1>21 DEF KbdSetBrightness
  <2> DEFINE abs == PercentageToAbs(0, KbdMax, AbsToPercentage(0, KbdMax, level))
  <2>2. abs \in KbdLevels
    BY LevelIsPercentage, PercentageIsLevel
  <2>3. Step([Here EXCEPT !.p.kbd = KbdSet(pm.kbd, abs, r.set)])
    BY <2>1
  <2> HIDE DEF abs
  <2>4. KbdSet(pm.kbd, abs, r.set) \in KbdRecords
    BY <1>c, <2>2, KbdOpsType DEF KbdReplies
  <2> QED
    BY <1>b, <2>3, <2>4
<1>22. CASE KbdBrightnessChanged
  <2>1. PICK level \in KbdLevels : Step([Here EXCEPT !.p.kbd.now = level])
    BY <1>22 DEF KbdBrightnessChanged
  <2>2. [Here EXCEPT !.p.kbd.now = level] \in State
    <3>1. [pm.kbd EXCEPT !.now = level] \in KbdRecords
      BY <1>c DEF KbdRecords
    <3>2. [Here EXCEPT !.p.kbd = [pm.kbd EXCEPT !.now = level]] \in State
      BY <1>0, <3>1 DEF State, Managers
    <3> QED
      BY <1>0, <3>2
  <2> QED
    BY <1>a, <2>1, <2>2
<1>23. CASE UNCHANGED vars
  BY <1>23 DEF vars, TypeOK, Managers, Environments
<1> QED
  BY <1>1, <1>2, <1>3, <1>4, <1>5, <1>6, <1>7, <1>8, <1>9, <1>10, <1>11, <1>12, <1>13,
     <1>14, <1>15, <1>16, <1>17, <1>s, <1>18, <1>19, <1>20, <1>21, <1>22, <1>23
  DEF Next, SystemNext, EnvironmentNext

\* The daemon's fields keep their types: levels stay in the keyboard's range
\* (whatever calls fail), modes in the four modes, watch times natural.
THEOREM TypeCorrect == Spec => []TypeOK
<1>1. Init => TypeOK
  BY InitType
<1>2. TypeOK /\ [Next]_vars => TypeOK'
  BY NextType
<1> QED
  BY <1>1, <1>2, PTL DEF Spec

-------------------------------------------------------------------------------
(***************************************************************************)
(* The user can always bring an idle session back: IdleIsEscapable is an   *)
(* invariant of PowerIdle for every value of its constants.  Given the     *)
(* types it is inductive; Safe states it of the states between two helpers *)
(* of one handler as well.                                                 *)
(***************************************************************************)

Safe(s) ==
  /\ \/ s.p.session_is_active /\ s.p.current_idle_mode # NORMAL
     \/ s.p.session_is_active /\ s.p.screen_blanked /\ ~s.e.sleeping
     \/ s.p.temporary_unidle
     \/ s.p.notification
     => s.p.user_active_id

\* What no helper of idle_set_mode touches.
SameSession(s, t) ==
  /\ t.p.session_is_active = s.p.session_is_active
  /\ t.p.temporary_unidle = s.p.temporary_unidle
  /\ t.p.notification = s.p.notification
  /\ t.e.sleeping = s.e.sleeping

\* The same in everything Safe looks at.
Alike(s, t) ==
  /\ SameSession(s, t)
  /\ t.p.current_idle_mode = s.p.current_idle_mode
  /\ t.p.user_active_id = s.p.user_active_id
  /\ t.p.screen_blanked = s.p.screen_blanked

LEMMA AlikeSafe ==
  ASSUME NEW s, NEW t, Alike(s, t), Safe(s)
  PROVE  Safe(t)
  BY DEF Alike, SameSession, Safe

LEMMA LightEffect ==
  ASSUME NEW s \in State
  PROVE  /\ SameSession(s, MaybeClaimLight(s))
         /\ MaybeClaimLight(s).p.current_idle_mode = s.p.current_idle_mode
         /\ MaybeClaimLight(s).p.user_active_id = s.p.user_active_id
         /\ MaybeClaimLight(s).p.screen_blanked = s.p.screen_blanked
         /\ SameSession(s, EnableMonitors(s))
         /\ EnableMonitors(s).p.current_idle_mode = s.p.current_idle_mode
         /\ EnableMonitors(s).p.user_active_id = s.p.user_active_id
         /\ ~EnableMonitors(s).p.screen_blanked
         /\ SameSession(s, DisableMonitors(s))
         /\ DisableMonitors(s).p.current_idle_mode = s.p.current_idle_mode
         /\ DisableMonitors(s).p.user_active_id = s.p.user_active_id
<1>1. ASSUME NEW t \in State
      PROVE  /\ SameSession(t, MaybeClaimLight(t))
             /\ MaybeClaimLight(t).p.current_idle_mode = t.p.current_idle_mode
             /\ MaybeClaimLight(t).p.user_active_id = t.p.user_active_id
             /\ MaybeClaimLight(t).p.screen_blanked = t.p.screen_blanked
  BY DEF MaybeClaimLight, SameSession, State, Managers, Environments
<1>2. ASSUME NEW x \in BOOLEAN
      PROVE  /\ [s EXCEPT !.p.screen_blanked = x] \in State
             /\ SameSession(s, [s EXCEPT !.p.screen_blanked = x])
             /\ [s EXCEPT !.p.screen_blanked = x].p.current_idle_mode = s.p.current_idle_mode
             /\ [s EXCEPT !.p.screen_blanked = x].p.user_active_id = s.p.user_active_id
             /\ [s EXCEPT !.p.screen_blanked = x].p.screen_blanked = x
  BY DEF SameSession, State, Managers, Environments
<1>3. ASSUME NEW x \in BOOLEAN
      PROVE  LET n == MaybeClaimLight([s EXCEPT !.p.screen_blanked = x])
             IN  /\ SameSession(s, n)
                 /\ n.p.current_idle_mode = s.p.current_idle_mode
                 /\ n.p.user_active_id = s.p.user_active_id
                 /\ n.p.screen_blanked = x
  <2> DEFINE u == [s EXCEPT !.p.screen_blanked = x]
             n == MaybeClaimLight(u)
  <2>1. /\ u \in State
        /\ SameSession(s, u)
        /\ u.p.current_idle_mode = s.p.current_idle_mode
        /\ u.p.user_active_id = s.p.user_active_id
        /\ u.p.screen_blanked = x
    BY <1>2
  <2> HIDE DEF u
  <2>2. /\ SameSession(u, n)
        /\ n.p.current_idle_mode = u.p.current_idle_mode
        /\ n.p.user_active_id = u.p.user_active_id
        /\ n.p.screen_blanked = u.p.screen_blanked
    BY <1>1, <2>1
  <2> HIDE DEF n
  <2>3. /\ SameSession(s, n)
        /\ n.p.current_idle_mode = s.p.current_idle_mode
        /\ n.p.user_active_id = s.p.user_active_id
        /\ n.p.screen_blanked = x
    BY <2>1, <2>2 DEF SameSession
  <2> QED
    BY <2>3 DEF n, u
<1>4. EnableMonitors(s) = MaybeClaimLight([s EXCEPT !.p.screen_blanked = FALSE])
      /\ DisableMonitors(s) = MaybeClaimLight([s EXCEPT !.p.screen_blanked = TRUE])
  BY DEF EnableMonitors, DisableMonitors
<1> QED
  BY <1>1, <1>3, <1>4, Zenon

LEMMA EnterModeEffect ==
  ASSUME NEW s \in State, NEW mode \in IdleModes, NEW r \in KbdReplies
  PROVE  /\ SameSession(s, EnterMode(s, mode, r))
         /\ EnterMode(s, mode, r).p.user_active_id = s.p.user_active_id
         /\ mode = NORMAL => ~EnterMode(s, mode, r).p.screen_blanked
<1>1. ASSUME NEW t \in State, NEW k
      PROVE  /\ SameSession(t, [t EXCEPT !.p.kbd = k])
             /\ [t EXCEPT !.p.kbd = k].p.user_active_id = t.p.user_active_id
             /\ SameSession(t, [t EXCEPT !.e.dimming = FALSE, !.p.kbd = k])
             /\ [t EXCEPT !.e.dimming = FALSE, !.p.kbd = k].p.user_active_id = t.p.user_active_id
             /\ [t EXCEPT !.e.dimming = FALSE, !.p.kbd = k].p.screen_blanked = t.p.screen_blanked
             /\ SameSession(t, [t EXCEPT !.p.kbd = k, !.e.dimming = TRUE])
             /\ [t EXCEPT !.p.kbd = k, !.e.dimming = TRUE].p.user_active_id = t.p.user_active_id
  BY DEF SameSession, State, Managers, Environments
<1>2. ASSUME NEW t, NEW u, SameSession(s, t), SameSession(t, u)
      PROVE  SameSession(s, u)
  BY <1>2 DEF SameSession
<1>3. CASE mode = DIM
  <2> DEFINE k == KbdDim(s.p.kbd, r.set)
             u == [s EXCEPT !.p.kbd = k, !.e.dimming = TRUE]
  <2>1. EnterMode(s, mode, r) = u
    BY <1>3 DEF EnterMode, DIM, BLANK, SLEEP, NORMAL
  <2> HIDE DEF k
  <2>2. SameSession(s, u) /\ u.p.user_active_id = s.p.user_active_id
    BY <1>1
  <2> HIDE DEF u
  <2> QED
    BY <1>3, <2>1, <2>2 DEF DIM, NORMAL
<1>4. CASE mode = BLANK
  <2> DEFINE d == DisableMonitors(s)
             k == KbdBlank(d.p.kbd, r.toggle)
             u == [d EXCEPT !.p.kbd = k]
  <2>1. EnterMode(s, mode, r) = u
    BY <1>4 DEF EnterMode, DIM, BLANK, SLEEP, NORMAL
  <2>2. d \in State /\ SameSession(s, d) /\ d.p.user_active_id = s.p.user_active_id
    BY LightType, LightEffect
  <2> HIDE DEF d, k
  <2>3. SameSession(d, u) /\ u.p.user_active_id = d.p.user_active_id
    BY <1>1, <2>2
  <2> HIDE DEF u
  <2>4. SameSession(s, u)
    BY <1>2, <2>2, <2>3
  <2> QED
    BY <1>4, <2>1, <2>2, <2>3, <2>4 DEF BLANK, NORMAL
<1>5. CASE mode = SLEEP
  <2>1. EnterMode(s, mode, r) = DoPowerAction(s)
    BY <1>5 DEF EnterMode, DIM, BLANK, SLEEP, NORMAL
  <2>2. SameSession(s, s)
    BY DEF SameSession
  <2> QED
    BY <1>5, <2>1, <2>2, LightEffect DEF DoPowerAction, SLEEP, NORMAL
<1>6. CASE mode = NORMAL
  <2> DEFINE n == EnableMonitors(s)
             k == KbdWake(n.p.kbd, r.toggle, r.set)
             u == [n EXCEPT !.e.dimming = FALSE, !.p.kbd = k]
  <2>1. EnterMode(s, mode, r) = u
    BY <1>6 DEF EnterMode, DIM, BLANK, SLEEP, NORMAL
  <2>2. n \in State /\ SameSession(s, n) /\ n.p.user_active_id = s.p.user_active_id
        /\ ~n.p.screen_blanked
    BY LightType, LightEffect
  <2> HIDE DEF n, k
  <2>3. SameSession(n, u) /\ u.p.user_active_id = n.p.user_active_id
        /\ u.p.screen_blanked = n.p.screen_blanked
    BY <1>1, <2>2
  <2> HIDE DEF u
  <2>4. SameSession(s, u)
    BY <1>2, <2>2, <2>3
  <2> QED
    BY <2>1, <2>2, <2>3, <2>4
<1> QED
  BY <1>3, <1>4, <1>5, <1>6 DEF IdleModes, NORMAL, DIM, BLANK, SLEEP

\* A deeper mode comes with a user active watch, NORMAL with the lights on.
LEMMA IdleSetModeEffect ==
  ASSUME NEW s \in State, NEW mode \in IdleModes, NEW r \in KbdReplies
  PROVE  LET t == IdleSetMode(s, mode, r)
         IN  /\ SameSession(s, t)
             /\ s.p.user_active_id => t.p.user_active_id
             /\ t = s \/ t.p.user_active_id \/ mode = NORMAL
             /\ mode = NORMAL =>
                  /\ t.p.user_active_id = s.p.user_active_id
                  /\ ~s.p.session_is_active => t = s
                  /\ s.p.session_is_active =>
                       t.p.current_idle_mode = NORMAL /\ ~t.p.screen_blanked
<1> DEFINE t == IdleSetMode(s, mode, r)
           v == s.p.user_active_id \/ mode # NORMAL
           w == [s EXCEPT !.p.user_active_id = v]
           n == [EnterMode(w, mode, r) EXCEPT !.p.current_idle_mode = mode]
<1>1. v \in BOOLEAN
  OBVIOUS
<1>2. s.p.user_active_id \in BOOLEAN
  BY DEF State, Managers
<1>3. w \in State
  BY <1>1, FieldsType
<1>4. SameSession(s, w) /\ w.p.user_active_id = v
  BY DEF SameSession, State, Managers
<1>5. /\ EnterMode(w, mode, r) \in State
      /\ SameSession(w, EnterMode(w, mode, r))
      /\ EnterMode(w, mode, r).p.user_active_id = v
      /\ mode = NORMAL => ~EnterMode(w, mode, r).p.screen_blanked
  BY <1>3, <1>4, EnterModeType, EnterModeEffect
<1>6. SameSession(s, n) /\ n.p.user_active_id = v /\ n.p.current_idle_mode = mode
      /\ (mode = NORMAL => ~n.p.screen_blanked)
  <2> DEFINE m == EnterMode(w, mode, r)
  <2>1. m \in State /\ SameSession(w, m) /\ m.p.user_active_id = v
        /\ (mode = NORMAL => ~m.p.screen_blanked)
    BY <1>5
  <2> HIDE DEF m
  <2>2. LET u == [m EXCEPT !.p.current_idle_mode = mode]
        IN  /\ SameSession(m, u) /\ u.p.user_active_id = m.p.user_active_id
            /\ u.p.screen_blanked = m.p.screen_blanked /\ u.p.current_idle_mode = mode
    BY <2>1 DEF SameSession, State, Managers, Environments
  <2>3. n = [m EXCEPT !.p.current_idle_mode = mode]
    BY DEF m
  <2> HIDE DEF n, w, v
  <2> QED
    BY <1>4, <2>1, <2>2, <2>3 DEF SameSession
<1>7. t = s \/ (t = w /\ mode = SLEEP) \/ (t = n /\ s.p.session_is_active)
  BY Zenon DEF IdleSetMode
<1>8. mode = NORMAL =>
        t = IF s.p.session_is_active THEN n ELSE s
  BY DEF IdleSetMode, NORMAL, SLEEP
<1>9. SameSession(s, s) /\ (mode = SLEEP => mode # NORMAL)
  BY DEF SameSession, SLEEP, NORMAL
<1> HIDE DEF t, w, n
<1> QED
  BY <1>2, <1>4, <1>6, <1>7, <1>8, <1>9 DEF t

-------------------------------------------------------------------------------
(* The helpers keep a safe state safe.                                     *)

\* Nothing waits for a user who is not watched for.
Noticed(s) == s.p.temporary_unidle \/ s.p.notification => s.p.user_active_id

\* Any mode is reached safely; NORMAL mends the session even when it was not
\* looked after while it was inactive.
LEMMA IdleSetModeSafe ==
  ASSUME NEW s \in State, NEW mode \in IdleModes, NEW r \in KbdReplies
  PROVE  /\ Safe(s) => Safe(IdleSetMode(s, mode, r))
         /\ Noticed(s) /\ s.p.session_is_active => Safe(IdleSetMode(s, NORMAL, r))
<1>0. NORMAL \in IdleModes
  BY DEF IdleModes, NORMAL, SLEEP
<1>1. ASSUME NEW m \in IdleModes, m # NORMAL, Safe(s)
      PROVE  Safe(IdleSetMode(s, m, r))
  <2> DEFINE t == IdleSetMode(s, m, r)
  <2>1. t = s \/ t.p.user_active_id
    BY <1>1, IdleSetModeEffect
  <2> HIDE DEF t
  <2>2. Safe(t)
    BY <1>1, <2>1 DEF Safe
  <2> QED
    BY <2>2 DEF t
<1>2. ASSUME Noticed(s), s.p.session_is_active \/ Safe(s)
      PROVE  Safe(IdleSetMode(s, NORMAL, r))
  <2> DEFINE t == IdleSetMode(s, NORMAL, r)
  <2>1. /\ SameSession(s, t)
        /\ t.p.user_active_id = s.p.user_active_id
        /\ ~s.p.session_is_active => t = s
        /\ s.p.session_is_active => t.p.current_idle_mode = NORMAL /\ ~t.p.screen_blanked
    BY <1>0, IdleSetModeEffect
  <2> HIDE DEF t
  <2>2. Safe(t)
    BY <1>2, <2>1 DEF Safe, Noticed, SameSession
  <2> QED
    BY <2>2 DEF t
<1>3. Safe(s) => Noticed(s)
  BY DEF Safe, Noticed
<1> QED
  BY <1>1, <1>2, <1>3

LEMMA FieldsSafe ==
  ASSUME NEW s \in State, NEW mode \in IdleModes, Safe(s)
  PROVE  /\ Safe([s EXCEPT !.p.notification = FALSE])
         /\ Safe([s EXCEPT !.p.temporary_unidle = FALSE])
         /\ Safe([s EXCEPT !.p.previous_idle_mode = mode])
  BY DEF Safe, State, Managers

LEMMA UnidleSafe ==
  ASSUME NEW s \in State, NEW mode \in IdleModes, NEW r \in KbdReplies, Safe(s)
  PROVE  /\ Safe(IdleSetModeNoTemp(s, mode, r))
         /\ Safe(SetTemporaryUnidle(s, FALSE, r))
         /\ Safe(UpdateTemporaryUnidle(s, r))
<1>0. NORMAL \in IdleModes /\ s.p.current_idle_mode \in IdleModes
  BY DEF IdleModes, NORMAL, SLEEP, State, Managers
<1>1. Safe(IdleSetModeNoTemp(s, mode, r))
  BY IdleSetModeSafe, FieldsSafe DEF IdleSetModeNoTemp
<1>2. Safe(SetTemporaryUnidle(s, FALSE, r))
  BY <1>0, FieldsSafe DEF SetTemporaryUnidle
<1>3. ASSUME ShouldSetTemporaryUnidle(s.p), ~s.p.temporary_unidle
      PROVE  Safe(SetTemporaryUnidle(s, TRUE, r))
  <2> DEFINE u == [s EXCEPT !.p.previous_idle_mode = s.p.current_idle_mode]
             n == IdleSetMode(u, NORMAL, r)
             t == [n EXCEPT !.p.temporary_unidle = TRUE]
  <2>1. s.p.session_is_active /\ s.p.user_active_id
    BY <1>3 DEF ShouldSetTemporaryUnidle, Safe, DIM, BLANK, NORMAL
  <2>2. u \in State
    BY <1>0, FieldsType
  <2>3. u.p.user_active_id = s.p.user_active_id
    BY DEF State, Managers
  <2> HIDE DEF u
  <2>4. n \in State /\ n.p.user_active_id = u.p.user_active_id
    BY <1>0, <2>2, IdleSetModeEffect, IdleSetModeType
  <2> HIDE DEF n
  <2>5. t.p.user_active_id = n.p.user_active_id
    BY <2>4 DEF State, Managers
  <2> HIDE DEF t
  <2>6. Safe(t)
    BY <2>1, <2>3, <2>4, <2>5 DEF Safe
  <2> QED
    BY <1>3, <2>6 DEF SetTemporaryUnidle, t, n, u
<1>4. Safe(UpdateTemporaryUnidle(s, r))
  <2>1. CASE ~ShouldSetTemporaryUnidle(s.p)
    <3>1. UpdateTemporaryUnidle(s, r) = SetTemporaryUnidle(s, FALSE, r)
      BY <2>1 DEF UpdateTemporaryUnidle, SetTemporaryUnidle
    <3> QED
      BY <1>2, <3>1
  <2>2. CASE ShouldSetTemporaryUnidle(s.p) /\ s.p.temporary_unidle
    <3>1. UpdateTemporaryUnidle(s, r) = s
      BY <2>2 DEF UpdateTemporaryUnidle, SetTemporaryUnidle
    <3> QED
      BY <3>1
  <2>3. CASE ShouldSetTemporaryUnidle(s.p) /\ ~s.p.temporary_unidle
    <3>1. UpdateTemporaryUnidle(s, r) = SetTemporaryUnidle(s, TRUE, r)
      BY <2>3 DEF UpdateTemporaryUnidle, SetTemporaryUnidle
    <3> QED
      BY <1>3, <2>3, <3>1
  <2> QED
    BY <2>1, <2>2, <2>3
<1> QED
  BY <1>1, <1>2, <1>4

LEMMA SetWatchAlike ==
  ASSUME NEW s \in State, NEW w, NEW b, NEW n
  PROVE  Alike(s, SetWatch(s, w, b, n))
  BY DEF SetWatch, Alike, SameSession, State, Managers, Environments

LEMMA MonitorsSafe ==
  ASSUME NEW s \in State, Safe(s)
  PROVE  /\ Safe(MaybeClaimLight(s))
         /\ Safe(EnableMonitors(s))
         /\ s.e.sleeping => Safe(DisableMonitors(s))
<1>1. Safe(MaybeClaimLight(s))
  BY LightEffect, AlikeSafe DEF Alike
<1>2. Safe(EnableMonitors(s))
  <2> DEFINE t == EnableMonitors(s)
  <2>1. /\ SameSession(s, t) /\ t.p.current_idle_mode = s.p.current_idle_mode
        /\ t.p.user_active_id = s.p.user_active_id /\ ~t.p.screen_blanked
    BY LightEffect
  <2> HIDE DEF t
  <2>2. Safe(t)
    BY <2>1 DEF Safe, SameSession
  <2> QED
    BY <2>2 DEF t
<1>3. ASSUME s.e.sleeping
      PROVE  Safe(DisableMonitors(s))
  <2> DEFINE t == DisableMonitors(s)
  <2>1. /\ SameSession(s, t) /\ t.p.current_idle_mode = s.p.current_idle_mode
        /\ t.p.user_active_id = s.p.user_active_id
    BY LightEffect
  <2> HIDE DEF t
  <2>2. Safe(t)
    BY <1>3, <2>1 DEF Safe, SameSession
  <2> QED
    BY <2>2 DEF t
<1> QED
  BY <1>1, <1>2, <1>3

LEMMA ConfigureSafe ==
  ASSUME NEW s \in State, NEW r \in KbdReplies, Safe(s)
  PROVE  Safe(IdleConfigure(s, r))
<1>0. {"dim", "blank", "sleep", "warning"} \subseteq Watches /\ NORMAL \in IdleModes
  BY DEF Watches, IdleModes, NORMAL, SLEEP
<1>1. ASSUME NEW t \in State, Safe(t), NEW w \in Watches, NEW b \in BOOLEAN, NEW n \in Nat
      PROVE  SetWatch(t, w, b, n) \in State /\ Safe(SetWatch(t, w, b, n))
  BY <1>1, SetWatchType, SetWatchAlike, AlikeSafe
<1>2. ASSUME NEW t \in State, Safe(t)
      PROVE  Safe(StandDown(t, r))
  <2> DEFINE n == IdleSetMode(t, NORMAL, r)
             c == SetWatch(SetWatch(SetWatch(n, "sleep", FALSE, 0), "dim", FALSE, 0),
                           "warning", FALSE, 0)
             d == [c EXCEPT !.p.notification = FALSE]
  <2>1. n \in State /\ Safe(n)
    BY <1>0, <1>2, IdleSetModeType, IdleSetModeSafe
  <2> HIDE DEF n
  <2>2. c \in State /\ Safe(c)
    <3> DEFINE c1 == SetWatch(n, "sleep", FALSE, 0)
               c2 == SetWatch(c1, "dim", FALSE, 0)
    <3>1. c1 \in State /\ Safe(c1)
      BY <1>0, <1>1, <2>1
    <3> HIDE DEF c1
    <3>2. c2 \in State /\ Safe(c2)
      BY <1>0, <1>1, <3>1
    <3> HIDE DEF c2
    <3>3. SetWatch(c2, "warning", FALSE, 0) \in State /\ Safe(SetWatch(c2, "warning", FALSE, 0))
      BY <1>0, <1>1, <3>2
    <3> QED
      BY <3>3 DEF c1, c2
  <2> HIDE DEF c
  <2>3. d \in State
    BY <1>0, <2>2, FieldsType
  <2>4. Safe(d)
    BY <1>0, <2>2, FieldsSafe
  <2> HIDE DEF d
  <2>5. Safe(SetTemporaryUnidle(d, FALSE, r))
    BY <1>0, <2>3, <2>4, UnidleSafe
  <2> QED
    BY <2>5 DEF StandDown, n, c, d
<1>3. ASSUME NEW t \in State, Safe(t)
      PROVE  Safe(ConfigureSleep(t))
  <2> DEFINE action  == SleepType(t.e)
             timeout == SleepTimeout(t.e)
             warns   == timeout # 0 /\ action \in {"logout", "suspend", "hibernate"}
             wanted  == timeout # 0 /\ action # "nothing"
             sleep   == SetWatch(t, "sleep", wanted, Msec(timeout))
             warned  == SetWatch(sleep, "warning", warns, WarningMsec(timeout))
  <2>1. timeout \in Nat /\ warns \in BOOLEAN /\ wanted \in BOOLEAN
    BY ReadersType DEF State
  <2>2. Msec(timeout) \in Nat /\ WarningMsec(timeout) \in Nat
    BY <2>1, MsecType
  <2> HIDE DEF action, timeout, warns, wanted
  <2>3. sleep \in State /\ Safe(sleep)
    BY <1>0, <1>1, <1>3, <2>1, <2>2
  <2> HIDE DEF sleep
  <2>4. warned \in State /\ Safe(warned)
    BY <1>0, <1>1, <2>1, <2>2, <2>3
  <2> HIDE DEF warned
  <2>5. ASSUME NEW a
        PROVE  Safe([warned EXCEPT !.p.sleep_action_type = a,
                                   !.p.notification = @ /\ warns])
    BY <2>4 DEF Safe, State, Managers
  <2>6. Safe([warned EXCEPT !.p.sleep_action_type = IF warns THEN action ELSE @,
                            !.p.notification = @ /\ warns])
    BY <2>5
  <2> QED
    BY <2>6 DEF ConfigureSleep, action, timeout, warns, wanted, sleep, warned
<1>4. ASSUME NEW t \in State, Safe(t)
      PROVE  Safe(ConfigureDim(t))
  BY <1>4, SetWatchAlike, AlikeSafe DEF ConfigureDim
<1>5. Safe(IdleConfigure(s, r))
  <2> DEFINE b == SetWatch(s, "blank", s.p.screensaver_active,
                           Msec(SCREENSAVER_TIMEOUT_BLANK))
  <2>1. s.p.screensaver_active \in BOOLEAN /\ SCREENSAVER_TIMEOUT_BLANK \in Nat
    BY DEF State, Managers, SCREENSAVER_TIMEOUT_BLANK
  <2>2. b \in State /\ Safe(b)
    BY <1>0, <1>1, <2>1, MsecType
  <2> HIDE DEF b
  <2>3. ConfigureSleep(b) \in State
    BY <2>2, ConfigureType
  <2>4. Safe(StandDown(b, r)) /\ Safe(ConfigureDim(ConfigureSleep(b)))
    BY <1>2, <1>3, <1>4, <2>2, <2>3
  <2> QED
    BY <2>4 DEF IdleConfigure, b
<1> QED
  BY <1>5

\* The session is switched to, and NORMAL again, or away from: both are safe
\* when nothing waits unnoticed.
LEMMA SessionSafe ==
  ASSUME NEW s \in State, NEW b \in BOOLEAN, NEW r \in KbdReplies, Safe(s)
  PROVE  Safe(SessionActiveChanged(s, b, r))
<1> DEFINE a == [s EXCEPT !.p.session_is_active = b]
<1>0. NORMAL \in IdleModes
  BY DEF IdleModes, NORMAL, SLEEP
<1>1. a \in State
  BY <1>0, FieldsType
<1>2. Noticed(a) /\ (a.p.session_is_active = b) /\ (~b => Safe(a))
  BY DEF Noticed, Safe, State, Managers
<1> HIDE DEF a
<1>3. CASE b
  <2>1. IdleSetMode(a, NORMAL, r) \in State /\ Safe(IdleSetMode(a, NORMAL, r))
    BY <1>0, <1>1, <1>2, <1>3, IdleSetModeType, IdleSetModeSafe
  <2>2. SessionActiveChanged(s, b, r) = MaybeClaimLight(IdleSetMode(a, NORMAL, r))
    BY <1>3 DEF SessionActiveChanged, a
  <2> QED
    BY <2>1, <2>2, MonitorsSafe
<1>4. CASE ~b
  <2>1. SessionActiveChanged(s, b, r) = MaybeClaimLight(a)
    BY <1>4 DEF SessionActiveChanged, a
  <2> QED
    BY <1>1, <1>2, <1>4, <2>1, MonitorsSafe
<1> QED
  BY <1>3, <1>4

-------------------------------------------------------------------------------
(* The invariant.                                                          *)

LEMMA InitSafe ==
  Init => IdleIsEscapable
<1> SUFFICES ASSUME NEW known \in BOOLEAN, NEW active \in BOOLEAN, NEW lid \in BOOLEAN,
                    NEW level \in KbdLevels, NEW inhibited \in SUBSET Inhibitors,
                    NEW source \in Sources, NEW settings \in Settings,
                    NEW control \in BOOLEAN, NEW events \in Scenarios,
                    LET e == [session_known |-> known,
                              inhibited |-> IF known THEN inhibited ELSE {},
                              source |-> source, settings |-> settings,
                              ppd_running |-> FALSE,
                              shell_control |-> control, iio_proxy |-> FALSE,
                              sensor_claimed |-> FALSE,
                              dimming |-> FALSE, sleeping |-> FALSE, activity |-> FALSE,
                              events |-> events]
                        s == Startup(e, active, lid, level)
                    IN  pm = s.p /\ env = s.e
             PROVE  IdleIsEscapable
  BY DEF Init
<1> DEFINE e == [session_known |-> known,
                 inhibited |-> IF known THEN inhibited ELSE {},
                 source |-> source, settings |-> settings, ppd_running |-> FALSE,
                 shell_control |-> control, iio_proxy |-> FALSE,
                 sensor_claimed |-> FALSE,
                 dimming |-> FALSE, sleeping |-> FALSE, activity |-> FALSE,
                 events |-> events]
<1>0. e \in Environments /\ pm = Startup(e, active, lid, level).p
      /\ env = Startup(e, active, lid, level).e
  BY DEF Environments
<1> HIDE DEF e
<1> DEFINE p == [session_is_active |-> active, screensaver_active |-> FALSE,
                 lid_is_closed |-> lid, battery_is_low |-> FALSE,
                 power_saver_enabled |-> FALSE,
                 current_idle_mode |-> NORMAL, previous_idle_mode |-> NORMAL,
                 temporary_unidle |-> FALSE,
                 watch |-> [w \in Watches |-> "none"], after |-> [w \in Watches |-> 0],
                 user_active_id |-> FALSE,
                 notification |-> FALSE, sleep_action_type |-> "blank",
                 screen_blanked |-> FALSE, light_claimed |-> FALSE,
                 kbd |-> [now |-> level, old |-> NoLevel, pre_dim |-> NoLevel]]
           s == [p |-> p, e |-> e]
           c == IdleConfigure(s, Accepted)
<1>1. p \in Managers
  BY DEF Managers, IdleModes, NORMAL, SLEEP, WatchStates, ActionTypes, KbdRecords
<1>2. Safe(s)
  BY DEF Safe, NORMAL
<1>3. Startup(e, active, lid, level) = EnableMonitors(c)
  BY DEF Startup
<1> HIDE DEF p
<1>4. s \in State /\ Accepted \in KbdReplies
  BY <1>0, <1>1 DEF State, Accepted, KbdReplies
<1> HIDE DEF s
<1>5. c \in State /\ Safe(c)
  BY <1>2, <1>4, ConfigureType, ConfigureSafe
<1> HIDE DEF c
<1>6. Safe(EnableMonitors(c))
  BY <1>5, MonitorsSafe
<1> QED
  BY <1>0, <1>3, <1>6 DEF Safe, IdleIsEscapable

\* Every action commits a safe state that a helper made of the present one.
LEMMA NextSafe ==
  TypeOK /\ IdleIsEscapable /\ [Next]_vars => IdleIsEscapable'
<1> SUFFICES ASSUME TypeOK, IdleIsEscapable, [Next]_vars
             PROVE  IdleIsEscapable'
  OBVIOUS
<1> USE RepliesType
<1>0. /\ Here \in State /\ Here.p = pm /\ Here.e = env
      /\ NORMAL \in IdleModes /\ DIM \in IdleModes /\ BLANK \in IdleModes /\ SLEEP \in IdleModes
  BY HereType DEF IdleModes, NORMAL, DIM, BLANK, SLEEP
<1>a. Safe(Here)
  BY <1>0 DEF Safe, IdleIsEscapable
<1>b. ASSUME NEW s, Step(s), Safe(s)
      PROVE  IdleIsEscapable'
  BY <1>b DEF Step, Safe, IdleIsEscapable
<1>c. ASSUME NEW s \in State, Safe(s), NEW r \in Replies, Step(IdleConfigure(s, r))
      PROVE  IdleIsEscapable'
  BY <1>b, <1>c, ConfigureSafe
<1>1. ASSUME NEW w \in Watches, WatchFires(w)
      PROVE  IdleIsEscapable'
  <2> DEFINE f == [Here EXCEPT !.p.watch[w] = "fired"]
             n == [f EXCEPT !.p.notification = ShowSleepWarnings,
                            !.p.user_active_id = TRUE]
  <2>1. f \in State
    BY <1>0 DEF State, Managers, WatchStates
  <2>2. Safe(f)
    BY <1>0, <1>a DEF Safe, State, Managers
  <2>3. n.p.user_active_id
    BY <2>1 DEF State, Managers
  <2> HIDE DEF f, n
  <2>4. PICK r \in Replies :
          Step(CASE w = "dim"     -> IdleSetModeNoTemp(f, DIM, r)
                 [] w = "blank"   -> IdleSetModeNoTemp(f, BLANK, r)
                 [] w = "sleep"   -> IdleSetModeNoTemp(f, SLEEP, r)
                 [] w = "warning" -> n)
    BY <1>1 DEF WatchFires, f, n
  <2>5. ASSUME NEW mode \in IdleModes
        PROVE  Safe(IdleSetModeNoTemp(f, mode, r))
    BY <2>1, <2>2, UnidleSafe
  <2>6. CASE w = "dim"
    BY <1>0, <1>b, <2>4, <2>5, <2>6
  <2>7. CASE w = "blank"
    BY <1>0, <1>b, <2>4, <2>5, <2>7
  <2>8. CASE w = "sleep"
    BY <1>0, <1>b, <2>4, <2>5, <2>8
  <2>9. CASE w = "warning"
    BY <1>b, <2>3, <2>4, <2>9 DEF Safe
  <2> QED
    BY <2>6, <2>7, <2>8, <2>9 DEF Watches
<1>2. CASE IdleBecameActive
  <2> DEFINE h == [Here EXCEPT !.e.activity = FALSE]
  <2>1. h \in State
    BY <1>0 DEF State, Environments
  <2>2. Safe(h)
    BY <1>0, <1>a DEF Safe, State, Environments
  <2> HIDE DEF h
  <2>3. PICK r \in Replies :
          LET u == [h EXCEPT !.p.temporary_unidle = FALSE]
              n == IdleSetMode([u EXCEPT !.p.notification = FALSE], NORMAL, r)
          IN  Step([n EXCEPT !.p.user_active_id = FALSE])
    BY <1>2 DEF IdleBecameActive, SetTemporaryUnidle, h
  <2> DEFINE u == [h EXCEPT !.p.temporary_unidle = FALSE]
             q == [u EXCEPT !.p.notification = FALSE]
             n == IdleSetMode(q, NORMAL, r)
             x == [n EXCEPT !.p.user_active_id = FALSE]
  <2>4. Step(x)
    BY <2>3
  <2>5. u \in State
    BY <1>0, <2>1, FieldsType
  <2>6. ~u.p.temporary_unidle
    BY <2>1 DEF State, Managers
  <2> HIDE DEF u
  <2>7. q \in State
    BY <1>0, <2>5, FieldsType
  <2>8. ~q.p.notification /\ ~q.p.temporary_unidle
    BY <2>5, <2>6 DEF State, Managers
  <2> HIDE DEF q
  <2>9. n \in State /\ SameSession(q, n)
        /\ (~q.p.session_is_active => n = q)
        /\ (q.p.session_is_active => n.p.current_idle_mode = NORMAL /\ ~n.p.screen_blanked)
    BY <1>0, <2>7, IdleSetModeType, IdleSetModeEffect
  <2> HIDE DEF n
  <2>10. Safe(x)
    BY <2>8, <2>9 DEF Safe, SameSession, State, Managers
  <2> QED
    BY <1>b, <2>4, <2>10
<1>3. CASE TemporaryUnidleDone
  <2>1. PICK r \in Replies :
          Step([IdleSetMode(Here, pm.previous_idle_mode, r) EXCEPT !.p.temporary_unidle = FALSE])
    BY <1>3 DEF TemporaryUnidleDone
  <2>2. pm.previous_idle_mode \in IdleModes
    BY DEF TypeOK, Managers
  <2> DEFINE n == IdleSetMode(Here, pm.previous_idle_mode, r)
  <2>3. n \in State /\ Safe(n)
    BY <1>0, <1>a, <2>2, IdleSetModeType, IdleSetModeSafe
  <2>4. Step([n EXCEPT !.p.temporary_unidle = FALSE])
    BY <2>1
  <2> HIDE DEF n
  <2>5. Safe([n EXCEPT !.p.temporary_unidle = FALSE])
    BY <1>0, <2>3, FieldsSafe
  <2> QED
    BY <1>b, <2>4, <2>5
<1>4. CASE UserActivity
  <2>1. ASSUME NEW f, NEW b
        PROVE  Safe([Here EXCEPT !.p.watch = f, !.e.activity = b])
    BY <1>0, <1>a DEF Safe, State, Managers, Environments
  <2>2. PICK f, b : Step([Here EXCEPT !.p.watch = f, !.e.activity = b])
    BY <1>0, <1>4 DEF UserActivity
  <2> QED
    BY <1>b, <2>1, <2>2
<1>5. CASE ScreensaverActiveChanged
  <2> DEFINE h == [Here EXCEPT !.p.screensaver_active = ~pm.screensaver_active]
  <2>1. h \in State
    BY <1>0, FieldsType
  <2>2. Safe(h)
    BY <1>0, <1>a DEF Safe, State, Managers
  <2> HIDE DEF h
  <2>3. PICK r \in Replies :
          Step(IF ~pm.screensaver_active THEN IdleSetMode(IdleConfigure(h, r), BLANK, r)
               ELSE IdleConfigure(h, r))
    BY <1>5 DEF ScreensaverActiveChanged, h
  <2>4. IdleConfigure(h, r) \in State /\ Safe(IdleConfigure(h, r))
    BY <2>1, <2>2, ConfigureType, ConfigureSafe
  <2>5. Safe(IdleSetMode(IdleConfigure(h, r), BLANK, r))
    BY <1>0, <2>4, IdleSetModeSafe
  <2> QED
    BY <1>b, <2>3, <2>4, <2>5
<1>6. CASE WakeUpScreen
  <2>1. PICK r \in Replies : Step(UpdateTemporaryUnidle(Here, r))
    BY <1>6 DEF WakeUpScreen
  <2> QED
    BY <1>0, <1>a, <1>b, <2>1, UnidleSafe
<1>7. CASE OnBatteryChanged
  <2>1. PICK r \in Replies, source \in Sources :
          Step(UpdateTemporaryUnidle(IdleConfigure([Here EXCEPT !.e.source = source], r), r))
    BY <1>7 DEF OnBatteryChanged
  <2> DEFINE h == [Here EXCEPT !.e.source = source]
             c == IdleConfigure(h, r)
  <2>2. h \in State
    BY <1>0 DEF State, Environments
  <2>3. Safe(h)
    BY <1>0, <1>a DEF Safe, State, Environments
  <2>4. Step(UpdateTemporaryUnidle(c, r))
    BY <2>1
  <2> HIDE DEF h
  <2>5. c \in State /\ Safe(c)
    BY <2>2, <2>3, ConfigureType, ConfigureSafe
  <2> HIDE DEF c
  <2>6. Safe(UpdateTemporaryUnidle(c, r))
    BY <1>0, <2>5, UnidleSafe
  <2> QED
    BY <1>b, <2>4, <2>6
<1>8. CASE LidChanged
  <2>1. Step([Here EXCEPT !.p.lid_is_closed = ~pm.lid_is_closed])
    BY <1>0, <1>8 DEF LidChanged
  <2>2. Safe([Here EXCEPT !.p.lid_is_closed = ~pm.lid_is_closed])
    BY <1>0, <1>a DEF Safe, State, Managers
  <2> QED
    BY <1>b, <2>1, <2>2
<1>9. CASE SessionPropertiesChanged
  <2>1. PICK active \in BOOLEAN, inhibited \in SUBSET Inhibitors, r \in Replies :
          LET s == [Here EXCEPT !.e.session_known = TRUE, !.e.inhibited = inhibited]
              a == IF active = pm.session_is_active /\ env.session_known
                   THEN s ELSE SessionActiveChanged(s, active, r)
          IN  Step(IF inhibited = env.inhibited /\ env.session_known
                   THEN a ELSE IdleConfigure(a, r))
    BY <1>9 DEF SessionPropertiesChanged
  <2> DEFINE s == [Here EXCEPT !.e.session_known = TRUE, !.e.inhibited = inhibited]
             a == IF active = pm.session_is_active /\ env.session_known
                  THEN s ELSE SessionActiveChanged(s, active, r)
  <2>2. Step(IF inhibited = env.inhibited /\ env.session_known
             THEN a ELSE IdleConfigure(a, r))
    BY <2>1
  <2>3. s \in State
    BY <1>0 DEF State, Environments
  <2>4. Safe(s)
    BY <1>0, <1>a DEF Safe, State, Environments
  <2> HIDE DEF s
  <2>5. a \in State /\ Safe(a)
    BY <2>3, <2>4, SessionType, SessionSafe
  <2> HIDE DEF a
  <2> QED
    BY <1>b, <1>c, <2>2, <2>5
<1>10. CASE SettingChanged
  <2>1. PICK settings \in Settings, r \in Replies :
          LET s == [Here EXCEPT !.e.settings = settings]
          IN  Step(IF SameIdleKeys(settings, env.settings)
                   THEN MaybeClaimLight(s) ELSE IdleConfigure(s, r))
    BY <1>10 DEF SettingChanged
  <2> DEFINE s == [Here EXCEPT !.e.settings = settings]
  <2>2. Step(IF SameIdleKeys(settings, env.settings)
             THEN MaybeClaimLight(s) ELSE IdleConfigure(s, r))
    BY <2>1
  <2>3. s \in State
    BY <1>0 DEF State, Environments
  <2>4. Safe(s)
    BY <1>0, <1>a DEF Safe, State, Environments
  <2> HIDE DEF s
  <2>5. Safe(MaybeClaimLight(s))
    BY <2>3, <2>4, MonitorsSafe
  <2> QED
    BY <1>b, <1>c, <2>2, <2>3, <2>4, <2>5
<1>11. CASE BatteryLowChanged
  <2> DEFINE h == [Here EXCEPT !.p.battery_is_low = ~pm.battery_is_low]
  <2>1. PICK r \in Replies : Step(IdleConfigure(h, r))
    BY <1>0, <1>11 DEF BatteryLowChanged
  <2>2. h \in State
    BY <1>0, FieldsType
  <2>3. Safe(h)
    BY <1>0, <1>a DEF Safe, State, Managers
  <2> HIDE DEF h
  <2> QED
    BY <1>c, <2>1, <2>2, <2>3
<1>12. CASE PowerProfileShown
  <2>1. PICK saver \in BOOLEAN, r \in Replies :
          LET s == [Here EXCEPT !.e.ppd_running = TRUE]
          IN  Step(IF saver = pm.power_saver_enabled
                   THEN s
                   ELSE IdleConfigure([s EXCEPT !.p.power_saver_enabled = saver], r))
    BY <1>12 DEF PowerProfileShown
  <2> DEFINE s == [Here EXCEPT !.e.ppd_running = TRUE]
             h == [s EXCEPT !.p.power_saver_enabled = saver]
  <2>2. Step(IF saver = pm.power_saver_enabled THEN s ELSE IdleConfigure(h, r))
    BY <2>1
  <2>3. s \in State
    BY <1>0 DEF State, Environments
  <2>4. Safe(s)
    BY <1>0, <1>a DEF Safe, State, Environments
  <2> HIDE DEF s
  <2>5. h \in State
    BY <1>0, <2>3, FieldsType
  <2>6. Safe(h)
    BY <2>3, <2>4 DEF Safe, State, Managers
  <2> HIDE DEF h
  <2> QED
    BY <1>b, <1>c, <2>2, <2>4, <2>5, <2>6
<1>13. CASE PowerProfilesVanished
  <2> DEFINE h == [Here EXCEPT !.e.ppd_running = FALSE]
  <2>1. PICK r \in Replies : Step(IdleConfigure(h, r))
    BY <1>13 DEF PowerProfilesVanished
  <2>2. h \in State
    BY <1>0 DEF State, Environments
  <2>3. Safe(h)
    BY <1>0, <1>a DEF Safe, State, Environments
  <2> HIDE DEF h
  <2> QED
    BY <1>c, <2>1, <2>2, <2>3
<1>14. CASE PrepareForSleep
  <2> DEFINE h == [Here EXCEPT !.e.sleeping = TRUE, !.p.notification = FALSE]
  <2>1. Step(DisableMonitors(h))
    BY <1>14 DEF PrepareForSleep
  <2>2. h \in State
    BY <1>0 DEF State, Managers, Environments
  <2>3. Safe(h) /\ h.e.sleeping
    BY <1>0, <1>a DEF Safe, State, Managers, Environments
  <2> HIDE DEF h
  <2> QED
    BY <1>b, <2>1, <2>2, <2>3, MonitorsSafe
<1>15. CASE ResumeFromSleep
  <2> DEFINE h == [Here EXCEPT !.e.sleeping = FALSE]
             n == EnableMonitors(h)
  <2>1. Step(n)
    BY <1>15 DEF ResumeFromSleep
  <2>2. h \in State
    BY <1>0 DEF State, Environments
  <2>3. /\ h.p = pm
    BY <1>0 DEF State, Environments
  <2> HIDE DEF h
  <2>4. /\ SameSession(h, n) /\ n.p.current_idle_mode = h.p.current_idle_mode
        /\ n.p.user_active_id = h.p.user_active_id /\ ~n.p.screen_blanked
    BY <2>2, LightEffect
  <2> HIDE DEF n
  <2>5. Safe(n)
    BY <1>0, <1>a, <2>3, <2>4 DEF Safe, SameSession
  <2> QED
    BY <1>b, <2>1, <2>5
<1>16. CASE IioProxyAppeared
  <2> DEFINE h == [Here EXCEPT !.e.iio_proxy = TRUE]
  <2>1. Step(MaybeClaimLight(h))
    BY <1>16 DEF IioProxyAppeared
  <2>2. h \in State
    BY <1>0 DEF State, Environments
  <2>3. Safe(h)
    BY <1>0, <1>a DEF Safe, State, Environments
  <2> HIDE DEF h
  <2> QED
    BY <1>b, <2>1, <2>2, <2>3, MonitorsSafe
<1>17. CASE IioProxyVanished
  <2> DEFINE h == [Here EXCEPT !.e.iio_proxy = FALSE, !.e.sensor_claimed = FALSE]
  <2>1. Step(h)
    BY <1>17 DEF IioProxyVanished
  <2>2. Safe(h)
    BY <1>0, <1>a DEF Safe, State, Environments
  <2> QED
    BY <1>b, <2>1, <2>2
<1>s. CASE BrightnessControlChanges
  <2> DEFINE h == [Here EXCEPT !.e.shell_control = ~env.shell_control]
  <2>1. Step(h)
    BY <1>0, <1>s DEF BrightnessControlChanges
  <2>2. Safe(h)
    BY <1>0, <1>a DEF Safe, State, Environments
  <2> QED
    BY <1>b, <2>1, <2>2
<1>18. CASE NotificationDismissed
  <2>1. Step([Here EXCEPT !.p.notification = FALSE])
    BY <1>18 DEF NotificationDismissed
  <2> QED
    BY <1>0, <1>a, <1>b, <2>1, FieldsSafe
<1>19. CASE KbdStep \/ KbdToggleCall \/ KbdSetBrightness \/ KbdBrightnessChanged
  <2>1. \E k : Step([Here EXCEPT !.p.kbd = k])
    <3>1. CASE KbdStep
      BY <3>1 DEF KbdStep
    <3>2. CASE KbdToggleCall
      BY <3>2 DEF KbdToggleCall
    <3>3. CASE KbdSetBrightness
      BY <3>3 DEF KbdSetBrightness
    <3>4. CASE KbdBrightnessChanged
      <4>1. PICK level \in KbdLevels : Step([Here EXCEPT !.p.kbd.now = level])
        BY <3>4 DEF KbdBrightnessChanged
      <4>2. [Here EXCEPT !.p.kbd.now = level]
              = [Here EXCEPT !.p.kbd = [Here.p.kbd EXCEPT !.now = level]]
        OBVIOUS
      <4> QED
        BY <4>1, <4>2
    <3> QED
      BY <1>19, <3>1, <3>2, <3>3, <3>4
  <2>2. PICK k : Step([Here EXCEPT !.p.kbd = k])
    BY <2>1
  <2>3. Safe([Here EXCEPT !.p.kbd = k])
    BY <1>0, <1>a DEF Safe, State, Managers
  <2> QED
    BY <1>b, <2>2, <2>3
<1>20. CASE UNCHANGED vars
  BY <1>20 DEF vars, IdleIsEscapable
<1> QED
  BY <1>1, <1>2, <1>3, <1>4, <1>5, <1>6, <1>7, <1>8, <1>9, <1>10, <1>11, <1>12, <1>13,
     <1>14, <1>15, <1>16, <1>17, <1>s, <1>18, <1>19, <1>20
  DEF Next, SystemNext, EnvironmentNext

\* Wherever the idle machine stands - dimmed, blanked, asleep, only back for a
\* moment, or warning that it will sleep - the daemon watches for the user,
\* and the next key press brings the session back: for every order of watches,
\* power, session, screensaver, inhibitor and settings changes.
THEOREM EscapeCorrect == Spec => []IdleIsEscapable
<1>1. Init => IdleIsEscapable
  BY InitSafe
<1>2. TypeOK /\ IdleIsEscapable /\ [Next]_vars => IdleIsEscapable'
  BY NextSafe
<1> QED
  BY <1>1, <1>2, TypeCorrect, PTL DEF Spec

-------------------------------------------------------------------------------
(* Views.  A state is seen in four of them, tuples of its fields.  A helper  *)
(* keeps the views it does not work on, which is one equation each; what it  *)
(* does to the others is said field by field.                              *)

\* What idle_set_mode and idle_configure only read.
Around(s) ==
  <<s.p.session_is_active, s.p.screensaver_active, s.p.lid_is_closed, s.p.battery_is_low,
    s.p.power_saver_enabled, s.e.session_known, s.e.inhibited, s.e.source, s.e.settings,
    s.e.ppd_running, s.e.shell_control, s.e.iio_proxy, s.e.sleeping, s.e.activity,
    s.e.events>>

Watching(s) == <<s.p.watch, s.p.after, s.p.sleep_action_type, s.p.notification>>

Standing(s) ==
  <<s.p.current_idle_mode, s.p.previous_idle_mode, s.p.temporary_unidle, s.p.user_active_id>>

Looks(s) ==
  <<s.p.screen_blanked, s.e.dimming, s.p.kbd, s.p.light_claimed, s.e.sensor_claimed>>

LEMMA SameAround ==
  ASSUME NEW s, NEW t, Around(t) = Around(s)
  PROVE  /\ t.p.session_is_active = s.p.session_is_active
         /\ t.p.screensaver_active = s.p.screensaver_active
         /\ t.p.lid_is_closed = s.p.lid_is_closed
         /\ t.p.battery_is_low = s.p.battery_is_low
         /\ t.p.power_saver_enabled = s.p.power_saver_enabled
         /\ t.e.session_known = s.e.session_known /\ t.e.inhibited = s.e.inhibited
         /\ t.e.source = s.e.source /\ t.e.settings = s.e.settings
         /\ t.e.ppd_running = s.e.ppd_running /\ t.e.shell_control = s.e.shell_control
         /\ t.e.iio_proxy = s.e.iio_proxy
         /\ t.e.sleeping = s.e.sleeping /\ t.e.activity = s.e.activity
         /\ t.e.events = s.e.events
BY DEF Around

LEMMA SameStanding ==
  ASSUME NEW s, NEW t, Standing(t) = Standing(s)
  PROVE  /\ t.p.current_idle_mode = s.p.current_idle_mode
         /\ t.p.previous_idle_mode = s.p.previous_idle_mode
         /\ t.p.temporary_unidle = s.p.temporary_unidle
         /\ t.p.user_active_id = s.p.user_active_id
BY DEF Standing

LEMMA SameLooks ==
  ASSUME NEW s, NEW t, Looks(t) = Looks(s)
  PROVE  /\ t.p.screen_blanked = s.p.screen_blanked /\ t.e.dimming = s.e.dimming
         /\ t.p.kbd = s.p.kbd /\ t.p.light_claimed = s.p.light_claimed
         /\ t.e.sensor_claimed = s.e.sensor_claimed
BY DEF Looks

-------------------------------------------------------------------------------
(* The light sensor.                                                       *)

\* The sensor daemon serves no claim this daemon has forgotten, and serves
\* every claim unless it was restarted.
Served(s) ==
  /\ s.e.sensor_claimed => s.e.iio_proxy /\ s.p.light_claimed
  /\ "sensor" \notin s.e.events => s.e.sensor_claimed = s.p.light_claimed

\* The reasons for a claim that are the session's own.
Wanted(s) == s.p.session_is_active /\ ~s.p.screen_blanked /\ s.e.settings.ambient

\* The flag follows whatever is looked at when it changes, which the shell's
\* control of the brightness is not.
LightFollows(s) ==
  /\ s.e.iio_proxy /\ "shell" \notin s.e.events =>
       s.p.light_claimed = ShouldClaimLight(s.p, s.e)
  /\ s.e.iio_proxy /\ s.p.light_claimed => Wanted(s)
  /\ Served(s)

LEMMA SameLight ==
  ASSUME NEW s, NEW t, Around(t) = Around(s), Looks(t) = Looks(s)
  PROVE  /\ Served(s) => Served(t)
         /\ LightFollows(s) => LightFollows(t)
<1>1. ShouldClaimLight(t.p, t.e) = ShouldClaimLight(s.p, s.e)
  BY SameAround, SameLooks DEF ShouldClaimLight
<1>2. Wanted(t) = Wanted(s)
  BY SameAround, SameLooks DEF Wanted
<1> QED
  BY <1>1, <1>2, SameAround, SameLooks DEF LightFollows, Served

LEMMA LightShows ==
  ASSUME NEW s \in State
  PROVE  LET t == MaybeClaimLight(s)
         IN /\ Around(t) = Around(s) /\ Watching(t) = Watching(s)
            /\ Standing(t) = Standing(s)
            /\ t.p.screen_blanked = s.p.screen_blanked /\ t.e.dimming = s.e.dimming
            /\ t.p.kbd = s.p.kbd
            /\ Served(s) => LightFollows(t)
<1> DEFINE t == MaybeClaimLight(s)
<1>1. /\ s.p \in Managers /\ s.e \in Environments
      /\ ShouldClaimLight(s.p, s.e) \in BOOLEAN /\ s.p.light_claimed \in BOOLEAN
  BY ReadersType DEF State, Managers
<1>2. CASE ~s.e.iio_proxy \/ s.p.light_claimed = ShouldClaimLight(s.p, s.e)
  <2>1. t = s
    BY <1>2 DEF MaybeClaimLight
  <2> QED
    BY <1>2, <2>1 DEF LightFollows, Wanted, ShouldClaimLight
<1>3. CASE ~(~s.e.iio_proxy \/ s.p.light_claimed = ShouldClaimLight(s.p, s.e))
  <2> DEFINE should == ShouldClaimLight(s.p, s.e)
             claimed == ~s.p.light_claimed
  <2>1. t = [s EXCEPT !.p.light_claimed = claimed, !.e.sensor_claimed = should]
    BY <1>3 DEF MaybeClaimLight
  <2>2. claimed = should
    BY <1>1, <1>3
  <2> HIDE DEF t, should, claimed
  <2>3. /\ Around(t) = Around(s) /\ Watching(t) = Watching(s) /\ Standing(t) = Standing(s)
        /\ t.p.screen_blanked = s.p.screen_blanked /\ t.e.dimming = s.e.dimming
        /\ t.p.kbd = s.p.kbd
        /\ t.p.light_claimed = claimed /\ t.e.sensor_claimed = should
    BY <1>1, <2>1 DEF Around, Watching, Standing, Managers, Environments, State
  <2>4. ShouldClaimLight(t.p, t.e) = should
    BY <2>3, SameAround DEF ShouldClaimLight, should
  <2>5. LightFollows(t)
    <3>1. t.e.iio_proxy
      BY <1>3, <2>3, SameAround
    <3>2. claimed => Wanted(t)
      BY <2>2, <2>4 DEF ShouldClaimLight, Wanted
    <3> QED
      BY <2>2, <2>3, <2>4, <3>1, <3>2 DEF LightFollows, Served
  <2> QED
    BY <2>3, <2>5 DEF t
<1> QED
  BY <1>2, <1>3

LEMMA MonitorsShow ==
  ASSUME NEW s \in State
  PROVE  /\ LET t == EnableMonitors(s)
            IN /\ Around(t) = Around(s) /\ Watching(t) = Watching(s)
               /\ Standing(t) = Standing(s)
               /\ ~t.p.screen_blanked /\ t.e.dimming = s.e.dimming /\ t.p.kbd = s.p.kbd
               /\ Served(s) => LightFollows(t)
         /\ LET t == DisableMonitors(s)
            IN /\ Around(t) = Around(s) /\ Watching(t) = Watching(s)
               /\ Standing(t) = Standing(s)
               /\ t.p.screen_blanked /\ t.e.dimming = s.e.dimming /\ t.p.kbd = s.p.kbd
               /\ Served(s) => LightFollows(t)
<1>1. ASSUME NEW x \in BOOLEAN
      PROVE  LET t == MaybeClaimLight([s EXCEPT !.p.screen_blanked = x])
             IN /\ Around(t) = Around(s) /\ Watching(t) = Watching(s)
                /\ Standing(t) = Standing(s)
                /\ t.p.screen_blanked = x /\ t.e.dimming = s.e.dimming /\ t.p.kbd = s.p.kbd
                /\ Served(s) => LightFollows(t)
  <2> DEFINE u == [s EXCEPT !.p.screen_blanked = x]
             t == MaybeClaimLight(u)
  <2>1. /\ u \in State /\ Around(u) = Around(s) /\ Watching(u) = Watching(s)
        /\ Standing(u) = Standing(s)
        /\ u.p.screen_blanked = x /\ u.e.dimming = s.e.dimming /\ u.p.kbd = s.p.kbd
        /\ Served(s) => Served(u)
    BY DEF Around, Watching, Standing, Served, State, Managers, Environments
  <2> HIDE DEF u
  <2>2. /\ Around(t) = Around(u) /\ Watching(t) = Watching(u) /\ Standing(t) = Standing(u)
        /\ t.p.screen_blanked = u.p.screen_blanked /\ t.e.dimming = u.e.dimming
        /\ t.p.kbd = u.p.kbd
        /\ Served(u) => LightFollows(t)
    BY <2>1, LightShows
  <2> HIDE DEF t
  <2>3. /\ Around(t) = Around(s) /\ Watching(t) = Watching(s) /\ Standing(t) = Standing(s)
        /\ t.p.screen_blanked = x /\ t.e.dimming = s.e.dimming /\ t.p.kbd = s.p.kbd
        /\ Served(s) => LightFollows(t)
    BY <2>1, <2>2
  <2> QED
    BY <2>3 DEF t, u
<1>2. EnableMonitors(s) = MaybeClaimLight([s EXCEPT !.p.screen_blanked = FALSE])
      /\ DisableMonitors(s) = MaybeClaimLight([s EXCEPT !.p.screen_blanked = TRUE])
  BY DEF EnableMonitors, DisableMonitors
<1> QED
  BY <1>1, <1>2

-------------------------------------------------------------------------------
(* The modes.                                                              *)

\* The keyboard on entering a mode.
KbdIn(k, mode, r) ==
  IF mode = DIM THEN KbdDim(k, r.set)
  ELSE IF mode = BLANK THEN KbdBlank(k, r.toggle)
  ELSE IF mode = SLEEP THEN k
  ELSE KbdWake(k, r.toggle, r.set)

\* The lights on entering a mode: NORMAL turns them on, the others never do.
Entered(s, t, mode, r) ==
  /\ t.p.kbd = KbdIn(s.p.kbd, mode, r)
  /\ mode = NORMAL => ~t.p.screen_blanked /\ ~t.e.dimming
  /\ mode # NORMAL => /\ s.p.screen_blanked => t.p.screen_blanked
                      /\ s.e.dimming => t.e.dimming
  /\ mode = DIM => t.e.dimming
  /\ mode = BLANK => t.p.screen_blanked
  /\ LightFollows(s) \/ (mode = NORMAL /\ Served(s)) => LightFollows(t)

\* Neither the keyboard nor the dimming is what the sensor follows.
Relit(s, t, k) ==
  /\ Around(t) = Around(s) /\ Watching(t) = Watching(s) /\ Standing(t) = Standing(s)
  /\ t.p.screen_blanked = s.p.screen_blanked /\ t.p.kbd = k
  /\ LightFollows(s) => LightFollows(t)

LEMMA RelitShows ==
  ASSUME NEW s \in State, NEW k
  PROVE  /\ LET t == [s EXCEPT !.p.kbd = k]
            IN Relit(s, t, k) /\ t.e.dimming = s.e.dimming
         /\ LET t == [s EXCEPT !.p.kbd = k, !.e.dimming = TRUE]
            IN Relit(s, t, k) /\ t.e.dimming
         /\ LET t == [s EXCEPT !.e.dimming = FALSE, !.p.kbd = k]
            IN Relit(s, t, k) /\ ~t.e.dimming
<1>1. ASSUME NEW t, Around(t) = Around(s), t.p.screen_blanked = s.p.screen_blanked,
             t.p.light_claimed = s.p.light_claimed, t.e.sensor_claimed = s.e.sensor_claimed
      PROVE  LightFollows(s) => LightFollows(t)
  <2>1. ShouldClaimLight(t.p, t.e) = ShouldClaimLight(s.p, s.e)
    BY <1>1, SameAround DEF ShouldClaimLight
  <2>2. Wanted(t) = Wanted(s)
    BY <1>1, SameAround DEF Wanted
  <2> QED
    BY <1>1, <2>1, <2>2, SameAround DEF LightFollows, Served
<1>2. LET t == [s EXCEPT !.p.kbd = k]
      IN Relit(s, t, k) /\ t.e.dimming = s.e.dimming
  <2> DEFINE t == [s EXCEPT !.p.kbd = k]
  <2>1. /\ Around(t) = Around(s) /\ Watching(t) = Watching(s) /\ Standing(t) = Standing(s)
        /\ t.p.screen_blanked = s.p.screen_blanked /\ t.p.kbd = k
        /\ t.p.light_claimed = s.p.light_claimed /\ t.e.sensor_claimed = s.e.sensor_claimed
    BY DEF Around, Watching, Standing, State, Managers, Environments
  <2>2. t.e.dimming = s.e.dimming
    BY DEF State, Managers, Environments
  <2> HIDE DEF t
  <2>3. LightFollows(s) => LightFollows(t)
    BY <1>1, <2>1
  <2> QED
    BY <2>1, <2>2, <2>3 DEF Relit, t
<1>3. LET t == [s EXCEPT !.p.kbd = k, !.e.dimming = TRUE]
      IN Relit(s, t, k) /\ t.e.dimming
  <2> DEFINE t == [s EXCEPT !.p.kbd = k, !.e.dimming = TRUE]
  <2>1. /\ Around(t) = Around(s) /\ Watching(t) = Watching(s) /\ Standing(t) = Standing(s)
        /\ t.p.screen_blanked = s.p.screen_blanked /\ t.p.kbd = k
        /\ t.p.light_claimed = s.p.light_claimed /\ t.e.sensor_claimed = s.e.sensor_claimed
    BY DEF Around, Watching, Standing, State, Managers, Environments
  <2>2. t.e.dimming
    BY DEF State, Managers, Environments
  <2> HIDE DEF t
  <2>3. LightFollows(s) => LightFollows(t)
    BY <1>1, <2>1
  <2> QED
    BY <2>1, <2>2, <2>3 DEF Relit, t
<1>4. LET t == [s EXCEPT !.e.dimming = FALSE, !.p.kbd = k]
      IN Relit(s, t, k) /\ ~t.e.dimming
  <2> DEFINE t == [s EXCEPT !.e.dimming = FALSE, !.p.kbd = k]
  <2>1. /\ Around(t) = Around(s) /\ Watching(t) = Watching(s) /\ Standing(t) = Standing(s)
        /\ t.p.screen_blanked = s.p.screen_blanked /\ t.p.kbd = k
        /\ t.p.light_claimed = s.p.light_claimed /\ t.e.sensor_claimed = s.e.sensor_claimed
    BY DEF Around, Watching, Standing, State, Managers, Environments
  <2>2. ~t.e.dimming
    BY DEF State, Managers, Environments
  <2> HIDE DEF t
  <2>3. LightFollows(s) => LightFollows(t)
    BY <1>1, <2>1
  <2> QED
    BY <2>1, <2>2, <2>3 DEF Relit, t
<1> QED
  BY <1>2, <1>3, <1>4

LEMMA EnterModeShows ==
  ASSUME NEW s \in State, NEW mode \in IdleModes, NEW r \in KbdReplies
  PROVE  LET t == EnterMode(s, mode, r)
         IN /\ Around(t) = Around(s) /\ Watching(t) = Watching(s)
            /\ Standing(t) = Standing(s)
            /\ Entered(s, t, mode, r)
<1> DEFINE t == EnterMode(s, mode, r)
<1>0. DIM # BLANK /\ DIM # SLEEP /\ BLANK # SLEEP /\ NORMAL \notin {DIM, BLANK, SLEEP}
  BY DEF NORMAL, DIM, BLANK, SLEEP
<1>2. CASE mode = DIM
  <2>1. t = [s EXCEPT !.p.kbd = KbdDim(s.p.kbd, r.set), !.e.dimming = TRUE]
    BY <1>2 DEF EnterMode, DIM, BLANK, SLEEP, NORMAL
  <2> HIDE DEF t
  <2>2. Relit(s, t, KbdDim(s.p.kbd, r.set)) /\ t.e.dimming
    BY <2>1, RelitShows
  <2>3. Entered(s, t, mode, r)
    BY <1>0, <1>2, <2>2 DEF Entered, KbdIn, Relit
  <2> QED
    BY <2>2, <2>3 DEF Relit, t
<1>3. CASE mode = BLANK
  <2> DEFINE d == DisableMonitors(s)
             k == KbdBlank(s.p.kbd, r.toggle)
  <2>1. /\ Around(d) = Around(s) /\ Watching(d) = Watching(s)
        /\ Standing(d) = Standing(s)
        /\ d.p.screen_blanked /\ d.e.dimming = s.e.dimming /\ d.p.kbd = s.p.kbd
        /\ Served(s) => LightFollows(d)
        /\ d \in State
    BY MonitorsShow, LightType
  <2>2. t = [d EXCEPT !.p.kbd = k]
    BY <1>3, <2>1 DEF EnterMode, DIM, BLANK, SLEEP, NORMAL
  <2> HIDE DEF d, k, t
  <2>4. Relit(d, t, k) /\ t.e.dimming = d.e.dimming
    <3>1. d \in State
      BY <2>1
    <3>2. Relit(d, t, k)
      BY <3>1, <2>2, RelitShows
    <3>3. t.e.dimming = d.e.dimming
      BY <3>1, <2>2 DEF State
    <3> QED
      BY <3>2, <3>3
  <2>5. Entered(s, t, mode, r)
    BY <1>0, <1>3, <2>1, <2>4 DEF Entered, KbdIn, LightFollows, Relit, k
  <2> QED
    BY <2>1, <2>4, <2>5 DEF Relit, t
<1>4. CASE mode = SLEEP
  <2>1. t = DoPowerAction(s)
    BY <1>4 DEF EnterMode, DIM, BLANK, SLEEP, NORMAL
  <2>2. t = s \/ t = DisableMonitors(s)
    BY <2>1 DEF DoPowerAction
  <2> HIDE DEF t
  <2>3. /\ Around(t) = Around(s) /\ Watching(t) = Watching(s) /\ Standing(t) = Standing(s)
        /\ s.p.screen_blanked => t.p.screen_blanked
        /\ t.e.dimming = s.e.dimming /\ t.p.kbd = s.p.kbd
        /\ LightFollows(s) => LightFollows(t)
    BY <2>2, MonitorsShow DEF LightFollows
  <2>4. Entered(s, t, mode, r)
    BY <1>0, <1>4, <2>3 DEF Entered, KbdIn
  <2> QED
    BY <2>3, <2>4 DEF t
<1>5. CASE mode = NORMAL
  <2> DEFINE d == EnableMonitors(s)
             k == KbdWake(s.p.kbd, r.toggle, r.set)
  <2>1. /\ Around(d) = Around(s) /\ Watching(d) = Watching(s)
        /\ Standing(d) = Standing(s)
        /\ ~d.p.screen_blanked /\ d.e.dimming = s.e.dimming /\ d.p.kbd = s.p.kbd
        /\ Served(s) => LightFollows(d)
        /\ d \in State
    BY MonitorsShow, LightType
  <2>2. t = [d EXCEPT !.e.dimming = FALSE, !.p.kbd = k]
    BY <1>5, <2>1 DEF EnterMode, DIM, BLANK, SLEEP, NORMAL
  <2> HIDE DEF d, k, t
  <2>4. Relit(d, t, k) /\ ~t.e.dimming
    BY <2>1, <2>2, RelitShows
  <2>5. Entered(s, t, mode, r)
    BY <1>0, <1>5, <2>1, <2>4 DEF Entered, KbdIn, LightFollows, Relit, k
  <2> QED
    BY <2>1, <2>4, <2>5 DEF Relit, t
<1> QED
  BY <1>2, <1>3, <1>4, <1>5 DEF IdleModes, NORMAL, DIM, BLANK, SLEEP

\* A mode is entered by an active session only, and from above or for NORMAL;
\* a sleep that is inhibited only makes the daemon watch for the user.
Moved(s, t, mode, r) ==
  \/ t = s /\ (~s.p.session_is_active \/ mode # NORMAL)
  \/ /\ mode = SLEEP /\ s.p.session_is_active
     /\ t.p.current_idle_mode = s.p.current_idle_mode
     /\ t.p.user_active_id /\ Looks(t) = Looks(s)
  \/ /\ s.p.session_is_active
     /\ mode = NORMAL \/ mode > s.p.current_idle_mode
     /\ t.p.current_idle_mode = mode
     /\ t.p.user_active_id = (s.p.user_active_id \/ mode # NORMAL)
     /\ Entered(s, t, mode, r)

LEMMA IdleSetModeShows ==
  ASSUME NEW s \in State, NEW mode \in IdleModes, NEW r \in KbdReplies
  PROVE  LET t == IdleSetMode(s, mode, r)
         IN /\ Around(t) = Around(s) /\ Watching(t) = Watching(s)
            /\ t.p.previous_idle_mode = s.p.previous_idle_mode
            /\ t.p.temporary_unidle = s.p.temporary_unidle
            /\ Moved(s, t, mode, r)
<1> DEFINE v == s.p.user_active_id \/ mode # NORMAL
           w == [s EXCEPT !.p.user_active_id = v]
           m == EnterMode(w, mode, r)
           n == [m EXCEPT !.p.current_idle_mode = mode]
<1>0. v \in BOOLEAN /\ (mode # NORMAL => v) /\ s.p.current_idle_mode \in Int /\ mode \in Int
      /\ (mode = SLEEP => mode # NORMAL)
  BY DEF IdleModes, NORMAL, SLEEP, State, Managers
<1>1. w \in State
  BY <1>0, FieldsType
<1>2. /\ Around(w) = Around(s) /\ Watching(w) = Watching(s) /\ Looks(w) = Looks(s)
      /\ w.p.current_idle_mode = s.p.current_idle_mode
      /\ w.p.previous_idle_mode = s.p.previous_idle_mode
      /\ w.p.temporary_unidle = s.p.temporary_unidle /\ w.p.user_active_id = v
  BY DEF Around, Watching, Looks, State, Managers
<1>3. \/ IdleSetMode(s, mode, r) = s /\ (~s.p.session_is_active \/ mode # NORMAL)
      \/ /\ IdleSetMode(s, mode, r) = w /\ mode = SLEEP /\ s.p.session_is_active
      \/ /\ IdleSetMode(s, mode, r) = n /\ s.p.session_is_active
         /\ mode = NORMAL \/ ~(mode <= s.p.current_idle_mode)
  BY Zenon DEF IdleSetMode
<1> HIDE DEF w, v
<1>4. /\ Around(m) = Around(w) /\ Watching(m) = Watching(w)
      /\ Standing(m) = Standing(w) /\ Entered(w, m, mode, r) /\ m \in State
  BY <1>1, EnterModeShows, EnterModeType
<1> HIDE DEF m
<1>5. /\ Around(n) = Around(m) /\ Watching(n) = Watching(m) /\ Looks(n) = Looks(m)
      /\ n.p.current_idle_mode = mode
      /\ n.p.previous_idle_mode = m.p.previous_idle_mode
      /\ n.p.temporary_unidle = m.p.temporary_unidle
      /\ n.p.user_active_id = m.p.user_active_id
  BY <1>4 DEF Around, Watching, Looks, State, Managers
<1> HIDE DEF n
<1>6. /\ Around(n) = Around(s) /\ Watching(n) = Watching(s)
      /\ n.p.previous_idle_mode = s.p.previous_idle_mode
      /\ n.p.temporary_unidle = s.p.temporary_unidle /\ n.p.user_active_id = v
  BY <1>2, <1>4, <1>5, SameStanding
<1>7. Entered(s, n, mode, r)
  <2>1. Served(s) => Served(w)
    BY <1>2, SameLight
  <2>2. (LightFollows(s) => LightFollows(w)) /\ (LightFollows(m) => LightFollows(n))
    BY <1>2, <1>5, SameLight
  <2>3. /\ w.p.kbd = s.p.kbd /\ w.p.screen_blanked = s.p.screen_blanked
        /\ w.e.dimming = s.e.dimming
        /\ n.p.kbd = m.p.kbd /\ n.p.screen_blanked = m.p.screen_blanked
        /\ n.e.dimming = m.e.dimming
    BY <1>2, <1>5, SameLooks
  <2> QED
    BY <1>4, <2>1, <2>2, <2>3 DEF Entered
<1>8. CASE IdleSetMode(s, mode, r) = s /\ (~s.p.session_is_active \/ mode # NORMAL)
  BY <1>8 DEF Moved
<1>9. CASE IdleSetMode(s, mode, r) = w /\ mode = SLEEP /\ s.p.session_is_active
  BY <1>0, <1>2, <1>9 DEF Moved
<1>10. CASE /\ IdleSetMode(s, mode, r) = n /\ s.p.session_is_active
            /\ mode = NORMAL \/ ~(mode <= s.p.current_idle_mode)
  <2>1. Moved(s, n, mode, r)
    BY <1>0, <1>5, <1>6, <1>7, <1>10 DEF Moved, v
  <2> QED
    BY <1>6, <1>10, <2>1
<1> QED
  BY <1>3, <1>8, <1>9, <1>10

-------------------------------------------------------------------------------
(* Waking up, the configuration and the temporary unidle.                  *)

\* NORMAL turns everything on in an active session; another is not touched.
Woken(s, t, r) ==
  /\ s.p.session_is_active =>
       /\ t.p.current_idle_mode = NORMAL /\ ~t.p.screen_blanked /\ ~t.e.dimming
       /\ t.p.kbd = KbdWake(s.p.kbd, r.toggle, r.set)
       /\ Served(s) => LightFollows(t)
  /\ ~s.p.session_is_active =>
       t.p.current_idle_mode = s.p.current_idle_mode /\ Looks(t) = Looks(s)

LEMMA WakeShows ==
  ASSUME NEW s \in State, NEW r \in KbdReplies
  PROVE  LET t == IdleSetMode(s, NORMAL, r)
         IN /\ Around(t) = Around(s) /\ Watching(t) = Watching(s)
            /\ t.p.previous_idle_mode = s.p.previous_idle_mode
            /\ t.p.temporary_unidle = s.p.temporary_unidle
            /\ t.p.user_active_id = s.p.user_active_id
            /\ Woken(s, t, r)
<1> DEFINE t == IdleSetMode(s, NORMAL, r)
<1>0. NORMAL \in IdleModes /\ NORMAL # SLEEP
      /\ ~(NORMAL = DIM) /\ ~(NORMAL = BLANK) /\ ~(NORMAL = SLEEP)
  BY DEF IdleModes, NORMAL, DIM, BLANK, SLEEP
<1>1. /\ Around(t) = Around(s) /\ Watching(t) = Watching(s)
      /\ t.p.previous_idle_mode = s.p.previous_idle_mode
      /\ t.p.temporary_unidle = s.p.temporary_unidle
      /\ Moved(s, t, NORMAL, r)
  BY <1>0, IdleSetModeShows
<1>2. t.p.user_active_id = s.p.user_active_id
  BY <1>0, IdleSetModeEffect
<1> HIDE DEF t
<1>3. Woken(s, t, r)
  <2>1. CASE t = s /\ ~s.p.session_is_active
    BY <2>1 DEF Woken
  <2>2. CASE /\ s.p.session_is_active /\ t.p.current_idle_mode = NORMAL
             /\ Entered(s, t, NORMAL, r)
    BY <1>0, <2>2 DEF Woken, Entered, KbdIn
  <2> QED
    BY <1>0, <1>1, <2>1, <2>2 DEF Moved
<1> QED
  BY <1>1, <1>2, <1>3 DEF t

LEMMA SetWatchShows ==
  ASSUME NEW s \in State, NEW w \in Watches, NEW b \in BOOLEAN, NEW n \in Nat
  PROVE  LET t == SetWatch(s, w, b, n)
         IN /\ Around(t) = Around(s) /\ Standing(t) = Standing(s) /\ Looks(t) = Looks(s)
            /\ t.p.sleep_action_type = s.p.sleep_action_type
            /\ t.p.notification = s.p.notification
  BY DEF SetWatch, Around, Standing, Looks, State, Managers

LEMMA UnwatchShows ==
  ASSUME NEW s \in State, NEW w \in Watches
  PROVE  LET t == SetWatch(s, w, FALSE, 0)
         IN t \in State /\ Around(t) = Around(s) /\ Standing(t) = Standing(s) /\ Looks(t) = Looks(s)
<1> DEFINE t == SetWatch(s, w, FALSE, 0)
<1>1. t \in State
  BY SetWatchType
<1>2. Around(t) = Around(s) /\ Standing(t) = Standing(s) /\ Looks(t) = Looks(s)
  BY SetWatchShows
<1> QED
  BY <1>1, <1>2

\* The branch of idle_configure for a session that may not go idle.
StoodDown(s, t, r) ==
  /\ s.e.session_known
  /\ ~s.p.session_is_active \/ ("idle" \in s.e.inhibited /\ ~s.p.screensaver_active)
  /\ t.p.previous_idle_mode = s.p.previous_idle_mode
  /\ t.p.user_active_id = s.p.user_active_id
  /\ ~t.p.temporary_unidle
  /\ Woken(s, t, r)

LEMMA StandDownShows ==
  ASSUME NEW s \in State, NEW r \in KbdReplies
  PROVE  LET t == StandDown(s, r)
         IN /\ Around(t) = Around(s)
            /\ t.p.previous_idle_mode = s.p.previous_idle_mode
            /\ t.p.user_active_id = s.p.user_active_id
            /\ ~t.p.temporary_unidle
            /\ Woken(s, t, r)
<1> DEFINE n  == IdleSetMode(s, NORMAL, r)
           c1 == SetWatch(n, "sleep", FALSE, 0)
           c2 == SetWatch(c1, "dim", FALSE, 0)
           c3 == SetWatch(c2, "warning", FALSE, 0)
           d  == [c3 EXCEPT !.p.notification = FALSE]
           t  == [d EXCEPT !.p.temporary_unidle = FALSE]
<1>0. "dim" \in Watches /\ "sleep" \in Watches /\ "warning" \in Watches /\ NORMAL \in IdleModes
  BY DEF Watches, IdleModes, NORMAL, SLEEP
<1>1. StandDown(s, r) = t
  BY DEF StandDown, SetTemporaryUnidle
<1>2. /\ Around(n) = Around(s)
      /\ n.p.previous_idle_mode = s.p.previous_idle_mode
      /\ n.p.user_active_id = s.p.user_active_id
      /\ Woken(s, n, r) /\ n \in State
  BY <1>0, WakeShows, IdleSetModeType
<1> HIDE DEF n
<1>3. /\ c1 \in State /\ Around(c1) = Around(n) /\ Standing(c1) = Standing(n)
      /\ Looks(c1) = Looks(n)
  BY <1>0, <1>2, UnwatchShows
<1> HIDE DEF c1
<1>4. /\ c2 \in State /\ Around(c2) = Around(n) /\ Standing(c2) = Standing(n)
      /\ Looks(c2) = Looks(n)
  BY <1>0, <1>3, UnwatchShows
<1> HIDE DEF c2
<1>5. /\ c3 \in State /\ Around(c3) = Around(n) /\ Standing(c3) = Standing(n)
      /\ Looks(c3) = Looks(n)
  BY <1>0, <1>4, UnwatchShows
<1> HIDE DEF c3
<1>6. /\ Around(t) = Around(c3) /\ Looks(t) = Looks(c3)
      /\ t.p.previous_idle_mode = c3.p.previous_idle_mode
      /\ t.p.user_active_id = c3.p.user_active_id
      /\ t.p.current_idle_mode = c3.p.current_idle_mode
      /\ ~t.p.temporary_unidle
  BY <1>5 DEF Around, Looks, State, Managers
<1> HIDE DEF t
<1>7. Around(t) = Around(n) /\ Looks(t) = Looks(n)
  BY <1>5, <1>6
<1>8. /\ t.p.previous_idle_mode = n.p.previous_idle_mode
      /\ t.p.user_active_id = n.p.user_active_id
      /\ t.p.current_idle_mode = n.p.current_idle_mode
  BY <1>5, <1>6, SameStanding
<1>9. Woken(s, t, r)
  BY <1>2, <1>7, <1>8, SameLooks, SameLight DEF Woken
<1> QED
  BY <1>1, <1>2, <1>6, <1>7, <1>8, <1>9

LEMMA ConfigureShows ==
  ASSUME NEW s \in State, NEW r \in KbdReplies
  PROVE  LET t == IdleConfigure(s, r)
         IN /\ Around(t) = Around(s)
            /\ \/ Standing(t) = Standing(s) /\ Looks(t) = Looks(s)
               \/ StoodDown(s, t, r)
<1>0. {"dim", "blank", "sleep", "warning"} \subseteq Watches
  BY DEF Watches
<1> DEFINE b == SetWatch(s, "blank", s.p.screensaver_active, Msec(SCREENSAVER_TIMEOUT_BLANK))
<1>1. /\ b \in State /\ Around(b) = Around(s) /\ Standing(b) = Standing(s)
      /\ Looks(b) = Looks(s)
  <2>1. s.p.screensaver_active \in BOOLEAN /\ SCREENSAVER_TIMEOUT_BLANK \in Nat
    BY DEF State, Managers, SCREENSAVER_TIMEOUT_BLANK
  <2>2. Msec(SCREENSAVER_TIMEOUT_BLANK) \in Nat
    BY <2>1, MsecType
  <2> QED
    BY <1>0, <2>1, <2>2, SetWatchType, SetWatchShows
<1> HIDE DEF b
<1>2. CASE ~s.e.session_known
  BY <1>2 DEF IdleConfigure
<1>3. CASE /\ s.e.session_known
           /\ ~s.p.session_is_active \/ ("idle" \in s.e.inhibited /\ ~s.p.screensaver_active)
  <2> DEFINE t == StandDown(b, r)
  <2>1. IdleConfigure(s, r) = t
    BY <1>3 DEF IdleConfigure, b
  <2>2. /\ Around(t) = Around(b)
        /\ t.p.previous_idle_mode = b.p.previous_idle_mode
        /\ t.p.user_active_id = b.p.user_active_id
        /\ ~t.p.temporary_unidle
        /\ Woken(b, t, r)
    BY <1>1, StandDownShows
  <2> HIDE DEF t
  <2>3. Woken(s, t, r)
    <3>1. Served(s) => Served(b)
      BY <1>1, SameLight
    <3> QED
      BY <1>1, <2>2, <3>1, SameAround, SameStanding, SameLooks DEF Woken
  <2>4. StoodDown(s, t, r)
    BY <1>1, <1>3, <2>2, <2>3, SameStanding DEF StoodDown
  <2> QED
    BY <1>1, <2>1, <2>2, <2>4
<1>4. CASE /\ s.e.session_known
           /\ ~(~s.p.session_is_active \/ ("idle" \in s.e.inhibited /\ ~s.p.screensaver_active))
  <2> DEFINE c == ConfigureSleep(b)
             t == ConfigureDim(c)
  <2>1. IdleConfigure(s, r) = t
    BY <1>4 DEF IdleConfigure, b
  <2>2. c \in State /\ Around(c) = Around(b) /\ Standing(c) = Standing(b) /\ Looks(c) = Looks(b)
    <3> DEFINE action  == SleepType(b.e)
               timeout == SleepTimeout(b.e)
               warns   == timeout # 0 /\ action \in {"logout", "suspend", "hibernate"}
               wanted  == timeout # 0 /\ action # "nothing"
               sleep   == SetWatch(b, "sleep", wanted, Msec(timeout))
               warned  == SetWatch(sleep, "warning", warns, WarningMsec(timeout))
    <3>1. timeout \in Nat /\ warns \in BOOLEAN /\ wanted \in BOOLEAN
      BY <1>1, ReadersType DEF State
    <3>2. Msec(timeout) \in Nat /\ WarningMsec(timeout) \in Nat
      BY <3>1, MsecType
    <3> HIDE DEF action, timeout, warns, wanted
    <3>3. /\ sleep \in State /\ Around(sleep) = Around(b) /\ Standing(sleep) = Standing(b)
          /\ Looks(sleep) = Looks(b)
      BY <1>0, <1>1, <3>1, <3>2, SetWatchType, SetWatchShows
    <3> HIDE DEF sleep
    <3>4. /\ warned \in State /\ Around(warned) = Around(b) /\ Standing(warned) = Standing(b)
          /\ Looks(warned) = Looks(b)
      BY <1>0, <3>1, <3>2, <3>3, SetWatchType, SetWatchShows
    <3> HIDE DEF warned
    <3>5. ASSUME NEW x, NEW y
          PROVE  LET u == [warned EXCEPT !.p.sleep_action_type = x, !.p.notification = y]
                 IN /\ Around(u) = Around(warned) /\ Standing(u) = Standing(warned)
                    /\ Looks(u) = Looks(warned)
      BY <3>4 DEF Around, Standing, Looks, State, Managers
    <3>6. \E x, y : c = [warned EXCEPT !.p.sleep_action_type = x, !.p.notification = y]
      BY DEF ConfigureSleep, warned, sleep, wanted, warns, timeout, action
    <3>7. c \in State
      BY <1>1, ConfigureType
    <3> HIDE DEF c
    <3>8. Around(c) = Around(warned) /\ Standing(c) = Standing(warned) /\ Looks(c) = Looks(warned)
      <4>1. PICK x, y : c = [warned EXCEPT !.p.sleep_action_type = x, !.p.notification = y]
        BY <3>6
      <4> QED
        BY <3>5, <4>1, Zenon
    <3> QED
      BY <3>4, <3>7, <3>8
  <2> HIDE DEF c
  <2>3. Around(t) = Around(c) /\ Standing(t) = Standing(c) /\ Looks(t) = Looks(c)
    <3>1. DimTimeout(c.p, c.e) \in Nat
      BY <2>2, ReadersType DEF State
    <3>2. Msec(DimTimeout(c.p, c.e)) \in Nat /\ (DimTimeout(c.p, c.e) # 0) \in BOOLEAN
      BY <3>1, MsecType
    <3> QED
      BY <1>0, <2>2, <3>2, SetWatchShows DEF ConfigureDim
  <2> QED
    BY <1>1, <2>1, <2>2, <2>3
<1> QED
  BY <1>2, <1>3, <1>4

\* The temporary stay at NORMAL begins half way down, with the lid open.
SteppedAside(s, t, r) ==
  /\ s.p.session_is_active /\ ~s.p.lid_is_closed
  /\ ~s.p.temporary_unidle /\ s.p.current_idle_mode # NORMAL
  /\ t.p.temporary_unidle
  /\ t.p.previous_idle_mode = s.p.current_idle_mode
  /\ t.p.user_active_id = s.p.user_active_id
  /\ Woken(s, t, r)

LEMMA UpdateShows ==
  ASSUME NEW s \in State, NEW r \in KbdReplies
  PROVE  LET t == UpdateTemporaryUnidle(s, r)
         IN /\ Around(t) = Around(s)
            /\ \/ t = s
               \/ /\ ~t.p.temporary_unidle /\ Looks(t) = Looks(s)
                  /\ t.p.current_idle_mode = s.p.current_idle_mode
                  /\ t.p.previous_idle_mode = s.p.previous_idle_mode
                  /\ t.p.user_active_id = s.p.user_active_id
               \/ SteppedAside(s, t, r)
<1>1. CASE ~ShouldSetTemporaryUnidle(s.p)
  <2> DEFINE t == [s EXCEPT !.p.temporary_unidle = FALSE]
  <2>1. UpdateTemporaryUnidle(s, r) = t
    BY <1>1 DEF UpdateTemporaryUnidle, SetTemporaryUnidle
  <2>2. /\ Around(t) = Around(s) /\ Looks(t) = Looks(s)
        /\ t.p.current_idle_mode = s.p.current_idle_mode
        /\ t.p.previous_idle_mode = s.p.previous_idle_mode
        /\ t.p.user_active_id = s.p.user_active_id
    BY DEF Around, Looks, State, Managers
  <2>3. ~t.p.temporary_unidle
    BY DEF State, Managers
  <2> QED
    BY <2>1, <2>2, <2>3
<1>2. CASE ShouldSetTemporaryUnidle(s.p) /\ s.p.temporary_unidle
  BY <1>2 DEF UpdateTemporaryUnidle, SetTemporaryUnidle
<1>3. CASE ShouldSetTemporaryUnidle(s.p) /\ ~s.p.temporary_unidle
  <2> DEFINE mode == s.p.current_idle_mode
             u == [s EXCEPT !.p.previous_idle_mode = mode]
             n == IdleSetMode(u, NORMAL, r)
             t == [n EXCEPT !.p.temporary_unidle = TRUE]
  <2>0. mode \in IdleModes
    BY DEF State, Managers
  <2>1. UpdateTemporaryUnidle(s, r) = t
    BY <1>3 DEF UpdateTemporaryUnidle, SetTemporaryUnidle
  <2>2. /\ Around(u) = Around(s) /\ Looks(u) = Looks(s)
        /\ u.p.current_idle_mode = s.p.current_idle_mode
        /\ u.p.previous_idle_mode = s.p.current_idle_mode
        /\ u.p.user_active_id = s.p.user_active_id
    BY DEF Around, Looks, State, Managers
  <2>3. u \in State
    BY <2>0, FieldsType
  <2> HIDE DEF u
  <2>4. /\ Around(n) = Around(u)
        /\ n.p.previous_idle_mode = u.p.previous_idle_mode
        /\ n.p.user_active_id = u.p.user_active_id
        /\ Woken(u, n, r)
    BY <2>3, WakeShows
  <2>5. n \in State
    BY <2>3, IdleSetModeType DEF IdleModes, NORMAL, SLEEP
  <2> HIDE DEF n
  <2>6. /\ Around(t) = Around(n) /\ Looks(t) = Looks(n)
        /\ t.p.current_idle_mode = n.p.current_idle_mode
        /\ t.p.previous_idle_mode = n.p.previous_idle_mode
        /\ t.p.user_active_id = n.p.user_active_id
    BY <2>5 DEF Around, Looks, State, Managers
  <2>7. t.p.temporary_unidle
    BY <2>5 DEF State, Managers
  <2> HIDE DEF t
  <2>8. s.p.session_is_active /\ ~s.p.lid_is_closed /\ s.p.current_idle_mode # NORMAL
    BY <1>3 DEF ShouldSetTemporaryUnidle, NORMAL, DIM, BLANK
  <2>9. Woken(s, t, r)
    <3>1. (Served(s) => Served(u)) /\ (LightFollows(n) => LightFollows(t))
      BY <2>2, <2>6, SameLight
    <3>2. /\ t.p.screen_blanked = n.p.screen_blanked /\ t.e.dimming = n.e.dimming
          /\ t.p.kbd = n.p.kbd /\ u.p.kbd = s.p.kbd
      BY <2>2, <2>6, SameLooks
    <3>3. u.p.session_is_active = s.p.session_is_active
      BY <2>2, SameAround
    <3> QED
      BY <2>2, <2>4, <2>6, <2>8, <3>1, <3>2, <3>3 DEF Woken
  <2> QED
    BY <1>3, <2>1, <2>2, <2>4, <2>6, <2>7, <2>8, <2>9 DEF SteppedAside
<1> QED
  BY <1>1, <1>2, <1>3

-------------------------------------------------------------------------------
(* The level waking up restores.                                           *)

SameLevel(j, k) == KbdWake(k, TRUE, TRUE).now = KbdWake(j, TRUE, TRUE).now

LEMMA WakeForgets ==
  ASSUME NEW k \in KbdRecords, NEW a \in BOOLEAN, NEW b \in BOOLEAN
  PROVE  KbdWake(k, a, b).pre_dim = NoLevel
<1> DEFINE u == IF HasKbd /\ k.old # NoLevel THEN KbdToggle(k, a) ELSE k
           v == KbdSet(u, u.pre_dim, b)
<1>0. 0 \in KbdLevels
  BY KbdAssumption DEF KbdLevels
<1>1. u \in KbdRecords
  BY <1>0, KbdOpsType
<1>2. KbdWake(k, a, b) = IF u.pre_dim # NoLevel THEN [v EXCEPT !.pre_dim = NoLevel] ELSE u
  BY DEF KbdWake
<1> HIDE DEF u
<1>3. u.pre_dim # NoLevel => v \in KbdRecords
  BY <1>1 DEF KbdSet, KbdRecords
<1> HIDE DEF v
<1> QED
  BY <1>1, <1>2, <1>3 DEF KbdRecords

\* What is restored: the level of the dimming, else the one of a toggle.
LEMMA WakeLevel ==
  ASSUME NEW k \in KbdRecords
  PROVE  KbdWake(k, TRUE, TRUE).now
           = IF ~HasKbd THEN k.now
             ELSE IF k.pre_dim # NoLevel THEN k.pre_dim
             ELSE IF k.old # NoLevel THEN k.old
             ELSE k.now
<1>1. CASE ~HasKbd
  BY <1>1 DEF KbdWake, KbdSet, KbdRecords
<1>2. CASE HasKbd /\ k.old # NoLevel
  <2> DEFINE u == [k EXCEPT !.now = k.old, !.old = NoLevel]
  <2>1. KbdToggle(k, TRUE) = u
    <3>1. KbdSetSucceeds(k, k.old, TRUE) /\ KbdSet(k, k.old, TRUE) = [k EXCEPT !.now = k.old]
      BY <1>2 DEF KbdSetSucceeds, KbdSet
    <3>2. KbdToggle(k, TRUE) = [[k EXCEPT !.now = k.old] EXCEPT !.old = NoLevel]
      BY <1>2, <3>1 DEF KbdToggle
    <3> QED
      BY <3>2 DEF KbdRecords
  <2>2. u.now = k.old /\ u.pre_dim = k.pre_dim /\ u \in KbdRecords
    BY <1>2 DEF KbdRecords
  <2> HIDE DEF u
  <2>3. KbdWake(k, TRUE, TRUE)
          = IF u.pre_dim # NoLevel THEN [[u EXCEPT !.now = u.pre_dim] EXCEPT !.pre_dim = NoLevel]
            ELSE u
    BY <1>2, <2>1 DEF KbdWake, KbdSet
  <2> QED
    BY <1>2, <2>2, <2>3 DEF KbdRecords
<1>3. CASE HasKbd /\ k.old = NoLevel
  BY <1>3 DEF KbdWake, KbdSet, KbdRecords
<1> QED
  BY <1>1, <1>2, <1>3, KbdAssumption

LEMMA LevelAgain ==
  ASSUME NEW k \in KbdRecords
  PROVE  /\ SameLevel(k, k)
         /\ SameLevel(k, KbdWake(k, TRUE, TRUE))
         /\ SameLevel(k, KbdBlank(k, TRUE))
         /\ k.pre_dim = NoLevel /\ k.old = NoLevel => SameLevel(k, KbdDim(k, TRUE))
<1>1. /\ KbdWake(k, TRUE, TRUE) \in KbdRecords /\ KbdBlank(k, TRUE) \in KbdRecords
      /\ KbdDim(k, TRUE) \in KbdRecords
  <2>1. 0 \in KbdLevels /\ TRUE \in BOOLEAN
    BY KbdAssumption DEF KbdLevels
  <2> QED
    BY <2>1, KbdOpsType, Zenon
<1>2. SameLevel(k, KbdWake(k, TRUE, TRUE))
  <2> DEFINE w == KbdWake(k, TRUE, TRUE)
  <2>1. w.pre_dim = NoLevel
    BY WakeForgets
  <2>2. HasKbd => w.old = NoLevel
    <3>1. CASE HasKbd /\ k.old # NoLevel
      BY <3>1 DEF KbdWake, KbdToggle, KbdSet, KbdSetSucceeds, KbdRecords
    <3>2. CASE HasKbd /\ k.old = NoLevel
      BY <3>2 DEF KbdWake, KbdSet, KbdRecords
    <3> QED
      BY <3>1, <3>2
  <2> HIDE DEF w
  <2>3. KbdWake(w, TRUE, TRUE).now = w.now
    BY <1>1, <2>1, <2>2, WakeLevel DEF w
  <2> QED
    BY <2>3 DEF SameLevel, w
<1>3. SameLevel(k, KbdBlank(k, TRUE))
  <2>1. CASE HasKbd /\ k.old = NoLevel
    <3>1. KbdBlank(k, TRUE) = [now |-> 0, old |-> k.now, pre_dim |-> k.pre_dim]
      BY <2>1 DEF KbdBlank, KbdToggle, KbdSet, KbdSetSucceeds, KbdRecords
    <3>2. k.now # NoLevel
      BY DEF KbdRecords, KbdLevels, NoLevel
    <3> QED
      BY <1>1, <2>1, <3>1, <3>2, WakeLevel DEF SameLevel
  <2>2. CASE ~(HasKbd /\ k.old = NoLevel)
    <3>1. KbdBlank(k, TRUE) = k
      BY <2>2 DEF KbdBlank
    <3> QED
      BY <3>1 DEF SameLevel
  <2> QED
    BY <2>1, <2>2
<1>4. ASSUME k.pre_dim = NoLevel, k.old = NoLevel
      PROVE  SameLevel(k, KbdDim(k, TRUE))
  <2> DEFINE idle == PercentageToAbs(0, KbdMax, KbdIdle)
  <2>1. CASE HasKbd /\ idle <= k.now
    <3>1. KbdDim(k, TRUE) = [now |-> idle, old |-> NoLevel, pre_dim |-> k.now]
      <4> HIDE DEF idle
      <4>1. KbdDim(k, TRUE) = [[k EXCEPT !.now = idle] EXCEPT !.pre_dim = k.now]
        BY <2>1 DEF KbdDim, KbdSet, KbdSetSucceeds, idle
      <4> QED
        BY <1>4, <4>1 DEF KbdRecords
    <3>2. k.now # NoLevel
      BY DEF KbdRecords, KbdLevels, NoLevel
    <3> QED
      BY <1>1, <1>4, <2>1, <3>1, <3>2, WakeLevel DEF SameLevel
  <2>2. CASE ~(HasKbd /\ idle <= k.now)
    <3>1. KbdDim(k, TRUE) = k
      BY <2>2 DEF KbdDim
    <3> QED
      BY <3>1 DEF SameLevel
  <2> QED
    BY <2>1, <2>2
<1> QED
  BY <1>2, <1>3, <1>4 DEF SameLevel

-------------------------------------------------------------------------------
(* The inductive invariant, on a state as on one between two helpers.      *)

Lit(s) ==
  /\ s.p.current_idle_mode = NORMAL =>
       /\ ~s.e.dimming
       /\ s.p.screen_blanked => s.e.sleeping
       /\ s.p.kbd.pre_dim = NoLevel
  /\ s.p.current_idle_mode = DIM => s.e.dimming
  /\ s.p.current_idle_mode = BLANK => s.p.screen_blanked \/ "sleep" \in s.e.events

\* A temporary unidle has somewhere to fall back to.
Remembers(s) == s.p.temporary_unidle => s.p.previous_idle_mode # NORMAL

\* What is known of the session, and what the user did, is not forgotten.
Informed(s) ==
  /\ s.p.session_is_active => s.e.session_known
  /\ s.e.activity => s.p.user_active_id
  /\ s.e.sleeping => "sleep" \in s.e.events

Good(s) == Lit(s) /\ LightFollows(s) /\ Remembers(s) /\ Informed(s)

\* The replies of the keyboard when none of its calls fails.
Answered(s, r) == "kbdfail" \notin s.e.events => r = Accepted

\* Only a mode that is not NORMAL can be dark, and a session that stays as it
\* is stays good.
LEMMA GoodAlike ==
  ASSUME NEW s \in State, NEW t \in State,
         Around(t) = Around(s), Looks(t) = Looks(s), Good(s),
         t.p.current_idle_mode = s.p.current_idle_mode,
         s.p.user_active_id => t.p.user_active_id, Remembers(t)
  PROVE  Good(t)
<1>1. LightFollows(t)
  BY SameLight DEF Good
<1>2. Lit(t)
  BY SameAround, SameLooks DEF Good, Lit
<1>3. Informed(t)
  BY SameAround DEF Good, Informed
<1> QED
  BY <1>1, <1>2, <1>3 DEF Good

LEMMA WokenGood ==
  ASSUME NEW s \in State, NEW t \in State, NEW r \in KbdReplies,
         Around(t) = Around(s), Woken(s, t, r),
         t.p.user_active_id = s.p.user_active_id, Remembers(t), Informed(s),
         Good(s) \/ (s.p.session_is_active /\ Served(s))
  PROVE  /\ Good(t)
         /\ r = Accepted => SameLevel(s.p.kbd, t.p.kbd)
<1>1. /\ s.p.kbd \in KbdRecords /\ r.toggle \in BOOLEAN /\ r.set \in BOOLEAN
  BY DEF State, Managers, KbdReplies
<1>2. Informed(t)
  BY SameAround DEF Informed
<1>3. CASE s.p.session_is_active
  <2>1. Served(s)
    BY DEF Good, LightFollows
  <2>2. /\ t.p.current_idle_mode = NORMAL /\ ~t.p.screen_blanked /\ ~t.e.dimming
        /\ t.p.kbd = KbdWake(s.p.kbd, r.toggle, r.set) /\ LightFollows(t)
    BY <1>3, <2>1 DEF Woken
  <2>3. t.p.kbd.pre_dim = NoLevel
    BY <1>1, <2>2, WakeForgets
  <2>4. Good(t)
    BY <1>2, <2>2, <2>3 DEF Good, Lit, NORMAL, DIM, BLANK
  <2>5. ASSUME r = Accepted
        PROVE  SameLevel(s.p.kbd, t.p.kbd)
    <3>1. t.p.kbd = KbdWake(s.p.kbd, TRUE, TRUE)
      BY <2>2, <2>5 DEF Accepted
    <3> QED
      BY <1>1, <3>1, LevelAgain
  <2> QED
    BY <2>4, <2>5
<1>4. CASE ~s.p.session_is_active
  <2>1. t.p.current_idle_mode = s.p.current_idle_mode /\ Looks(t) = Looks(s) /\ Good(s)
    BY <1>4 DEF Woken
  <2>2. Good(t)
    BY <2>1, GoodAlike
  <2>3. t.p.kbd = s.p.kbd
    BY <2>1, SameLooks
  <2> QED
    BY <1>1, <2>2, <2>3, LevelAgain
<1> QED
  BY <1>3, <1>4

LEMMA ConfigureGood ==
  ASSUME NEW s \in State, NEW r \in KbdReplies, Good(s)
  PROVE  LET t == IdleConfigure(s, r)
         IN Good(t) /\ (r = Accepted => SameLevel(s.p.kbd, t.p.kbd))
<1> DEFINE t == IdleConfigure(s, r)
<1>1. /\ t \in State /\ Around(t) = Around(s)
      /\ \/ Standing(t) = Standing(s) /\ Looks(t) = Looks(s)
         \/ StoodDown(s, t, r)
  BY ConfigureType, ConfigureShows
<1> HIDE DEF t
<1>2. CASE Standing(t) = Standing(s) /\ Looks(t) = Looks(s)
  <2>1. /\ t.p.current_idle_mode = s.p.current_idle_mode
        /\ t.p.user_active_id = s.p.user_active_id /\ Remembers(t)
    BY <1>2, SameStanding DEF Good, Remembers
  <2>2. Good(t)
    BY <1>1, <1>2, <2>1, GoodAlike
  <2>3. t.p.kbd = s.p.kbd /\ s.p.kbd \in KbdRecords
    BY <1>2, SameLooks DEF State, Managers
  <2> QED
    BY <2>2, <2>3, LevelAgain DEF t
<1>3. CASE StoodDown(s, t, r)
  <2>1. /\ t.p.user_active_id = s.p.user_active_id /\ Remembers(t) /\ Woken(s, t, r)
        /\ Informed(s)
    BY <1>3 DEF StoodDown, Remembers, Good
  <2> QED
    BY <1>1, <2>1, WokenGood DEF t
<1> QED
  BY <1>1, <1>2, <1>3

LEMMA UpdateGood ==
  ASSUME NEW s \in State, NEW r \in KbdReplies, Good(s)
  PROVE  LET t == UpdateTemporaryUnidle(s, r)
         IN Good(t) /\ (r = Accepted => SameLevel(s.p.kbd, t.p.kbd))
<1> DEFINE t == UpdateTemporaryUnidle(s, r)
<1>0. t \in State
  <2>1. NORMAL \in IdleModes
    BY DEF IdleModes, NORMAL, SLEEP
  <2> QED
    BY <2>1, UnidleType
<1>1. /\ Around(t) = Around(s)
      /\ \/ t = s
         \/ /\ ~t.p.temporary_unidle /\ Looks(t) = Looks(s)
            /\ t.p.current_idle_mode = s.p.current_idle_mode
            /\ t.p.previous_idle_mode = s.p.previous_idle_mode
            /\ t.p.user_active_id = s.p.user_active_id
         \/ SteppedAside(s, t, r)
  BY UpdateShows
<1> HIDE DEF t
<1>2. s.p.kbd \in KbdRecords
  BY DEF State, Managers
<1>3. CASE t = s
  BY <1>2, <1>3, LevelAgain DEF t
<1>4. CASE /\ ~t.p.temporary_unidle /\ Looks(t) = Looks(s)
           /\ t.p.current_idle_mode = s.p.current_idle_mode
           /\ t.p.previous_idle_mode = s.p.previous_idle_mode
           /\ t.p.user_active_id = s.p.user_active_id
  <2>1. Good(t)
    BY <1>0, <1>1, <1>4, GoodAlike DEF Remembers
  <2>2. t.p.kbd = s.p.kbd
    BY <1>4, SameLooks
  <2> QED
    BY <1>2, <2>1, <2>2, LevelAgain DEF t
<1>5. CASE SteppedAside(s, t, r)
  <2>1. /\ t.p.user_active_id = s.p.user_active_id /\ Remembers(t) /\ Woken(s, t, r)
        /\ Informed(s)
    BY <1>5 DEF SteppedAside, Remembers, Good
  <2> QED
    BY <1>0, <1>1, <2>1, WokenGood DEF t
<1> QED
  BY <1>1, <1>3, <1>4, <1>5

\* A mode other than NORMAL only darkens, and the keyboard with it.
LEMMA DeepenShows ==
  ASSUME NEW s \in State, NEW mode \in IdleModes, NEW r \in KbdReplies,
         mode # NORMAL, Good(s)
  PROVE  LET t == IdleSetMode(s, mode, r)
         IN /\ Good(t) /\ Around(t) = Around(s)
            /\ t.p.previous_idle_mode = s.p.previous_idle_mode
            /\ t.p.temporary_unidle = s.p.temporary_unidle
            /\ \/ t = s
               \/ /\ t.p.current_idle_mode = s.p.current_idle_mode
                  /\ t.p.user_active_id /\ Looks(t) = Looks(s)
               \/ /\ s.p.session_is_active /\ t.p.user_active_id
                  /\ t.p.current_idle_mode = mode /\ mode > s.p.current_idle_mode
            /\ s.p.screen_blanked => t.p.screen_blanked
            /\ s.e.dimming => t.e.dimming
            /\ r = Accepted /\ (s.p.current_idle_mode # NORMAL \/ s.p.kbd.old = NoLevel)
               => SameLevel(s.p.kbd, t.p.kbd)
<1> DEFINE t == IdleSetMode(s, mode, r)
<1>1. /\ t \in State /\ Around(t) = Around(s)
      /\ t.p.previous_idle_mode = s.p.previous_idle_mode
      /\ t.p.temporary_unidle = s.p.temporary_unidle
      /\ Moved(s, t, mode, r)
  BY IdleSetModeType, IdleSetModeShows
<1> HIDE DEF t
<1>2. s.p.kbd \in KbdRecords /\ s.p.current_idle_mode \in Int /\ Remembers(t)
      /\ s.p.current_idle_mode >= NORMAL /\ mode \in {DIM, BLANK, SLEEP}
  BY <1>1 DEF State, Managers, Good, Remembers, IdleModes, NORMAL, DIM, BLANK, SLEEP
<1>3. CASE t = s
  BY <1>1, <1>2, <1>3, LevelAgain DEF t
<1>4. CASE /\ t.p.current_idle_mode = s.p.current_idle_mode
           /\ t.p.user_active_id /\ Looks(t) = Looks(s)
  <2>1. Good(t)
    BY <1>1, <1>2, <1>4, GoodAlike
  <2>2. /\ t.p.kbd = s.p.kbd /\ t.p.screen_blanked = s.p.screen_blanked
        /\ t.e.dimming = s.e.dimming
    BY <1>4, SameLooks
  <2> QED
    BY <1>1, <1>2, <1>4, <2>1, <2>2, LevelAgain DEF t
<1>5. CASE /\ s.p.session_is_active
           /\ mode = NORMAL \/ mode > s.p.current_idle_mode
           /\ t.p.current_idle_mode = mode
           /\ t.p.user_active_id = (s.p.user_active_id \/ mode # NORMAL)
           /\ Entered(s, t, mode, r)
  <2>1. /\ s.p.session_is_active /\ mode > s.p.current_idle_mode
        /\ t.p.current_idle_mode = mode /\ t.p.user_active_id /\ Entered(s, t, mode, r)
    BY <1>5
  <2>2. /\ t.p.kbd = KbdIn(s.p.kbd, mode, r)
        /\ s.p.screen_blanked => t.p.screen_blanked
        /\ s.e.dimming => t.e.dimming
        /\ mode = DIM => t.e.dimming
        /\ mode = BLANK => t.p.screen_blanked
        /\ LightFollows(t)
    BY <2>1 DEF Entered, Good
  <2>3. Good(t)
    BY <1>1, <1>2, <2>1, <2>2, SameAround DEF Good, Lit, Informed
  <2>4. ASSUME r = Accepted, s.p.current_idle_mode # NORMAL \/ s.p.kbd.old = NoLevel
        PROVE  SameLevel(s.p.kbd, t.p.kbd)
    <3>1. r.toggle = TRUE /\ r.set = TRUE
      BY <2>4 DEF Accepted
    <3>2. CASE mode = DIM
      <4>1. s.p.current_idle_mode = NORMAL
        BY <1>2, <2>1, <3>2 DEF NORMAL, DIM
      <4>2. s.p.kbd.old = NoLevel /\ s.p.kbd.pre_dim = NoLevel
        BY <2>4, <4>1 DEF Good, Lit
      <4>3. t.p.kbd = KbdDim(s.p.kbd, TRUE)
        BY <2>2, <3>1, <3>2 DEF KbdIn
      <4> QED
        BY <1>2, <4>2, <4>3, LevelAgain
    <3>3. CASE mode = BLANK
      <4>1. BLANK # DIM
        BY DEF BLANK, DIM
      <4>2. t.p.kbd = KbdBlank(s.p.kbd, r.toggle)
        BY <2>2, <3>3, <4>1 DEF KbdIn
      <4> QED
        BY <1>2, <3>1, <4>2, LevelAgain, Zenon
    <3>4. CASE mode = SLEEP
      <4>1. t.p.kbd = s.p.kbd
        BY <2>2, <3>4 DEF KbdIn, DIM, BLANK, SLEEP
      <4> QED
        BY <1>2, <4>1, LevelAgain
    <3> QED
      BY <1>2, <3>2, <3>3, <3>4
  <2> QED
    BY <1>1, <2>1, <2>2, <2>3, <2>4 DEF t
<1> QED
  BY <1>1, <1>3, <1>4, <1>5 DEF Moved

LEMMA MonitorsGood ==
  ASSUME NEW s \in State
  PROVE  /\ Lit(s) /\ Served(s) /\ Remembers(s) /\ Informed(s) => Good(MaybeClaimLight(s))
         /\ Good(s) /\ s.p.current_idle_mode # BLANK => Good(EnableMonitors(s))
         /\ Good(s) /\ s.e.sleeping => Good(DisableMonitors(s))
<1>1. ASSUME NEW t, Around(t) = Around(s), Standing(t) = Standing(s), t.p.kbd = s.p.kbd,
             t.e.dimming = s.e.dimming, Lit(s), Remembers(s), Informed(s),
             t.p.screen_blanked => s.p.screen_blanked \/ s.e.sleeping, LightFollows(t),
             s.p.screen_blanked => t.p.screen_blanked \/ s.p.current_idle_mode # BLANK
      PROVE  Good(t)
  <2>1. Lit(t)
    BY <1>1, SameAround, SameStanding DEF Lit
  <2>2. Remembers(t) /\ Informed(t)
    BY <1>1, SameAround, SameStanding DEF Remembers, Informed
  <2> QED
    BY <1>1, <2>1, <2>2 DEF Good
<1>2. ASSUME Lit(s), Served(s), Remembers(s), Informed(s)
      PROVE  Good(MaybeClaimLight(s))
  BY <1>1, <1>2, LightShows
<1>3. ASSUME Good(s), s.p.current_idle_mode # BLANK
      PROVE  Good(EnableMonitors(s))
  BY <1>1, <1>3, MonitorsShow DEF Good, LightFollows
<1>4. ASSUME Good(s), s.e.sleeping
      PROVE  Good(DisableMonitors(s))
  BY <1>1, <1>4, MonitorsShow DEF Good, LightFollows
<1> QED
  BY <1>2, <1>3, <1>4

-------------------------------------------------------------------------------
(* What a handler makes of a state.                                        *)

\* The moves of IdleLadder, with the fields in the place of its variables.
Climbs(s, t) ==
  LET p == s.p
      q == t.p
      top == IF q.session_is_active THEN NORMAL ELSE p.current_idle_mode
  IN \/ /\ q.session_is_active = p.session_is_active
        /\ \/ Standing(t) = Standing(s)
           \/ /\ q.user_active_id
              /\ q.temporary_unidle = p.temporary_unidle
              /\ q.previous_idle_mode = p.previous_idle_mode
              /\ \/ q.current_idle_mode = p.current_idle_mode
                 \/ p.session_is_active /\ q.current_idle_mode > p.current_idle_mode
           \/ /\ q.current_idle_mode = top /\ ~q.temporary_unidle
              /\ q.previous_idle_mode = p.previous_idle_mode
              /\ \/ q.user_active_id = p.user_active_id
                 \/ p.user_active_id /\ ~q.user_active_id
           \/ /\ p.session_is_active /\ ~p.temporary_unidle /\ p.current_idle_mode # NORMAL
              /\ q.temporary_unidle /\ q.previous_idle_mode = p.current_idle_mode
              /\ q.current_idle_mode = NORMAL /\ q.user_active_id = p.user_active_id
           \/ /\ p.temporary_unidle /\ q.temporary_unidle
              /\ q.previous_idle_mode # NORMAL
              /\ q.current_idle_mode = p.current_idle_mode
              /\ q.user_active_id = p.user_active_id
           \/ /\ p.temporary_unidle /\ ~q.temporary_unidle
              /\ q.previous_idle_mode = p.previous_idle_mode
              /\ q.user_active_id = p.user_active_id
              /\ \/ q.current_idle_mode = p.current_idle_mode
                 \/ p.session_is_active /\ q.current_idle_mode = p.previous_idle_mode
     \/ /\ q.session_is_active # p.session_is_active
        /\ q.current_idle_mode = top
        /\ q.temporary_unidle => p.temporary_unidle
        /\ q.previous_idle_mode = p.previous_idle_mode
        /\ q.user_active_id = p.user_active_id

Brightens(s, t) ==
  (s.p.screen_blanked /\ ~t.p.screen_blanked) \/ (s.e.dimming /\ ~t.e.dimming)

Reason(s, t) ==
  \/ s.e.activity
  \/ s.e.sleeping /\ ~t.e.sleeping
  \/ t.p.session_is_active /\ ~s.p.session_is_active
  \/ "idle" \in t.e.inhibited /\ ~t.p.screensaver_active
  \/ t.p.temporary_unidle /\ ~t.p.lid_is_closed

LevelStays(s, t) ==
  /\ t.p.current_idle_mode # s.p.current_idle_mode /\ "kbdfail" \notin s.e.events
  /\ s.p.current_idle_mode # NORMAL \/ s.p.kbd.old = NoLevel
  => SameLevel(s.p.kbd, t.p.kbd)

Kept(s, t) ==
  Good(t) /\ Climbs(s, t) /\ (Brightens(s, t) => Reason(s, t)) /\ LevelStays(s, t)

\* A handler that has only taken note of something so far.
Noted(s, h) ==
  /\ Standing(h) = Standing(s) /\ Looks(h) = Looks(s)
  /\ h.p.session_is_active = s.p.session_is_active /\ h.e.events = s.e.events

LEMMA QuietKept ==
  ASSUME NEW s \in State, NEW t \in State, Good(t), Standing(t) = Standing(s),
         t.p.session_is_active = s.p.session_is_active,
         s.p.screen_blanked => t.p.screen_blanked, s.e.dimming => t.e.dimming
  PROVE  Kept(s, t)
<1>1. Climbs(s, t)
  BY DEF Climbs
<1>2. ~Brightens(s, t)
  BY DEF Brightens
<1>3. LevelStays(s, t)
  BY SameStanding DEF LevelStays
<1> QED
  BY <1>1, <1>2, <1>3 DEF Kept

LEMMA KeptAlike ==
  ASSUME NEW s \in State, NEW t \in State, NEW u \in State, Kept(s, t), Good(u),
         Around(u) = Around(t), Standing(u) = Standing(t), Looks(u) = Looks(t)
  PROVE  Kept(s, u)
<1>1. Climbs(s, u)
  BY SameAround, SameStanding DEF Kept, Climbs, Standing
<1>2. (Brightens(s, u) <=> Brightens(s, t)) /\ (Reason(s, u) <=> Reason(s, t))
  BY SameAround, SameStanding, SameLooks DEF Brightens, Reason
<1>3. LevelStays(s, u)
  BY SameStanding, SameLooks DEF Kept, LevelStays
<1> QED
  BY <1>1, <1>2, <1>3 DEF Kept

LEMMA ConfigureKept ==
  ASSUME NEW s \in State, NEW h \in State, NEW r \in KbdReplies,
         Good(h), Noted(s, h), Answered(s, r)
  PROVE  Kept(s, IdleConfigure(h, r))
<1> DEFINE t == IdleConfigure(h, r)
<1>1. /\ t \in State /\ Around(t) = Around(h)
      /\ \/ Standing(t) = Standing(h) /\ Looks(t) = Looks(h)
         \/ StoodDown(h, t, r)
      /\ Good(t) /\ (r = Accepted => SameLevel(h.p.kbd, t.p.kbd))
  BY ConfigureType, ConfigureShows, ConfigureGood
<1> HIDE DEF t
<1>2. /\ t.p.session_is_active = s.p.session_is_active
      /\ h.p.screen_blanked = s.p.screen_blanked /\ h.e.dimming = s.e.dimming
      /\ h.p.kbd = s.p.kbd
      /\ h.p.current_idle_mode = s.p.current_idle_mode
      /\ h.p.previous_idle_mode = s.p.previous_idle_mode
      /\ h.p.user_active_id = s.p.user_active_id
  BY <1>1, SameAround, SameStanding, SameLooks DEF Noted
<1>3. CASE Standing(t) = Standing(h) /\ Looks(t) = Looks(h)
  <2>1. Standing(t) = Standing(s) /\ Looks(t) = Looks(s)
    BY <1>3 DEF Noted
  <2>2. t.p.screen_blanked = s.p.screen_blanked /\ t.e.dimming = s.e.dimming
    BY <2>1, SameLooks
  <2> QED
    BY <1>1, <1>2, <2>1, <2>2, QuietKept DEF t
<1>4. CASE StoodDown(h, t, r)
  <2>1. t.p.current_idle_mode
          = IF t.p.session_is_active THEN NORMAL ELSE s.p.current_idle_mode
    BY <1>2, <1>4 DEF StoodDown, Woken, Noted
  <2>2. Climbs(s, t)
    BY <1>2, <1>4, <2>1 DEF Climbs, StoodDown
  <2>3. Brightens(s, t) => Reason(s, t)
    <3>1. CASE "idle" \in h.e.inhibited /\ ~h.p.screensaver_active
      BY <1>1, <3>1, SameAround DEF Reason
    <3>2. CASE ~h.p.session_is_active
      <4>1. t.p.screen_blanked = h.p.screen_blanked /\ t.e.dimming = h.e.dimming
        BY <1>4, <3>2, SameLooks DEF StoodDown, Woken
      <4> QED
        BY <1>2, <4>1 DEF Brightens
    <3> QED
      BY <1>4, <3>1, <3>2 DEF StoodDown
  <2>4. LevelStays(s, t)
    BY <1>1, <1>2 DEF LevelStays, Answered
  <2> QED
    BY <1>1, <2>2, <2>3, <2>4 DEF Kept, t
<1> QED
  BY <1>1, <1>3, <1>4

LEMMA UpdateKept ==
  ASSUME NEW s \in State, NEW h \in State, NEW r \in KbdReplies,
         Good(h), Noted(s, h), Answered(s, r)
  PROVE  Kept(s, UpdateTemporaryUnidle(h, r))
<1> DEFINE t == UpdateTemporaryUnidle(h, r)
<1>0. t \in State
  <2>1. NORMAL \in IdleModes
    BY DEF IdleModes, NORMAL, SLEEP
  <2> QED
    BY <2>1, UnidleType
<1>1. /\ Around(t) = Around(h)
      /\ \/ t = h
         \/ /\ ~t.p.temporary_unidle /\ Looks(t) = Looks(h)
            /\ t.p.current_idle_mode = h.p.current_idle_mode
            /\ t.p.previous_idle_mode = h.p.previous_idle_mode
            /\ t.p.user_active_id = h.p.user_active_id
         \/ SteppedAside(h, t, r)
      /\ Good(t) /\ (r = Accepted => SameLevel(h.p.kbd, t.p.kbd))
  BY UpdateShows, UpdateGood
<1> HIDE DEF t
<1>2. /\ t.p.session_is_active = s.p.session_is_active
      /\ h.p.screen_blanked = s.p.screen_blanked /\ h.e.dimming = s.e.dimming
      /\ h.p.kbd = s.p.kbd
      /\ h.p.current_idle_mode = s.p.current_idle_mode
      /\ h.p.previous_idle_mode = s.p.previous_idle_mode
      /\ h.p.temporary_unidle = s.p.temporary_unidle
      /\ h.p.user_active_id = s.p.user_active_id
      /\ h.p.session_is_active = s.p.session_is_active
  BY <1>1, SameAround, SameStanding, SameLooks DEF Noted
<1>3. CASE t = h
  BY <1>1, <1>2, <1>3, QuietKept DEF t, Noted
<1>4. CASE /\ ~t.p.temporary_unidle /\ Looks(t) = Looks(h)
           /\ t.p.current_idle_mode = h.p.current_idle_mode
           /\ t.p.previous_idle_mode = h.p.previous_idle_mode
           /\ t.p.user_active_id = h.p.user_active_id
  <2>1. CASE s.p.temporary_unidle
    <3>1. Climbs(s, t)
      BY <1>2, <1>4, <2>1 DEF Climbs
    <3>2. t.p.screen_blanked = h.p.screen_blanked /\ t.e.dimming = h.e.dimming
      BY <1>4, SameLooks
    <3>3. ~Brightens(s, t) /\ LevelStays(s, t)
      BY <1>2, <1>4, <3>2 DEF Brightens, LevelStays
    <3> QED
      BY <1>1, <3>1, <3>3 DEF Kept, t
  <2>2. CASE ~s.p.temporary_unidle
    <3>1. t.p.temporary_unidle = s.p.temporary_unidle
      BY <1>0, <1>4, <2>2 DEF State, Managers
    <3>2. Standing(t) = Standing(s)
      BY <1>2, <1>4, <3>1 DEF Standing
    <3>3. t.p.screen_blanked = h.p.screen_blanked /\ t.e.dimming = h.e.dimming
      BY <1>4, SameLooks
    <3> QED
      BY <1>0, <1>1, <1>2, <3>2, <3>3, QuietKept DEF t
  <2> QED
    BY <2>1, <2>2
<1>5. CASE SteppedAside(h, t, r)
  <2>1. Climbs(s, t)
    BY <1>2, <1>5 DEF Climbs, SteppedAside, Woken
  <2>2. Reason(s, t)
    BY <1>1, <1>5, SameAround DEF Reason, SteppedAside
  <2>3. LevelStays(s, t)
    BY <1>1, <1>2 DEF LevelStays, Answered
  <2> QED
    BY <1>1, <2>1, <2>2, <2>3 DEF Kept, t
<1> QED
  BY <1>1, <1>3, <1>4, <1>5

LEMMA DeepenKept ==
  ASSUME NEW s \in State, NEW h \in State, NEW r \in KbdReplies, NEW mode \in IdleModes,
         mode # NORMAL, Good(h), Noted(s, h), Answered(s, r)
  PROVE  Kept(s, IdleSetMode(h, mode, r))
<1> DEFINE t == IdleSetMode(h, mode, r)
<1>0. t \in State
  BY IdleSetModeType
<1>1. /\ Good(t) /\ Around(t) = Around(h)
      /\ t.p.previous_idle_mode = h.p.previous_idle_mode
      /\ t.p.temporary_unidle = h.p.temporary_unidle
      /\ \/ t = h
         \/ /\ t.p.current_idle_mode = h.p.current_idle_mode
            /\ t.p.user_active_id /\ Looks(t) = Looks(h)
         \/ /\ h.p.session_is_active /\ t.p.user_active_id
            /\ t.p.current_idle_mode = mode /\ mode > h.p.current_idle_mode
      /\ h.p.screen_blanked => t.p.screen_blanked
      /\ h.e.dimming => t.e.dimming
      /\ r = Accepted /\ (h.p.current_idle_mode # NORMAL \/ h.p.kbd.old = NoLevel)
         => SameLevel(h.p.kbd, t.p.kbd)
  BY DeepenShows
<1> HIDE DEF t
<1>2. /\ t.p.session_is_active = s.p.session_is_active
      /\ h.p.screen_blanked = s.p.screen_blanked /\ h.e.dimming = s.e.dimming
      /\ h.p.kbd = s.p.kbd
      /\ h.p.current_idle_mode = s.p.current_idle_mode
      /\ h.p.previous_idle_mode = s.p.previous_idle_mode
      /\ h.p.temporary_unidle = s.p.temporary_unidle
      /\ h.p.user_active_id = s.p.user_active_id
      /\ h.p.session_is_active = s.p.session_is_active
  BY <1>1, SameAround, SameStanding, SameLooks DEF Noted
<1>3. Climbs(s, t)
  <2>1. CASE t = h
    BY <1>2, <2>1 DEF Climbs, Noted
  <2>2. CASE t # h
    BY <1>1, <1>2, <2>2 DEF Climbs
  <2> QED
    BY <2>1, <2>2
<1>4. ~Brightens(s, t)
  BY <1>1, <1>2 DEF Brightens
<1>5. LevelStays(s, t)
  BY <1>1, <1>2 DEF LevelStays, Answered
<1> QED
  BY <1>1, <1>3, <1>4, <1>5 DEF Kept, t

\* engine_session_properties_changed_cb, with and without a change of the
\* inhibitors.
LEMMA SessionActsKept ==
  ASSUME NEW s \in State, NEW h \in State, NEW b \in BOOLEAN, NEW r \in KbdReplies,
         Good(h), Noted(s, h), Answered(s, r), h.e.session_known,
         b => ~s.p.session_is_active
  PROVE  LET a == SessionActiveChanged(h, b, r)
         IN Kept(s, a) /\ Kept(s, IdleConfigure(a, r))
<1> DEFINE u == [h EXCEPT !.p.session_is_active = b]
           a == SessionActiveChanged(h, b, r)
           c == IdleConfigure(a, r)
<1>0. NORMAL \in IdleModes
  BY DEF IdleModes, NORMAL, SLEEP
<1>1. u \in State
  BY <1>0, FieldsType
<1>2. /\ Standing(u) = Standing(h) /\ Looks(u) = Looks(h)
      /\ u.e = h.e
      /\ u.p.session_is_active = b
  BY DEF Standing, Looks, State, Managers
<1> HIDE DEF u
<1>3. /\ h.p.screen_blanked = s.p.screen_blanked /\ h.e.dimming = s.e.dimming
      /\ h.p.kbd = s.p.kbd
      /\ h.p.current_idle_mode = s.p.current_idle_mode
      /\ h.p.previous_idle_mode = s.p.previous_idle_mode
      /\ h.p.temporary_unidle = s.p.temporary_unidle
      /\ h.p.user_active_id = s.p.user_active_id
  BY SameStanding, SameLooks DEF Noted
<1>4. /\ u.p.screen_blanked = s.p.screen_blanked /\ u.e.dimming = s.e.dimming
      /\ u.p.kbd = s.p.kbd
      /\ u.p.current_idle_mode = s.p.current_idle_mode
      /\ u.p.previous_idle_mode = s.p.previous_idle_mode
      /\ u.p.temporary_unidle = s.p.temporary_unidle
      /\ u.p.user_active_id = s.p.user_active_id
  BY <1>2, <1>3, SameStanding, SameLooks
<1>5. Lit(u) /\ Served(u) /\ Remembers(u) /\ Informed(u)
  <2>1. u.p.light_claimed = h.p.light_claimed
    BY <1>2, SameLooks
  <2> QED
    BY <1>2, <1>3, <1>4, <2>1 DEF Good, Lit, LightFollows, Served, Wanted, Remembers, Informed
<1>6. s.p.kbd \in KbdRecords
  BY DEF State, Managers
\* The session is active afterwards, and awake, or only no longer active.
<1>7. /\ a \in State /\ Good(a) /\ a.p.session_is_active = b
      /\ a.p.previous_idle_mode = s.p.previous_idle_mode
      /\ a.p.temporary_unidle = s.p.temporary_unidle
      /\ a.p.user_active_id = s.p.user_active_id
      /\ a.p.current_idle_mode = IF b THEN NORMAL ELSE s.p.current_idle_mode
      /\ r = Accepted => SameLevel(s.p.kbd, a.p.kbd)
      /\ ~b => a.p.screen_blanked = s.p.screen_blanked /\ a.e.dimming = s.e.dimming
  <2>1. CASE b
    <3> DEFINE n == IdleSetMode(u, NORMAL, r)
    <3>1. a = MaybeClaimLight(n)
      BY <2>1 DEF SessionActiveChanged, u
    <3>2. /\ Around(n) = Around(u)
          /\ n.p.previous_idle_mode = u.p.previous_idle_mode
          /\ n.p.temporary_unidle = u.p.temporary_unidle
          /\ n.p.user_active_id = u.p.user_active_id
          /\ Woken(u, n, r) /\ n \in State
      BY <1>0, <1>1, WakeShows, IdleSetModeType
    <3> HIDE DEF n
    <3>3. Remembers(n)
      BY <1>5, <3>2 DEF Remembers
    <3>4. Good(n) /\ (r = Accepted => SameLevel(u.p.kbd, n.p.kbd))
      BY <1>1, <1>2, <1>5, <2>1, <3>2, <3>3, WokenGood
    <3>5. /\ Around(a) = Around(n) /\ Standing(a) = Standing(n) /\ a.p.kbd = n.p.kbd
          /\ a \in State /\ Good(a)
      BY <3>1, <3>2, <3>4, LightShows, LightType, MonitorsGood DEF Good, LightFollows
    <3> HIDE DEF a
    <3>6. a.p.session_is_active = b
      BY <1>2, <3>2, <3>5, SameAround
    <3>7. n.p.current_idle_mode = NORMAL
      BY <1>2, <2>1, <3>2 DEF Woken
    <3> QED
      BY <1>4, <2>1, <3>2, <3>4, <3>5, <3>6, <3>7, SameStanding
  <2>2. CASE ~b
    <3>1. a = MaybeClaimLight(u)
      BY <2>2 DEF SessionActiveChanged, u
    <3>2. /\ Around(a) = Around(u) /\ Standing(a) = Standing(u) /\ a.p.kbd = u.p.kbd
          /\ a.p.screen_blanked = u.p.screen_blanked /\ a.e.dimming = u.e.dimming
          /\ a \in State /\ Good(a)
      BY <1>1, <1>5, <3>1, LightShows, LightType, MonitorsGood
    <3> HIDE DEF a
    <3>3. a.p.session_is_active = b
      BY <1>2, <3>2, SameAround
    <3> QED
      BY <1>4, <1>6, <2>2, <3>2, <3>3, SameStanding, LevelAgain
  <2> QED
    BY <2>1, <2>2
<1> HIDE DEF a
<1>8. Kept(s, a)
  <2>1. Climbs(s, a)
    <3>1. CASE b = s.p.session_is_active
      <4>1. Standing(a) = Standing(s)
        BY <1>7, <3>1 DEF Standing
      <4> QED
        BY <1>7, <3>1, <4>1 DEF Climbs
    <3>2. CASE b # s.p.session_is_active
      BY <1>7, <3>2 DEF Climbs
    <3> QED
      BY <3>1, <3>2
  <2>2. Brightens(s, a) => Reason(s, a)
    BY <1>7 DEF Brightens, Reason
  <2>3. LevelStays(s, a)
    BY <1>7 DEF LevelStays, Answered
  <2> QED
    BY <1>7, <2>1, <2>2, <2>3 DEF Kept
<1>9. Kept(s, c)
  <2>1. /\ c \in State /\ Around(c) = Around(a)
        /\ \/ Standing(c) = Standing(a) /\ Looks(c) = Looks(a)
           \/ StoodDown(a, c, r)
        /\ Good(c) /\ (r = Accepted => SameLevel(a.p.kbd, c.p.kbd))
    BY <1>7, ConfigureType, ConfigureShows, ConfigureGood
  <2> HIDE DEF c
  <2>2. CASE Standing(c) = Standing(a) /\ Looks(c) = Looks(a)
    BY <1>7, <1>8, <2>1, <2>2, KeptAlike
  <2>3. CASE StoodDown(a, c, r)
    <3>1. c.p.session_is_active = b
      BY <1>7, <2>1, SameAround
    <3>2. /\ c.p.current_idle_mode = IF b THEN NORMAL ELSE s.p.current_idle_mode
          /\ c.p.previous_idle_mode = s.p.previous_idle_mode
          /\ c.p.user_active_id = s.p.user_active_id
          /\ ~c.p.temporary_unidle
      BY <1>7, <2>3 DEF StoodDown, Woken
    <3>3. ~b => c.p.screen_blanked = a.p.screen_blanked /\ c.e.dimming = a.e.dimming
      BY <1>7, <2>3, SameLooks DEF StoodDown, Woken
    <3>4. Climbs(s, c)
      BY <3>1, <3>2 DEF Climbs
    <3>5. Brightens(s, c) => Reason(s, c)
      BY <1>7, <3>1, <3>3 DEF Brightens, Reason
    <3>6. LevelStays(s, c)
      BY <1>7, <2>1 DEF LevelStays, Answered, SameLevel
    <3> QED
      BY <2>1, <3>4, <3>5, <3>6 DEF Kept
  <2> QED
    BY <2>1, <2>2, <2>3
<1> QED
  BY <1>8, <1>9 DEF a, c

-------------------------------------------------------------------------------
(* The actions.                                                            *)

LEMMA KbdKeepsDim ==
  ASSUME NEW k \in KbdRecords, NEW level \in KbdLevels, NEW ok \in BOOLEAN
  PROVE  /\ KbdSet(k, level, ok).pre_dim = k.pre_dim
         /\ KbdToggle(k, ok).pre_dim = k.pre_dim
<1>1. ASSUME NEW x
      PROVE  KbdSet(k, x, ok).pre_dim = k.pre_dim
             /\ [KbdSet(k, x, ok) EXCEPT !.old = NoLevel].pre_dim = k.pre_dim
             /\ [KbdSet(k, x, ok) EXCEPT !.old = k.now].pre_dim = k.pre_dim
  BY DEF KbdSet, KbdRecords
<1> QED
  BY <1>1, Zenon DEF KbdToggle

\* Every handler makes of a good state another one, by a move of the ladder,
\* and neither brightens it without a reason nor loses the keyboard's level.
LEMMA NextKept ==
  ASSUME TypeOK, IdleIsEscapable, Good(Here), Next
  PROVE  \E t \in State : Step(t) /\ Kept(Here, t)
<1> USE RepliesType
<1>0. /\ Here \in State /\ Here.p = pm /\ Here.e = env /\ pm \in Managers /\ env \in Environments
      /\ NORMAL \in IdleModes /\ DIM \in IdleModes /\ BLANK \in IdleModes /\ SLEEP \in IdleModes
      /\ DIM # NORMAL /\ BLANK # NORMAL /\ SLEEP # NORMAL
  BY HereType DEF IdleModes, NORMAL, DIM, BLANK, SLEEP, TypeOK
<1>a. ASSUME NEW r \in Replies
      PROVE  r \in KbdReplies /\ Answered(Here, r)
  BY <1>0 DEF Answered, Replies, Happens
<1>c. ASSUME NEW h \in State, Good(h), Noted(Here, h), NEW r \in Replies,
             Step(IdleConfigure(h, r))
      PROVE  \E t \in State : Step(t) /\ Kept(Here, t)
  BY <1>0, <1>a, <1>c, ConfigureType, ConfigureKept
<1>q. ASSUME NEW t \in State, Step(t), Good(t), Standing(t) = Standing(Here),
             t.p.session_is_active = pm.session_is_active,
             pm.screen_blanked => t.p.screen_blanked, env.dimming => t.e.dimming
      PROVE  \E u \in State : Step(u) /\ Kept(Here, u)
  BY <1>0, <1>q, QuietKept
\* A state in which only fields have changed that Good does not read.
<1>g. ASSUME NEW h \in State, Standing(h) = Standing(Here), Looks(h) = Looks(Here),
             h.p.session_is_active = pm.session_is_active, h.e.events = env.events,
             h.e.session_known = env.session_known,
             h.e.settings = env.settings, h.e.iio_proxy = env.iio_proxy,
             h.e.shell_control = env.shell_control,
             h.e.sleeping = env.sleeping, h.e.activity => pm.user_active_id
      PROVE  Good(h) /\ Noted(Here, h)
  <2>1. /\ h.p.screen_blanked = pm.screen_blanked /\ h.e.dimming = env.dimming
        /\ h.p.kbd = pm.kbd /\ h.p.light_claimed = pm.light_claimed
        /\ h.e.sensor_claimed = env.sensor_claimed
    BY <1>0, <1>g, SameLooks
  <2>2. /\ h.p.current_idle_mode = pm.current_idle_mode
        /\ h.p.previous_idle_mode = pm.previous_idle_mode
        /\ h.p.temporary_unidle = pm.temporary_unidle
        /\ h.p.user_active_id = pm.user_active_id
    BY <1>0, <1>g, SameStanding
  <2>3. ShouldClaimLight(h.p, h.e) = ShouldClaimLight(Here.p, Here.e)
    BY <1>0, <1>g, <2>1 DEF ShouldClaimLight
  <2>4. Good(h)
    BY <1>0, <1>g, <2>1, <2>2, <2>3
    DEF Good, Lit, LightFollows, Served, Wanted, Remembers, Informed
  <2> QED
    BY <1>0, <1>g, <2>4 DEF Noted
<1>1. ASSUME NEW w \in Watches, WatchFires(w)
      PROVE  \E t \in State : Step(t) /\ Kept(Here, t)
  <2> DEFINE f == [Here EXCEPT !.p.watch[w] = "fired"]
             n == [f EXCEPT !.p.notification = ShowSleepWarnings,
                            !.p.user_active_id = TRUE]
  <2>1. f \in State
    BY <1>0 DEF State, Managers, WatchStates
  <2>2. /\ Standing(f) = Standing(Here) /\ Looks(f) = Looks(Here)
        /\ f.p.session_is_active = pm.session_is_active
    BY <1>0 DEF Standing, Looks, State, Managers
  <2>3. f.e = env
    BY <1>0
  <2>4. PICK r \in Replies :
          Step(CASE w = "dim"     -> IdleSetModeNoTemp(f, DIM, r)
                 [] w = "blank"   -> IdleSetModeNoTemp(f, BLANK, r)
                 [] w = "sleep"   -> IdleSetModeNoTemp(f, SLEEP, r)
                 [] w = "warning" -> n)
    BY <1>1 DEF WatchFires, f, n
  <2> HIDE DEF f
  <2>5. Good(f) /\ Noted(Here, f)
    BY <1>0, <1>g, <2>1, <2>2, <2>3 DEF Good, Informed
  <2>6. ASSUME NEW mode \in IdleModes, mode # NORMAL, Step(IdleSetModeNoTemp(f, mode, r))
        PROVE  \E t \in State : Step(t) /\ Kept(Here, t)
    <3>1. CASE ~f.p.temporary_unidle
      <4>1. IdleSetModeNoTemp(f, mode, r) = IdleSetMode(f, mode, r)
        BY <3>1 DEF IdleSetModeNoTemp
      <4>2. IdleSetMode(f, mode, r) \in State /\ Kept(Here, IdleSetMode(f, mode, r))
        BY <1>0, <1>a, <2>1, <2>5, <2>6, IdleSetModeType, DeepenKept
      <4> QED
        BY <2>6, <4>1, <4>2
    <3>2. CASE f.p.temporary_unidle
      <4> DEFINE u == [f EXCEPT !.p.previous_idle_mode = mode]
      <4>1. IdleSetModeNoTemp(f, mode, r) = u
        BY <3>2 DEF IdleSetModeNoTemp
      <4>2. u \in State
        BY <2>1, FieldsType
      <4>3. /\ Around(u) = Around(f) /\ Looks(u) = Looks(f)
            /\ u.p.current_idle_mode = f.p.current_idle_mode
            /\ u.p.temporary_unidle = f.p.temporary_unidle
            /\ u.p.user_active_id = f.p.user_active_id
            /\ u.p.previous_idle_mode = mode
        BY <2>1 DEF Around, Looks, State, Managers
      <4> HIDE DEF u
      <4>4. Remembers(u)
        BY <2>6, <4>3 DEF Remembers
      <4>5. Good(u)
        BY <2>1, <2>5, <4>2, <4>3, <4>4, GoodAlike
      <4>6. /\ f.p.current_idle_mode = pm.current_idle_mode
            /\ f.p.temporary_unidle = pm.temporary_unidle
            /\ f.p.user_active_id = pm.user_active_id
        BY <1>0, <2>2, SameStanding
      <4>7. u.p.session_is_active = pm.session_is_active
        BY <2>2, <4>3, SameAround
      <4>8. Climbs(Here, u)
        BY <1>0, <2>6, <3>2, <4>3, <4>6, <4>7 DEF Climbs
      <4>9. /\ u.p.screen_blanked = pm.screen_blanked /\ u.e.dimming = env.dimming
        BY <1>0, <2>2, <4>3, SameLooks
      <4>10. ~Brightens(Here, u) /\ LevelStays(Here, u)
        BY <1>0, <4>3, <4>6, <4>9 DEF Brightens, LevelStays
      <4> QED
        BY <2>6, <4>1, <4>2, <4>5, <4>8, <4>10 DEF Kept
    <3> QED
      BY <3>1, <3>2
  <2>7. CASE w = "dim"
    BY <1>0, <2>4, <2>6, <2>7
  <2>8. CASE w = "blank"
    BY <1>0, <2>4, <2>6, <2>8
  <2>9. CASE w = "sleep"
    BY <1>0, <2>4, <2>6, <2>9
  <2>10. CASE w = "warning"
    <3>1. Step(n)
      BY <2>4, <2>10
    <3>2. n \in State
      BY <2>1, IdleAssumption DEF State, Managers
    <3>3. /\ Around(n) = Around(f) /\ Looks(n) = Looks(f)
          /\ n.p.current_idle_mode = f.p.current_idle_mode
          /\ n.p.temporary_unidle = f.p.temporary_unidle
          /\ n.p.previous_idle_mode = f.p.previous_idle_mode
      BY <2>1 DEF Around, Looks, State, Managers
    <3>4. n.p.user_active_id
      BY <2>1 DEF State, Managers
    <3> HIDE DEF n
    <3>5. Remembers(n)
      BY <2>5, <3>3 DEF Good, Remembers
    <3>6. Good(n)
      BY <2>1, <2>5, <3>2, <3>3, <3>4, <3>5, GoodAlike
    <3>7. /\ f.p.current_idle_mode = pm.current_idle_mode
          /\ f.p.temporary_unidle = pm.temporary_unidle
          /\ f.p.previous_idle_mode = pm.previous_idle_mode
      BY <1>0, <2>2, SameStanding
    <3>8. n.p.session_is_active = pm.session_is_active
      BY <2>2, <3>3, SameAround
    <3>9. Climbs(Here, n)
      BY <1>0, <3>3, <3>4, <3>7, <3>8 DEF Climbs
    <3>10. /\ n.p.screen_blanked = pm.screen_blanked /\ n.e.dimming = env.dimming
      BY <1>0, <2>2, <3>3, SameLooks
    <3>11. ~Brightens(Here, n) /\ LevelStays(Here, n)
      BY <1>0, <3>3, <3>7, <3>10 DEF Brightens, LevelStays
    <3> QED
      BY <3>1, <3>2, <3>6, <3>9, <3>11 DEF Kept
  <2> QED
    BY <2>7, <2>8, <2>9, <2>10 DEF Watches
<1>2. CASE IdleBecameActive
  <2>1. PICK r \in Replies :
          LET u == [Here EXCEPT !.e.activity = FALSE]
              v == [u EXCEPT !.p.temporary_unidle = FALSE]
              n == IdleSetMode([v EXCEPT !.p.notification = FALSE], NORMAL, r)
          IN  Step([n EXCEPT !.p.user_active_id = FALSE])
    BY <1>2 DEF IdleBecameActive, SetTemporaryUnidle
  <2> DEFINE u == [Here EXCEPT !.e.activity = FALSE]
             v == [u EXCEPT !.p.temporary_unidle = FALSE]
             q == [v EXCEPT !.p.notification = FALSE]
             n == IdleSetMode(q, NORMAL, r)
             t == [n EXCEPT !.p.user_active_id = FALSE]
  <2>2. Step(t)
    BY <2>1
  <2>3. /\ q \in State
    BY <1>0 DEF State, Managers, Environments
  <2>4. /\ Looks(q) = Looks(Here)
        /\ q.p.current_idle_mode = pm.current_idle_mode
        /\ q.p.previous_idle_mode = pm.previous_idle_mode
        /\ q.p.user_active_id = pm.user_active_id
        /\ q.p.session_is_active = pm.session_is_active
        /\ q.e.session_known = env.session_known /\ q.e.settings = env.settings
        /\ q.e.iio_proxy = env.iio_proxy /\ q.e.sleeping = env.sleeping
        /\ q.e.shell_control = env.shell_control /\ q.e.events = env.events
    BY <1>0 DEF Looks, State, Managers, Environments
  <2>5. ~q.p.temporary_unidle /\ ~q.e.activity
    BY <1>0 DEF State, Managers, Environments
  <2> HIDE DEF q
  <2>6. /\ q.p.screen_blanked = pm.screen_blanked /\ q.e.dimming = env.dimming
        /\ q.p.kbd = pm.kbd /\ q.p.light_claimed = pm.light_claimed
        /\ q.e.sensor_claimed = env.sensor_claimed
    BY <1>0, <2>4, SameLooks
  <2>7. Good(q)
    <3>1. ShouldClaimLight(q.p, q.e) = ShouldClaimLight(Here.p, Here.e)
      BY <1>0, <2>4, <2>6 DEF ShouldClaimLight
    <3> QED
      BY <1>0, <2>4, <2>5, <2>6, <3>1
      DEF Good, Lit, LightFollows, Served, Wanted, Remembers, Informed
  <2>8. /\ n \in State /\ Around(n) = Around(q)
        /\ n.p.previous_idle_mode = q.p.previous_idle_mode
        /\ n.p.temporary_unidle = q.p.temporary_unidle
        /\ n.p.user_active_id = q.p.user_active_id
        /\ Woken(q, n, r)
    BY <1>0, <1>a, <2>3, WakeShows, IdleSetModeType
  <2> HIDE DEF n
  <2>9. Remembers(n) /\ Informed(q)
    BY <2>5, <2>7, <2>8 DEF Remembers, Good
  <2>10. Good(n) /\ (r = Accepted => SameLevel(q.p.kbd, n.p.kbd))
    BY <1>a, <2>3, <2>7, <2>8, <2>9, WokenGood
  <2>11. /\ t \in State
         /\ Around(t) = Around(n) /\ Looks(t) = Looks(n)
         /\ t.p.current_idle_mode = n.p.current_idle_mode
         /\ t.p.previous_idle_mode = n.p.previous_idle_mode
         /\ t.p.temporary_unidle = n.p.temporary_unidle
    BY <2>8 DEF Around, Looks, State, Managers
  <2>12. ~t.p.user_active_id
    BY <2>8 DEF State, Managers
  <2> HIDE DEF t
  <2>13. t.p.session_is_active = pm.session_is_active /\ ~t.e.activity
         /\ t.e.session_known = env.session_known
         /\ t.e.sleeping = env.sleeping /\ t.e.events = env.events
    BY <2>4, <2>5, <2>8, <2>11, SameAround
  <2>14. Good(t)
    <3>1. Lit(t)
      BY <2>10, <2>11, SameAround, SameLooks DEF Good, Lit
    <3>2. LightFollows(t)
      BY <2>10, <2>11, SameLight DEF Good
    <3>3. Remembers(t) /\ Informed(t)
      BY <1>0, <2>5, <2>8, <2>11, <2>13 DEF Good, Remembers, Informed
    <3> QED
      BY <3>1, <3>2, <3>3 DEF Good
  <2>15. Climbs(Here, t)
    <3>1. env.activity /\ pm.user_active_id
      BY <1>0, <1>2 DEF IdleBecameActive, Good, Informed
    <3>2. t.p.current_idle_mode
            = IF pm.session_is_active THEN NORMAL ELSE pm.current_idle_mode
      BY <2>4, <2>8, <2>11 DEF Woken
    <3> QED
      BY <1>0, <2>4, <2>5, <2>8, <2>11, <2>12, <2>13, <3>1, <3>2 DEF Climbs
  <2>16. Reason(Here, t)
    BY <1>0, <1>2 DEF Reason, IdleBecameActive
  <2>17. LevelStays(Here, t)
    <3>1. t.p.kbd = n.p.kbd
      BY <2>11, SameLooks
    <3> QED
      BY <1>0, <1>a, <2>6, <2>10, <3>1 DEF LevelStays, Answered
  <2> QED
    BY <2>2, <2>11, <2>14, <2>15, <2>16, <2>17 DEF Kept
<1>3. CASE TemporaryUnidleDone
  <2> DEFINE mode == pm.previous_idle_mode
  <2>1. PICK r \in Replies :
          Step([IdleSetMode(Here, mode, r) EXCEPT !.p.temporary_unidle = FALSE])
    BY <1>3 DEF TemporaryUnidleDone
  <2>2. mode \in IdleModes /\ mode # NORMAL /\ pm.temporary_unidle /\ pm.user_active_id
    BY <1>0, <1>3 DEF Managers, Good, Remembers, TemporaryUnidleDone, IdleIsEscapable
  <2> DEFINE n == IdleSetMode(Here, mode, r)
             t == [n EXCEPT !.p.temporary_unidle = FALSE]
  <2>3. Step(t)
    BY <2>1
  <2>4. /\ n \in State
        /\ Good(n) /\ Around(n) = Around(Here)
        /\ n.p.previous_idle_mode = pm.previous_idle_mode
        /\ \/ n = Here
           \/ /\ n.p.current_idle_mode = pm.current_idle_mode
              /\ n.p.user_active_id
           \/ /\ pm.session_is_active /\ n.p.user_active_id
              /\ n.p.current_idle_mode = mode
        /\ pm.screen_blanked => n.p.screen_blanked
        /\ env.dimming => n.e.dimming
        /\ r = Accepted /\ (pm.current_idle_mode # NORMAL \/ pm.kbd.old = NoLevel)
           => SameLevel(pm.kbd, n.p.kbd)
    <3> HIDE DEF mode
    <3> QED
      BY <1>0, <1>a, <2>2, DeepenShows, IdleSetModeType
  <2> HIDE DEF n
  <2>5. /\ t \in State
        /\ Around(t) = Around(n) /\ Looks(t) = Looks(n)
        /\ t.p.current_idle_mode = n.p.current_idle_mode
        /\ t.p.previous_idle_mode = n.p.previous_idle_mode
        /\ t.p.user_active_id = n.p.user_active_id
    BY <2>4 DEF Around, Looks, State, Managers
  <2>6. ~t.p.temporary_unidle
    BY <2>4 DEF State, Managers
  <2> HIDE DEF t
  <2>7. Good(t)
    BY <2>4, <2>5, <2>6, GoodAlike DEF Remembers
  <2>8. n.p.user_active_id = pm.user_active_id
    BY <1>0, <2>2, <2>4 DEF State, Managers
  <2>9. t.p.session_is_active = pm.session_is_active
    BY <1>0, <2>4, <2>5, SameAround
  <2>10. Climbs(Here, t)
    BY <1>0, <2>2, <2>4, <2>5, <2>6, <2>8, <2>9 DEF Climbs
  <2>11. /\ t.p.screen_blanked = n.p.screen_blanked /\ t.e.dimming = n.e.dimming
         /\ t.p.kbd = n.p.kbd
    BY <2>5, SameLooks
  <2>12. ~Brightens(Here, t)
    BY <1>0, <2>4, <2>11 DEF Brightens
  <2>13. LevelStays(Here, t)
    BY <1>0, <1>a, <2>4, <2>11 DEF LevelStays, Answered
  <2> QED
    BY <2>3, <2>5, <2>7, <2>10, <2>12, <2>13 DEF Kept
<1>4. CASE UserActivity
  <2>1. PICK f : Step([Here EXCEPT !.p.watch = f, !.e.activity = env.activity \/ pm.user_active_id])
                 /\ f = [w \in Watches |-> IF pm.watch[w] = "fired" THEN "armed" ELSE pm.watch[w]]
    BY <1>0, <1>4 DEF UserActivity
  <2> DEFINE h == [Here EXCEPT !.p.watch = f, !.e.activity = env.activity \/ pm.user_active_id]
  <2>2. f \in [Watches -> WatchStates]
    BY <1>0, <2>1 DEF Managers, WatchStates
  <2>3. h \in State
    BY <1>0, <2>2 DEF State, Managers, Environments
  <2>4. /\ Standing(h) = Standing(Here) /\ Looks(h) = Looks(Here)
        /\ h.p.session_is_active = pm.session_is_active
        /\ h.p.screen_blanked = pm.screen_blanked
    BY <1>0 DEF Standing, Looks, State, Managers, Environments
  <2>5. /\ h.e.events = env.events /\ h.e.session_known = env.session_known
        /\ h.e.settings = env.settings /\ h.e.iio_proxy = env.iio_proxy
        /\ h.e.shell_control = env.shell_control
        /\ h.e.sleeping = env.sleeping /\ h.e.dimming = env.dimming
    BY <1>0 DEF State, Managers, Environments
  <2>6. h.e.activity => pm.user_active_id
    BY <1>0 DEF Good, Informed, State, Managers, Environments
  <2>7. Step(h)
    BY <2>1
  <2> HIDE DEF h
  <2>8. Good(h)
    BY <1>g, <2>3, <2>4, <2>5, <2>6
  <2> QED
    BY <1>q, <2>3, <2>4, <2>5, <2>7, <2>8
<1>5. CASE ScreensaverActiveChanged
  <2> DEFINE now == ~pm.screensaver_active
             h == [Here EXCEPT !.p.screensaver_active = now]
  <2>1. PICK r \in Replies :
          Step(IF now THEN IdleSetMode(IdleConfigure(h, r), BLANK, r) ELSE IdleConfigure(h, r))
    BY <1>5 DEF ScreensaverActiveChanged
  <2>2. h \in State
    BY <1>0, FieldsType
  <2>3. /\ Standing(h) = Standing(Here) /\ Looks(h) = Looks(Here)
        /\ h.p.session_is_active = pm.session_is_active
    BY <1>0 DEF Standing, Looks, State, Managers
  <2>4. h.p.screensaver_active = now
    BY <1>0 DEF State, Managers
  <2>5. h.e = env
    BY <1>0
  <2> HIDE DEF h, now
  <2>6. Good(h) /\ Noted(Here, h)
    BY <1>0, <1>g, <2>2, <2>3, <2>5 DEF Good, Informed
  <2> DEFINE c == IdleConfigure(h, r)
  <2>7. /\ c \in State /\ Kept(Here, c) /\ Around(c) = Around(h)
        /\ \/ Standing(c) = Standing(h) /\ Looks(c) = Looks(h)
           \/ StoodDown(h, c, r)
    BY <1>0, <1>a, <2>2, <2>6, ConfigureType, ConfigureKept, ConfigureShows
  <2>8. Step(IF now THEN IdleSetMode(c, BLANK, r) ELSE c)
    BY <2>1
  <2> HIDE DEF c
  <2>9. CASE ~now
    BY <2>7, <2>8, <2>9
  <2>10. CASE now /\ Standing(c) = Standing(h) /\ Looks(c) = Looks(h)
    <3>1. Good(c) /\ Noted(Here, c)
      BY <2>6, <2>7, <2>10, SameAround DEF Kept, Noted
    <3>2. IdleSetMode(c, BLANK, r) \in State /\ Kept(Here, IdleSetMode(c, BLANK, r))
      BY <1>0, <1>a, <2>7, <3>1, DeepenKept, IdleSetModeType
    <3> QED
      BY <2>8, <2>10, <3>2
  <2>11. CASE now /\ StoodDown(h, c, r)
    <3>1. ~c.p.session_is_active
      BY <2>4, <2>7, <2>11, SameAround DEF StoodDown
    <3>2. IdleSetMode(c, BLANK, r) = c
      BY <3>1 DEF IdleSetMode
    <3> QED
      BY <2>7, <2>8, <2>11, <3>2
  <2> QED
    BY <2>7, <2>9, <2>10, <2>11
<1>6. CASE WakeUpScreen
  <2>1. PICK r \in Replies : Step(UpdateTemporaryUnidle(Here, r))
    BY <1>6 DEF WakeUpScreen
  <2>2. Noted(Here, Here)
    BY DEF Noted
  <2>3. UpdateTemporaryUnidle(Here, r) \in State
    BY <1>0, <1>a, UnidleType
  <2> QED
    BY <1>0, <1>a, <2>1, <2>2, <2>3, UpdateKept
<1>7. CASE OnBatteryChanged
  <2>1. PICK r \in Replies, source \in Sources :
          Step(UpdateTemporaryUnidle(IdleConfigure([Here EXCEPT !.e.source = source], r), r))
    BY <1>7 DEF OnBatteryChanged
  <2> DEFINE h == [Here EXCEPT !.e.source = source]
             c == IdleConfigure(h, r)
             t == UpdateTemporaryUnidle(c, r)
  <2>2. Step(t)
    BY <2>1
  <2>3. h \in State
    BY <1>0 DEF State, Environments
  <2>4. /\ Standing(h) = Standing(Here) /\ Looks(h) = Looks(Here)
        /\ h.p.session_is_active = pm.session_is_active
    BY <1>0 DEF Standing, Looks, State, Managers, Environments
  <2>5. /\ h.e.events = env.events /\ h.e.session_known = env.session_known
        /\ h.e.settings = env.settings /\ h.e.iio_proxy = env.iio_proxy
        /\ h.e.shell_control = env.shell_control
        /\ h.e.sleeping = env.sleeping /\ h.e.activity = env.activity
    BY <1>0 DEF State, Managers, Environments
  <2> HIDE DEF h
  <2>6. Good(h) /\ Noted(Here, h)
    BY <1>0, <1>g, <2>3, <2>4, <2>5 DEF Good, Informed
  <2>7. /\ c \in State /\ Kept(Here, c) /\ Around(c) = Around(h)
        /\ \/ Standing(c) = Standing(h) /\ Looks(c) = Looks(h)
           \/ StoodDown(h, c, r)
    BY <1>0, <1>a, <2>3, <2>6, ConfigureType, ConfigureKept, ConfigureShows
  <2> HIDE DEF c
  <2>8. t \in State /\ Around(t) = Around(c) /\ Good(t)
        /\ \/ t = c
           \/ /\ ~t.p.temporary_unidle /\ Looks(t) = Looks(c)
              /\ t.p.current_idle_mode = c.p.current_idle_mode
              /\ t.p.previous_idle_mode = c.p.previous_idle_mode
              /\ t.p.user_active_id = c.p.user_active_id
           \/ SteppedAside(c, t, r)
    BY <1>0, <1>a, <2>7, UnidleType, UpdateShows, UpdateGood DEF Kept
  <2>9. CASE Standing(c) = Standing(h) /\ Looks(c) = Looks(h)
    <3>1. Good(c) /\ Noted(Here, c)
      BY <2>6, <2>7, <2>9, SameAround DEF Kept, Noted
    <3>2. Kept(Here, t)
      BY <1>0, <1>a, <2>7, <3>1, UpdateKept
    <3> QED
      BY <2>2, <2>8, <3>2
  \* The session stood down: there is no stay at NORMAL left to end.
  <2>10. CASE StoodDown(h, c, r)
    <3> HIDE DEF t
    <3>1. ~c.p.temporary_unidle /\ ~SteppedAside(c, t, r)
      <4>1. c.p.session_is_active => c.p.current_idle_mode = NORMAL
        BY <2>7, <2>10, SameAround DEF StoodDown, Woken
      <4> QED
        BY <2>10, <4>1 DEF StoodDown, SteppedAside
    <3>2. CASE t = c
      BY <2>2, <2>7, <3>2
    <3>3. CASE t # c
      <4>1. t.p.temporary_unidle = c.p.temporary_unidle
        BY <2>7, <2>8, <3>1, <3>3 DEF State, Managers
      <4>2. Standing(t) = Standing(c) /\ Looks(t) = Looks(c)
        BY <2>8, <3>1, <3>3, <4>1 DEF Standing
      <4> QED
        BY <1>0, <2>2, <2>7, <2>8, <4>2, KeptAlike
    <3> QED
      BY <3>2, <3>3
  <2> QED
    BY <2>7, <2>9, <2>10
<1>8. CASE LidChanged
  <2> DEFINE h == [Here EXCEPT !.p.lid_is_closed = ~pm.lid_is_closed]
  <2>1. Step(h)
    BY <1>0, <1>8 DEF LidChanged
  <2>2. h \in State
    BY <1>0 DEF State, Managers
  <2>3. /\ Standing(h) = Standing(Here) /\ Looks(h) = Looks(Here)
        /\ h.p.session_is_active = pm.session_is_active
    BY <1>0 DEF Standing, Looks, State, Managers, Environments
  <2>4. /\ h.e.events = env.events /\ h.e.session_known = env.session_known
        /\ h.e.settings = env.settings /\ h.e.iio_proxy = env.iio_proxy
        /\ h.e.shell_control = env.shell_control
        /\ h.e.sleeping = env.sleeping /\ h.e.activity = env.activity
    BY <1>0 DEF State, Managers, Environments
  <2> HIDE DEF h
  <2>5. Good(h) /\ Noted(Here, h)
    BY <1>0, <1>g, <2>2, <2>3, <2>4 DEF Good, Informed
  <2>6. h.p.screen_blanked = pm.screen_blanked /\ h.e.dimming = env.dimming
    BY <1>0, <2>3, SameLooks
  <2> QED
    BY <1>q, <2>1, <2>2, <2>3, <2>5, <2>6
<1>9. CASE SessionPropertiesChanged
  <2>1. PICK active \in BOOLEAN, inhibited \in SUBSET Inhibitors, r \in Replies :
          LET s == [Here EXCEPT !.e.session_known = TRUE, !.e.inhibited = inhibited]
              a == IF active = pm.session_is_active /\ env.session_known
                   THEN s ELSE SessionActiveChanged(s, active, r)
          IN  Step(IF inhibited = env.inhibited /\ env.session_known
                   THEN a ELSE IdleConfigure(a, r))
    BY <1>9 DEF SessionPropertiesChanged
  <2> DEFINE h == [Here EXCEPT !.e.session_known = TRUE, !.e.inhibited = inhibited]
             b == SessionActiveChanged(h, active, r)
             a == IF active = pm.session_is_active /\ env.session_known THEN h ELSE b
  <2>2. Step(a) \/ Step(IdleConfigure(a, r))
    BY <2>1
  <2>3. h \in State
    BY <1>0 DEF State, Environments
  <2>4. /\ Standing(h) = Standing(Here) /\ Looks(h) = Looks(Here)
        /\ h.p.session_is_active = pm.session_is_active
        /\ h.p = pm
    BY <1>0 DEF Standing, Looks, State, Managers, Environments
  <2>5. /\ h.e.events = env.events /\ h.e.session_known
        /\ h.e.settings = env.settings /\ h.e.iio_proxy = env.iio_proxy
        /\ h.e.shell_control = env.shell_control
        /\ h.e.sleeping = env.sleeping /\ h.e.activity = env.activity
    BY <1>0 DEF State, Managers, Environments
  <2> HIDE DEF h
  <2>6. Good(h) /\ Noted(Here, h)
    <3>1. /\ h.e.dimming = env.dimming /\ h.e.sensor_claimed = env.sensor_claimed
      BY <1>0, <2>4, SameLooks
    <3>2. ShouldClaimLight(h.p, h.e) = ShouldClaimLight(Here.p, Here.e)
      BY <1>0, <2>4, <2>5 DEF ShouldClaimLight
    <3>3. Good(h)
      BY <1>0, <2>4, <2>5, <3>1, <3>2
      DEF Good, Lit, LightFollows, Served, Wanted, Remembers, Informed
    <3> QED
      BY <1>0, <2>4, <2>5, <3>3 DEF Noted
  <2>7. CASE active = pm.session_is_active /\ env.session_known
    <3>1. a = h
      BY <2>7
    <3>2. Kept(Here, h) /\ Kept(Here, IdleConfigure(h, r)) /\ IdleConfigure(h, r) \in State
      <4>1. h.p.screen_blanked = pm.screen_blanked /\ h.e.dimming = env.dimming
        BY <1>0, <2>4, SameLooks
      <4> QED
        BY <1>0, <1>a, <2>3, <2>4, <2>6, <4>1, QuietKept, ConfigureKept, ConfigureType
    <3> QED
      BY <2>2, <2>3, <3>1, <3>2
  <2>8. CASE ~(active = pm.session_is_active /\ env.session_known)
    <3>1. a = b
      BY <2>8
    <3>2. active => ~pm.session_is_active
      BY <1>0, <2>8 DEF Good, Informed, Managers
    <3>3. b \in State /\ IdleConfigure(b, r) \in State
      BY <1>a, <2>3, SessionType, ConfigureType
    <3>4. Kept(Here, b) /\ Kept(Here, IdleConfigure(b, r))
      BY <1>0, <1>a, <2>3, <2>5, <2>6, <3>2, SessionActsKept
    <3> QED
      BY <2>2, <3>1, <3>3, <3>4
  <2> QED
    BY <2>7, <2>8
<1>10. CASE SettingChanged
  <2>1. PICK settings \in Settings, r \in Replies :
          LET s == [Here EXCEPT !.e.settings = settings]
          IN  /\ SameIdleKeys(settings, env.settings) \/ settings.ambient = env.settings.ambient
              /\ Step(IF SameIdleKeys(settings, env.settings)
                      THEN MaybeClaimLight(s) ELSE IdleConfigure(s, r))
    BY <1>10 DEF SettingChanged
  <2> DEFINE h == [Here EXCEPT !.e.settings = settings]
  <2>2. /\ SameIdleKeys(settings, env.settings) \/ settings.ambient = env.settings.ambient
        /\ Step(IF SameIdleKeys(settings, env.settings)
                THEN MaybeClaimLight(h) ELSE IdleConfigure(h, r))
    BY <2>1
  <2>3. h \in State
    BY <1>0 DEF State, Environments
  <2>4. /\ Standing(h) = Standing(Here) /\ Looks(h) = Looks(Here) /\ h.p = pm
    BY <1>0 DEF Standing, Looks, State, Managers, Environments
  <2>5. /\ h.e.events = env.events /\ h.e.session_known = env.session_known
        /\ h.e.settings = settings /\ h.e.iio_proxy = env.iio_proxy
        /\ h.e.shell_control = env.shell_control
        /\ h.e.sleeping = env.sleeping /\ h.e.activity = env.activity
        /\ h.e.dimming = env.dimming /\ h.e.sensor_claimed = env.sensor_claimed
    BY <1>0 DEF State, Managers, Environments
  <2> HIDE DEF h
  <2>6. Lit(h) /\ Served(h) /\ Remembers(h) /\ Informed(h) /\ Noted(Here, h)
    BY <1>0, <2>4, <2>5 DEF Good, Lit, LightFollows, Served, Wanted, Remembers, Informed, Noted
  <2>7. CASE SameIdleKeys(settings, env.settings)
    <3> DEFINE t == MaybeClaimLight(h)
    <3>1. Step(t)
      BY <2>2, <2>7
    <3>2. /\ t \in State /\ Good(t) /\ Around(t) = Around(h) /\ Standing(t) = Standing(h)
          /\ t.p.screen_blanked = h.p.screen_blanked /\ t.e.dimming = h.e.dimming
      BY <2>3, <2>6, LightType, LightShows, MonitorsGood
    <3> HIDE DEF t
    <3>3. t.p.session_is_active = pm.session_is_active
      BY <2>4, <3>2, SameAround
    <3> QED
      BY <1>0, <1>q, <2>4, <2>5, <3>1, <3>2, <3>3
  <2>8. CASE ~SameIdleKeys(settings, env.settings)
    <3>1. ShouldClaimLight(h.p, h.e) = ShouldClaimLight(Here.p, Here.e)
      BY <1>0, <2>2, <2>4, <2>5, <2>8 DEF ShouldClaimLight
    <3>2. Good(h)
      BY <1>0, <2>2, <2>4, <2>5, <2>6, <2>8, <3>1 DEF Good, LightFollows, Wanted
    <3> QED
      BY <1>c, <2>2, <2>3, <2>6, <2>8, <3>2
  <2> QED
    BY <2>7, <2>8
<1>11. CASE BatteryLowChanged
  <2> DEFINE h == [Here EXCEPT !.p.battery_is_low = ~pm.battery_is_low]
  <2>1. PICK r \in Replies : Step(IdleConfigure(h, r))
    BY <1>0, <1>11 DEF BatteryLowChanged
  <2>2. h \in State
    BY <1>0, FieldsType
  <2>3. /\ Standing(h) = Standing(Here) /\ Looks(h) = Looks(Here)
        /\ h.p.session_is_active = pm.session_is_active
    BY <1>0 DEF Standing, Looks, State, Managers, Environments
  <2>4. /\ h.e.events = env.events /\ h.e.session_known = env.session_known
        /\ h.e.settings = env.settings /\ h.e.iio_proxy = env.iio_proxy
        /\ h.e.shell_control = env.shell_control
        /\ h.e.sleeping = env.sleeping /\ h.e.activity = env.activity
    BY <1>0 DEF State, Managers, Environments
  <2> HIDE DEF h
  <2>5. Good(h) /\ Noted(Here, h)
    BY <1>0, <1>g, <2>2, <2>3, <2>4 DEF Good, Informed
  <2> QED
    BY <1>c, <2>1, <2>2, <2>5
<1>12. CASE PowerProfileShown
  <2>1. PICK saver \in BOOLEAN, r \in Replies :
          LET s == [Here EXCEPT !.e.ppd_running = TRUE]
          IN  Step(IF saver = pm.power_saver_enabled
                   THEN s
                   ELSE IdleConfigure([s EXCEPT !.p.power_saver_enabled = saver], r))
    BY <1>12 DEF PowerProfileShown
  <2> DEFINE s == [Here EXCEPT !.e.ppd_running = TRUE]
             h == [s EXCEPT !.p.power_saver_enabled = saver]
  <2>2. Step(IF saver = pm.power_saver_enabled THEN s ELSE IdleConfigure(h, r))
    BY <2>1
  <2>3. s \in State /\ h \in State
    BY <1>0 DEF State, Managers, Environments
  <2>4. /\ Standing(s) = Standing(Here) /\ Looks(s) = Looks(Here)
        /\ s.p.session_is_active = pm.session_is_active
        /\ Standing(h) = Standing(Here) /\ Looks(h) = Looks(Here)
        /\ h.p.session_is_active = pm.session_is_active
    BY <1>0 DEF Standing, Looks, State, Managers, Environments
  <2>5. s.e = [env EXCEPT !.ppd_running = TRUE] /\ h.e = s.e
    BY <1>0
  <2>6. /\ s.e.events = env.events /\ s.e.session_known = env.session_known
        /\ s.e.settings = env.settings /\ s.e.iio_proxy = env.iio_proxy
        /\ s.e.shell_control = env.shell_control
        /\ s.e.sleeping = env.sleeping /\ s.e.activity = env.activity
    BY <1>0, <2>5 DEF Environments
  <2> HIDE DEF s, h
  <2>7. Good(s) /\ Noted(Here, s) /\ Good(h) /\ Noted(Here, h)
    BY <1>0, <1>g, <2>3, <2>4, <2>5, <2>6 DEF Good, Informed
  <2>8. s.p.screen_blanked = pm.screen_blanked /\ s.e.dimming = env.dimming
    BY <1>0, <2>4, SameLooks
  <2> QED
    BY <1>c, <1>q, <2>2, <2>3, <2>4, <2>7, <2>8
<1>13. CASE PowerProfilesVanished
  <2> DEFINE h == [Here EXCEPT !.e.ppd_running = FALSE]
  <2>1. PICK r \in Replies : Step(IdleConfigure(h, r))
    BY <1>13 DEF PowerProfilesVanished
  <2>2. h \in State
    BY <1>0 DEF State, Environments
  <2>3. /\ Standing(h) = Standing(Here) /\ Looks(h) = Looks(Here)
        /\ h.p.session_is_active = pm.session_is_active
    BY <1>0 DEF Standing, Looks, State, Managers, Environments
  <2>4. /\ h.e.events = env.events /\ h.e.session_known = env.session_known
        /\ h.e.settings = env.settings /\ h.e.iio_proxy = env.iio_proxy
        /\ h.e.shell_control = env.shell_control
        /\ h.e.sleeping = env.sleeping /\ h.e.activity = env.activity
    BY <1>0 DEF State, Managers, Environments
  <2> HIDE DEF h
  <2>5. Good(h) /\ Noted(Here, h)
    BY <1>0, <1>g, <2>2, <2>3, <2>4 DEF Good, Informed
  <2> QED
    BY <1>c, <2>1, <2>2, <2>5
<1>14. CASE PrepareForSleep
  <2> DEFINE h == [Here EXCEPT !.e.sleeping = TRUE, !.p.notification = FALSE]
             t == DisableMonitors(h)
  <2>1. Step(t)
    BY <1>14 DEF PrepareForSleep
  <2>2. h \in State
    BY <1>0 DEF State, Managers, Environments
  <2>3. /\ Standing(h) = Standing(Here) /\ Looks(h) = Looks(Here)
        /\ h.p.session_is_active = pm.session_is_active
    BY <1>0 DEF Standing, Looks, State, Managers, Environments
  <2>4. /\ h.e.sleeping
    BY <1>0 DEF State, Managers, Environments
  <2>5. /\ h.e.session_known = env.session_known
        /\ h.e.settings = env.settings /\ h.e.iio_proxy = env.iio_proxy
        /\ h.e.shell_control = env.shell_control
        /\ h.e.activity = env.activity
        /\ h.e.events = env.events /\ "sleep" \in env.events
    BY <1>0, <1>14 DEF State, Managers, Environments, PrepareForSleep, Happens
  <2> HIDE DEF h
  <2>6. /\ h.p.screen_blanked = pm.screen_blanked /\ h.e.dimming = env.dimming
        /\ h.p.kbd = pm.kbd /\ h.p.light_claimed = pm.light_claimed
        /\ h.e.sensor_claimed = env.sensor_claimed
    BY <1>0, <2>3, SameLooks
  <2>7. Good(h)
    <3>1. /\ h.p.current_idle_mode = pm.current_idle_mode
          /\ h.p.previous_idle_mode = pm.previous_idle_mode
          /\ h.p.temporary_unidle = pm.temporary_unidle
          /\ h.p.user_active_id = pm.user_active_id
      BY <1>0, <2>3, SameStanding
    <3>2. ShouldClaimLight(h.p, h.e) = ShouldClaimLight(Here.p, Here.e)
      BY <1>0, <2>3, <2>5, <2>6 DEF ShouldClaimLight
    <3> QED
      BY <1>0, <2>3, <2>4, <2>5, <2>6, <3>1, <3>2
      DEF Good, Lit, LightFollows, Served, Wanted, Remembers, Informed
  <2>8. /\ t \in State /\ Good(t) /\ Around(t) = Around(h) /\ Standing(t) = Standing(h)
        /\ t.p.screen_blanked /\ t.e.dimming = h.e.dimming
    BY <2>2, <2>4, <2>7, LightType, MonitorsShow, MonitorsGood
  <2> HIDE DEF t
  <2>9. t.p.session_is_active = pm.session_is_active
    BY <2>3, <2>8, SameAround
  <2> QED
    BY <1>q, <2>1, <2>3, <2>6, <2>8, <2>9
<1>15. CASE ResumeFromSleep
  <2> DEFINE h == [Here EXCEPT !.e.sleeping = FALSE]
             t == EnableMonitors(h)
  <2>1. Step(t) /\ env.sleeping
    BY <1>15 DEF ResumeFromSleep
  <2>2. h \in State
    BY <1>0 DEF State, Environments
  <2>3. Standing(h) = Standing(Here) /\ Looks(h) = Looks(Here) /\ h.p = pm
    BY <1>0 DEF Standing, Looks, State, Managers, Environments
  <2>4. /\ h.e.session_known = env.session_known /\ h.e.activity = env.activity
        /\ h.e.dimming = env.dimming /\ h.e.sensor_claimed = env.sensor_claimed
        /\ h.e.iio_proxy = env.iio_proxy /\ h.e.events = env.events
        /\ "sleep" \in env.events
    BY <1>0, <2>1 DEF State, Managers, Environments, Good, Informed
  <2>5. ~h.e.sleeping
    BY <1>0 DEF State, Environments
  <2> HIDE DEF h
  <2>6. /\ t \in State /\ Around(t) = Around(h) /\ Standing(t) = Standing(h)
        /\ ~t.p.screen_blanked /\ t.e.dimming = h.e.dimming /\ t.p.kbd = h.p.kbd
        /\ Served(h) => LightFollows(t)
    BY <2>2, LightType, MonitorsShow
  <2> HIDE DEF t
  <2>7. /\ t.p.current_idle_mode = pm.current_idle_mode
        /\ t.p.previous_idle_mode = pm.previous_idle_mode
        /\ t.p.temporary_unidle = pm.temporary_unidle
        /\ t.p.user_active_id = pm.user_active_id
        /\ t.p.session_is_active = pm.session_is_active
        /\ t.e.session_known = env.session_known /\ t.e.activity = env.activity
        /\ ~t.e.sleeping /\ t.e.events = env.events
    BY <2>3, <2>4, <2>5, <2>6, SameAround, SameStanding
  <2>8. Good(t)
    BY <1>0, <2>3, <2>4, <2>6, <2>7
    DEF Good, Lit, LightFollows, Served, Wanted, Remembers, Informed
  <2>9. Climbs(Here, t) /\ Reason(Here, t) /\ LevelStays(Here, t)
    <3>1. Standing(t) = Standing(Here)
      BY <2>3, <2>6
    <3> QED
      BY <1>0, <2>1, <2>7, <3>1 DEF Climbs, Reason, LevelStays
  <2> QED
    BY <2>1, <2>6, <2>8, <2>9 DEF Kept
<1>16. CASE IioProxyAppeared
  <2> DEFINE h == [Here EXCEPT !.e.iio_proxy = TRUE]
             t == MaybeClaimLight(h)
  <2>1. Step(t)
    BY <1>16 DEF IioProxyAppeared
  <2>2. h \in State
    BY <1>0 DEF State, Environments
  <2>3. Standing(h) = Standing(Here) /\ h.p = pm
    BY <1>0 DEF Standing, State, Managers, Environments
  <2>4. /\ h.e.session_known = env.session_known /\ h.e.activity = env.activity
        /\ h.e.sleeping = env.sleeping /\ h.e.events = env.events /\ h.e.iio_proxy
        /\ h.e.dimming = env.dimming /\ h.e.sensor_claimed = env.sensor_claimed
    BY <1>0 DEF State, Managers, Environments
  <2> HIDE DEF h
  <2>5. Lit(h) /\ Served(h) /\ Remembers(h) /\ Informed(h)
    BY <1>0, <2>3, <2>4 DEF Good, Lit, LightFollows, Served, Wanted, Remembers, Informed
  <2>6. /\ t \in State /\ Good(t) /\ Around(t) = Around(h) /\ Standing(t) = Standing(h)
        /\ t.p.screen_blanked = h.p.screen_blanked /\ t.e.dimming = h.e.dimming
    BY <2>2, <2>5, LightType, LightShows, MonitorsGood
  <2> HIDE DEF t
  <2>7. t.p.session_is_active = pm.session_is_active
    BY <2>3, <2>6, SameAround
  <2> QED
    BY <1>q, <2>1, <2>3, <2>4, <2>6, <2>7
<1>17. CASE IioProxyVanished
  <2> DEFINE h == [Here EXCEPT !.e.iio_proxy = FALSE, !.e.sensor_claimed = FALSE]
  <2>1. Step(h)
    BY <1>17 DEF IioProxyVanished
  <2>2. h \in State
    BY <1>0 DEF State, Environments
  <2>3. Standing(h) = Standing(Here) /\ h.p = pm
    BY <1>0 DEF Standing, State, Managers, Environments
  <2>4. /\ h.e.session_known = env.session_known /\ h.e.activity = env.activity
        /\ h.e.sleeping = env.sleeping /\ h.e.dimming = env.dimming
        /\ h.e.events = env.events /\ "sensor" \in env.events
    BY <1>0, <1>17 DEF State, Managers, Environments, IioProxyVanished, Happens
  <2>5. ~h.e.sensor_claimed /\ ~h.e.iio_proxy
    BY <1>0 DEF State, Managers, Environments
  <2> HIDE DEF h
  <2>6. Good(h)
    BY <1>0, <2>3, <2>4, <2>5 DEF Good, Lit, LightFollows, Served, Wanted, Remembers, Informed
  <2> QED
    BY <1>q, <2>1, <2>2, <2>3, <2>4, <2>6
<1>s. CASE BrightnessControlChanges
  <2> DEFINE h == [Here EXCEPT !.e.shell_control = ~env.shell_control]
  <2>1. Step(h) /\ "shell" \in env.events
    BY <1>0, <1>s DEF BrightnessControlChanges, Happens
  <2>2. h \in State
    BY <1>0 DEF State, Environments
  <2>3. Standing(h) = Standing(Here) /\ h.p = pm
    BY <1>0 DEF Standing, State, Managers, Environments
  <2>4. /\ h.e.session_known = env.session_known /\ h.e.activity = env.activity
        /\ h.e.sleeping = env.sleeping /\ h.e.dimming = env.dimming
        /\ h.e.events = env.events /\ h.e.iio_proxy = env.iio_proxy
        /\ h.e.sensor_claimed = env.sensor_claimed /\ h.e.settings = env.settings
    BY <1>0 DEF State, Managers, Environments
  <2> HIDE DEF h
  <2>5. Good(h)
    BY <1>0, <2>1, <2>3, <2>4
    DEF Good, Lit, LightFollows, Served, Wanted, Remembers, Informed
  <2> QED
    BY <1>q, <2>1, <2>2, <2>3, <2>4, <2>5
<1>18. CASE NotificationDismissed
  <2> DEFINE h == [Here EXCEPT !.p.notification = FALSE]
  <2>1. Step(h)
    BY <1>18 DEF NotificationDismissed
  <2>2. h \in State
    BY <1>0 DEF State, Managers
  <2>3. /\ Standing(h) = Standing(Here) /\ Looks(h) = Looks(Here)
        /\ h.p.session_is_active = pm.session_is_active
    BY <1>0 DEF Standing, Looks, State, Managers, Environments
  <2>4. /\ h.e.events = env.events /\ h.e.session_known = env.session_known
        /\ h.e.settings = env.settings /\ h.e.iio_proxy = env.iio_proxy
        /\ h.e.shell_control = env.shell_control
        /\ h.e.sleeping = env.sleeping /\ h.e.activity = env.activity
    BY <1>0 DEF State, Managers, Environments
  <2> HIDE DEF h
  <2>5. Good(h) /\ Noted(Here, h)
    BY <1>0, <1>g, <2>2, <2>3, <2>4 DEF Good, Informed
  <2>6. h.p.screen_blanked = pm.screen_blanked /\ h.e.dimming = env.dimming
    BY <1>0, <2>3, SameLooks
  <2> QED
    BY <1>q, <2>1, <2>2, <2>3, <2>5, <2>6
<1>19. CASE KbdStep \/ KbdToggleCall \/ KbdSetBrightness \/ KbdBrightnessChanged
  <2>0. pm.kbd \in KbdRecords /\ KbdMax \in Nat
    BY <1>0, KbdAssumption DEF Managers
  <2>1. \E k : Step([Here EXCEPT !.p.kbd = k]) /\ k.pre_dim = pm.kbd.pre_dim /\ k \in KbdRecords
    <3>1. CASE KbdStep
      <4>1. PICK step \in {StepAmount(KbdMax), -StepAmount(KbdMax)}, r \in Replies :
              LET level == IF pm.kbd.now + step > KbdMax THEN KbdMax
                           ELSE IF pm.kbd.now + step < 0 THEN 0 ELSE pm.kbd.now + step
              IN Step([Here EXCEPT !.p.kbd = KbdSet(@, level, r.set)])
        BY <3>1 DEF KbdStep
      <4> DEFINE level == IF pm.kbd.now + step > KbdMax THEN KbdMax
                          ELSE IF pm.kbd.now + step < 0 THEN 0 ELSE pm.kbd.now + step
                 k == KbdSet(pm.kbd, level, r.set)
      <4>2. Step([Here EXCEPT !.p.kbd = k])
        BY <1>0, <4>1
      <4>3. level \in KbdLevels
        <5>1. StepAmount(KbdMax) \in Nat
          BY <2>0 DEF StepAmount
        <5>2. step \in Int /\ pm.kbd.now \in Int
          BY <2>0, <5>1 DEF KbdRecords, KbdLevels
        <5> QED
          BY <2>0, <5>2 DEF KbdLevels
      <4>4. r.set \in BOOLEAN /\ r.toggle \in BOOLEAN
        BY <1>a DEF KbdReplies
      <4> HIDE DEF level
      <4>5. k \in KbdRecords /\ k.pre_dim = pm.kbd.pre_dim
        BY <2>0, <4>3, <4>4, KbdOpsType, KbdKeepsDim
      <4> QED
        BY <4>2, <4>5
    <3>2. CASE KbdToggleCall
      <4>1. PICK r \in Replies : Step([Here EXCEPT !.p.kbd = KbdToggle(pm.kbd, r.toggle)])
        BY <1>0, <3>2 DEF KbdToggleCall
      <4>2. r.set \in BOOLEAN /\ r.toggle \in BOOLEAN /\ 0 \in KbdLevels
        BY <1>a, <2>0 DEF KbdReplies, KbdLevels
      <4>3. /\ KbdToggle(pm.kbd, r.toggle) \in KbdRecords
            /\ KbdToggle(pm.kbd, r.toggle).pre_dim = pm.kbd.pre_dim
        BY <2>0, <4>2, KbdOpsType, KbdKeepsDim
      <4> QED
        BY <4>1, <4>3
    <3>3. CASE KbdSetBrightness
      <4>1. PICK level \in KbdLevels, r \in Replies :
              LET percentage == AbsToPercentage(0, KbdMax, level)
              IN Step([Here EXCEPT !.p.kbd =
                         KbdSet(@, PercentageToAbs(0, KbdMax, percentage), r.set)])
        BY <3>3 DEF KbdSetBrightness
      <4> DEFINE x == PercentageToAbs(0, KbdMax, AbsToPercentage(0, KbdMax, level))
                 k == KbdSet(pm.kbd, x, r.set)
      <4>2. Step([Here EXCEPT !.p.kbd = k])
        BY <1>0, <4>1
      <4>3. x \in KbdLevels
        BY LevelIsPercentage, PercentageIsLevel
      <4>4. r.set \in BOOLEAN /\ r.toggle \in BOOLEAN
        BY <1>a DEF KbdReplies
      <4> HIDE DEF x
      <4>5. k \in KbdRecords /\ k.pre_dim = pm.kbd.pre_dim
        BY <2>0, <4>3, <4>4, KbdOpsType, KbdKeepsDim
      <4> QED
        BY <4>2, <4>5
    <3>4. CASE KbdBrightnessChanged
      <4>1. PICK level \in KbdLevels : Step([Here EXCEPT !.p.kbd.now = level])
        BY <3>4 DEF KbdBrightnessChanged
      <4>2. [Here EXCEPT !.p.kbd.now = level]
              = [Here EXCEPT !.p.kbd = [pm.kbd EXCEPT !.now = level]]
        BY <1>0
      <4>3. /\ [pm.kbd EXCEPT !.now = level].pre_dim = pm.kbd.pre_dim
            /\ [pm.kbd EXCEPT !.now = level] \in KbdRecords
        BY <2>0 DEF KbdRecords
      <4> QED
        BY <4>1, <4>2, <4>3
    <3> QED
      BY <1>19, <3>1, <3>2, <3>3, <3>4
  <2>2. PICK k : Step([Here EXCEPT !.p.kbd = k]) /\ k.pre_dim = pm.kbd.pre_dim
                 /\ k \in KbdRecords
    BY <2>1
  <2> DEFINE h == [Here EXCEPT !.p.kbd = k]
  <2>3. h \in State
    BY <1>0, <2>2 DEF State, Managers
  <2>4. /\ Standing(h) = Standing(Here) /\ Around(h) = Around(Here)
        /\ h.p.session_is_active = pm.session_is_active
        /\ h.p.screen_blanked = pm.screen_blanked /\ h.p.light_claimed = pm.light_claimed
        /\ h.p.kbd = k
    BY <1>0 DEF Standing, Around, State, Managers
  <2>5. h.e = env
    BY <1>0
  <2>6. Step(h)
    BY <2>2
  <2> HIDE DEF h
  <2>7. Good(h)
    <3>1. /\ h.p.current_idle_mode = pm.current_idle_mode
          /\ h.p.previous_idle_mode = pm.previous_idle_mode
          /\ h.p.temporary_unidle = pm.temporary_unidle
          /\ h.p.user_active_id = pm.user_active_id
      BY <1>0, <2>4, SameStanding
    <3>2. ShouldClaimLight(h.p, h.e) = ShouldClaimLight(Here.p, Here.e)
      BY <1>0, <2>4, <2>5 DEF ShouldClaimLight
    <3> QED
      BY <1>0, <2>2, <2>4, <2>5, <3>1, <3>2
      DEF Good, Lit, LightFollows, Served, Wanted, Remembers, Informed
  <2> QED
    BY <1>q, <2>3, <2>4, <2>5, <2>6, <2>7
<1> QED
  BY <1>1, <1>2, <1>3, <1>4, <1>5, <1>6, <1>7, <1>8, <1>9, <1>10, <1>11, <1>12, <1>13,
     <1>14, <1>15, <1>16, <1>17, <1>s, <1>18, <1>19
  DEF Next, SystemNext, EnvironmentNext

-------------------------------------------------------------------------------
(* The theorems.                                                           *)

\* What is inductive, given the types and the way back.
IdleInv == Good(Here)

LEMMA InitGood ==
  Init => IdleInv /\ Ladder!LadderInit
<1> SUFFICES ASSUME NEW known \in BOOLEAN, NEW active \in BOOLEAN, NEW lid \in BOOLEAN,
                    NEW level \in KbdLevels, NEW inhibited \in SUBSET Inhibitors,
                    NEW source \in Sources, NEW settings \in Settings,
                    NEW control \in BOOLEAN, NEW events \in Scenarios, active => known,
                    LET e == [session_known |-> known,
                              inhibited |-> IF known THEN inhibited ELSE {},
                              source |-> source, settings |-> settings,
                              ppd_running |-> FALSE,
                              shell_control |-> control, iio_proxy |-> FALSE,
                              sensor_claimed |-> FALSE,
                              dimming |-> FALSE, sleeping |-> FALSE, activity |-> FALSE,
                              events |-> events]
                        s == Startup(e, active, lid, level)
                    IN  pm = s.p /\ env = s.e
             PROVE  IdleInv /\ Ladder!LadderInit
  BY DEF Init
<1> DEFINE e == [session_known |-> known,
                 inhibited |-> IF known THEN inhibited ELSE {},
                 source |-> source, settings |-> settings, ppd_running |-> FALSE,
                 shell_control |-> control, iio_proxy |-> FALSE,
                 sensor_claimed |-> FALSE,
                 dimming |-> FALSE, sleeping |-> FALSE, activity |-> FALSE,
                 events |-> events]
           p == [session_is_active |-> active, screensaver_active |-> FALSE,
                 lid_is_closed |-> lid, battery_is_low |-> FALSE,
                 power_saver_enabled |-> FALSE,
                 current_idle_mode |-> NORMAL, previous_idle_mode |-> NORMAL,
                 temporary_unidle |-> FALSE,
                 watch |-> [w \in Watches |-> "none"], after |-> [w \in Watches |-> 0],
                 user_active_id |-> FALSE,
                 notification |-> FALSE, sleep_action_type |-> "blank",
                 screen_blanked |-> FALSE, light_claimed |-> FALSE,
                 kbd |-> [now |-> level, old |-> NoLevel, pre_dim |-> NoLevel]]
           s == [p |-> p, e |-> e]
           c == IdleConfigure(s, Accepted)
           t == EnableMonitors(c)
<1>1. pm = t.p /\ env = t.e
  BY DEF Startup
<1>2. p \in Managers /\ e \in Environments
  BY DEF Managers, Environments, IdleModes, NORMAL, SLEEP, WatchStates, ActionTypes,
         KbdRecords
<1>3. /\ p.current_idle_mode = NORMAL /\ p.previous_idle_mode = NORMAL
      /\ p.session_is_active = active
      /\ p.temporary_unidle = FALSE /\ p.user_active_id = FALSE
      /\ ~p.screen_blanked /\ p.kbd.pre_dim = NoLevel /\ p.light_claimed = FALSE
      /\ ~e.dimming /\ e.sensor_claimed = FALSE /\ ~e.iio_proxy /\ ~e.activity
      /\ ~e.sleeping
      /\ e.session_known = known
  OBVIOUS
<1> HIDE DEF p, e
<1>4. s \in State /\ s.p = p /\ s.e = e /\ Accepted \in KbdReplies
  BY <1>2 DEF State, Accepted, KbdReplies
<1> HIDE DEF s
<1>5. Good(s)
  <2>1. Lit(s)
    BY <1>3, <1>4 DEF Lit, NORMAL, DIM, BLANK
  <2>2. LightFollows(s)
    BY <1>3, <1>4 DEF LightFollows, Served, Wanted
  <2>3. Remembers(s)
    BY <1>3, <1>4 DEF Remembers
  <2>4. Informed(s)
    BY <1>3, <1>4 DEF Informed
  <2> QED
    BY <2>1, <2>2, <2>3, <2>4 DEF Good
<1>6. /\ c \in State /\ Good(c)
      /\ \/ Standing(c) = Standing(s)
         \/ StoodDown(s, c, Accepted)
  BY <1>4, <1>5, ConfigureType, ConfigureShows, ConfigureGood
<1> HIDE DEF c
<1>7. /\ c.p.current_idle_mode = NORMAL /\ c.p.previous_idle_mode = NORMAL
      /\ c.p.temporary_unidle = FALSE /\ c.p.user_active_id = FALSE
  <2>1. CASE Standing(c) = Standing(s)
    BY <1>3, <1>4, <2>1, SameStanding
  <2>2. CASE StoodDown(s, c, Accepted)
    <3>1. c.p.temporary_unidle = FALSE
      BY <1>6, <2>2 DEF StoodDown, State, Managers
    <3> QED
      BY <1>3, <1>4, <2>2, <3>1 DEF StoodDown, Woken
  <2> QED
    BY <1>6, <2>1, <2>2
<1>8. t \in State /\ Good(t) /\ Standing(t) = Standing(c)
  <2>1. c.p.current_idle_mode # BLANK
    BY <1>7 DEF NORMAL, BLANK
  <2> QED
    BY <1>6, <2>1, LightType, MonitorsShow, MonitorsGood
<1> HIDE DEF t
<1>9. Here = t
  BY <1>1, <1>8 DEF Here, State
<1>10. Ladder!LadderInit
  <2>1. /\ t.p.current_idle_mode = NORMAL /\ t.p.previous_idle_mode = NORMAL
        /\ t.p.temporary_unidle = FALSE /\ t.p.user_active_id = FALSE
    BY <1>7, <1>8, SameStanding
  <2>2. t.p.session_is_active \in BOOLEAN
    BY <1>8 DEF State, Managers
  <2> QED
    BY <1>1, <2>1, <2>2 DEF Ladder!LadderInit, Ladder!Top, NORMAL
<1> QED
  BY <1>8, <1>9, <1>10 DEF IdleInv

\* A handler's step, said of the two values of the variables.
LEMMA KeptStep ==
  ASSUME TypeOK, NEW t \in State, Step(t), Kept(Here, t)
  PROVE  IdleInv' /\ [Ladder!LadderNext]_(Ladder!lvars) /\ ScreenWakes /\ LevelKept
<1>1. /\ pm' = t.p /\ env' = t.e
      /\ Here.p = pm /\ Here.e = env
      /\ pm \in Managers /\ t.p \in Managers
  BY DEF Step, Here, TypeOK, State
<1>2. IdleInv'
  <2>1. [p |-> pm', e |-> env'] = t
    BY <1>1 DEF State
  <2> QED
    BY <2>1 DEF IdleInv, Here, Kept
<1>3. ScreenWakes
  BY <1>1 DEF ScreenWakes, Kept, Brightens, Reason
<1>4. LevelKept
  BY <1>1 DEF LevelKept, Happens, Kept, LevelStays, SameLevel
<1>5. [Ladder!LadderNext]_(Ladder!lvars)
  <2> DEFINE q == t.p
             top == IF q.session_is_active THEN NORMAL ELSE pm.current_idle_mode
  <2>1. /\ pm.session_is_active \in BOOLEAN /\ q.session_is_active \in BOOLEAN
        /\ pm.temporary_unidle \in BOOLEAN /\ q.temporary_unidle \in BOOLEAN
        /\ pm.user_active_id \in BOOLEAN /\ q.user_active_id \in BOOLEAN
        /\ q.current_idle_mode \in Ladder!Rungs /\ q.previous_idle_mode \in Ladder!Rungs
        /\ Ladder!Top = NORMAL
    BY <1>1 DEF Managers, IdleModes, NORMAL, SLEEP, Ladder!Rungs, Ladder!Top, Ladder!Bottom
  <2> HIDE DEF q
  <2>2. CASE /\ q.session_is_active = pm.session_is_active
             /\ Standing(t) = Standing(Here)
    BY <1>1, <2>2, SameStanding DEF Ladder!lvars, q
  <2>3. CASE /\ q.session_is_active = pm.session_is_active
             /\ q.user_active_id
             /\ q.temporary_unidle = pm.temporary_unidle
             /\ q.previous_idle_mode = pm.previous_idle_mode
             /\ \/ q.current_idle_mode = pm.current_idle_mode
                \/ pm.session_is_active /\ q.current_idle_mode > pm.current_idle_mode
    BY <1>1, <2>1, <2>3 DEF Ladder!LadderNext, Ladder!Deepen, Ladder!Expect, q
  <2>4. CASE /\ q.session_is_active = pm.session_is_active
             /\ q.current_idle_mode = top /\ ~q.temporary_unidle
             /\ q.previous_idle_mode = pm.previous_idle_mode
             /\ \/ q.user_active_id = pm.user_active_id
                \/ pm.user_active_id /\ ~q.user_active_id
    BY <1>1, <2>1, <2>4 DEF Ladder!LadderNext, Ladder!StandDown, Ladder!UserReturns, q
  <2>5. CASE /\ q.session_is_active = pm.session_is_active
             /\ pm.session_is_active /\ ~pm.temporary_unidle
             /\ pm.current_idle_mode # NORMAL
             /\ q.temporary_unidle /\ q.previous_idle_mode = pm.current_idle_mode
             /\ q.current_idle_mode = NORMAL /\ q.user_active_id = pm.user_active_id
    BY <1>1, <2>1, <2>5 DEF Ladder!LadderNext, Ladder!StepAside, q
  <2>6. CASE /\ q.session_is_active = pm.session_is_active
             /\ pm.temporary_unidle /\ q.temporary_unidle
             /\ q.previous_idle_mode # NORMAL
             /\ q.current_idle_mode = pm.current_idle_mode
             /\ q.user_active_id = pm.user_active_id
    BY <1>1, <2>1, <2>6 DEF Ladder!LadderNext, Ladder!Remember, q
  <2>7. CASE /\ q.session_is_active = pm.session_is_active
             /\ pm.temporary_unidle /\ ~q.temporary_unidle
             /\ q.previous_idle_mode = pm.previous_idle_mode
             /\ q.user_active_id = pm.user_active_id
             /\ \/ q.current_idle_mode = pm.current_idle_mode
                \/ pm.session_is_active /\ q.current_idle_mode = pm.previous_idle_mode
    BY <1>1, <2>1, <2>7 DEF Ladder!LadderNext, Ladder!FallBack, q
  <2>8. CASE /\ q.session_is_active # pm.session_is_active
             /\ q.current_idle_mode = top
             /\ q.temporary_unidle => pm.temporary_unidle
             /\ q.previous_idle_mode = pm.previous_idle_mode
             /\ q.user_active_id = pm.user_active_id
    BY <1>1, <2>1, <2>8 DEF Ladder!LadderNext, Ladder!Switch, q
  <2>9. Climbs(Here, t)
    BY DEF Kept
  <2> QED
    BY <1>1, <2>2, <2>3, <2>4, <2>5, <2>6, <2>7, <2>8, <2>9 DEF Climbs, q
<1> QED
  BY <1>2, <1>3, <1>4, <1>5

LEMMA IdleStep ==
  TypeOK /\ IdleIsEscapable /\ IdleInv /\ [Next]_vars
    => /\ IdleInv'
       /\ [Ladder!LadderNext]_(Ladder!lvars)
       /\ [ScreenWakes]_vars
       /\ [LevelKept]_vars
<1> SUFFICES ASSUME TypeOK, IdleIsEscapable, IdleInv, [Next]_vars
             PROVE  /\ IdleInv'
                    /\ [Ladder!LadderNext]_(Ladder!lvars)
                    /\ [ScreenWakes]_vars
                    /\ [LevelKept]_vars
  OBVIOUS
<1>1. CASE Next
  <2>1. PICK t \in State : Step(t) /\ Kept(Here, t)
    BY <1>1, NextKept DEF IdleInv
  <2> QED
    BY <2>1, KeptStep
<1>2. CASE UNCHANGED vars
  <2>1. pm' = pm /\ env' = env
    BY <1>2 DEF vars
  <2>2. IdleInv'
    BY <2>1 DEF IdleInv, Here
  <2>3. UNCHANGED Ladder!lvars
    BY <2>1 DEF Ladder!lvars
  <2> QED
    BY <1>2, <2>2, <2>3
<1> QED
  BY <1>1, <1>2

LEMMA IdleInvariant == Spec => []IdleInv
<1>1. Init => IdleInv
  BY InitGood
<1>2. TypeOK /\ IdleIsEscapable /\ IdleInv /\ [Next]_vars => IdleInv'
  BY IdleStep
<1> QED
  BY <1>1, <1>2, TypeCorrect, EscapeCorrect, PTL DEF Spec

\* A session that is not idle looks awake, one that is looks idle, and the
\* light sensor serves a claim for a lit screen of an active session only -
\* and whenever it should, unless it was restarted or the shell's control of
\* the brightness came or went: in every state between two handlers.
THEOREM DevicesCorrect == Spec => []DevicesFollowMode
<1>1. IdleInv => DevicesFollowMode
  BY DEF IdleInv, Here, Good, Lit, LightFollows, Served, Wanted, DevicesFollowMode,
         NormalMeansAwake, IdleIsShown, SensorFollows, Happens
<1> QED
  BY <1>1, IdleInvariant, PTL

\* The idle machine implements IdleLadder: each handler is one of its moves, or
\* a stutter.
THEOREM LadderCorrect == Spec => ImplementsLadder
<1>1. Init => Ladder!LadderInit
  BY InitGood
<1>2. TypeOK /\ IdleIsEscapable /\ IdleInv /\ [Next]_vars
        => [Ladder!LadderNext]_(Ladder!lvars)
  BY IdleStep
<1> QED
  BY <1>1, <1>2, TypeCorrect, EscapeCorrect, IdleInvariant, PTL
  DEF Spec, ImplementsLadder, Ladder!LadderSpec

\* Nothing lights up or brightens an idle machine without a reason.
THEOREM WakesCorrect == Spec => ScreenWakesForAReason
<1>1. TypeOK /\ IdleIsEscapable /\ IdleInv /\ [Next]_vars => [ScreenWakes]_vars
  BY IdleStep
<1> QED
  BY <1>1, TypeCorrect, EscapeCorrect, IdleInvariant, PTL DEF Spec, ScreenWakesForAReason

\* Whatever road the session takes into idleness and back, it ends at the
\* keyboard level it would have gone back to all along.
THEOREM LevelCorrect == Spec => IdleKeepsKbdLevel
<1>1. TypeOK /\ IdleIsEscapable /\ IdleInv /\ [Next]_vars => [LevelKept]_vars
  BY IdleStep
<1> QED
  BY <1>1, TypeCorrect, EscapeCorrect, IdleInvariant, PTL DEF Spec, IdleKeepsKbdLevel

-------------------------------------------------------------------------------
(***************************************************************************)
(* No idle watch is a leftover, and the sleep warning names the action that  *)
(* will be taken.  Together with the fact that nothing is watched before the *)
(* session is known the two are inductive; idle_configure establishes them    *)
(* from nothing, and every other helper keeps what they read.               *)
(***************************************************************************)

\* What the watches are set from.
Reads(s) ==
  <<s.e.settings.type, s.e.settings.timeout, s.e.settings.idle_dim,
    s.e.settings.idle_delay, s.e.source, s.e.inhibited, s.e.session_known,
    s.e.ppd_running, s.e.events, s.p.screensaver_active, s.p.battery_is_low,
    s.p.power_saver_enabled>>

Watched(s) ==
  /\ s.p.watch["sleep"] # "none" =>
       /\ SleepTimeout(s.e) # 0 /\ SleepType(s.e) # "nothing"
       /\ s.p.after["sleep"] = Msec(SleepTimeout(s.e))
       /\ "idle" \in s.e.inhibited => s.p.screensaver_active
  /\ s.p.watch["warning"] # "none" =>
       /\ s.p.sleep_action_type = SleepType(s.e)
       /\ s.p.sleep_action_type \in {"logout", "suspend", "hibernate"}
       /\ s.p.watch["sleep"] # "none"
  /\ s.p.notification => s.p.watch["warning"] # "none"
  /\ "ppd" \notin s.e.events /\ s.p.watch["dim"] # "none" =>
       /\ ~s.p.screensaver_active
       /\ DimTimeout(s.p, s.e) # 0 /\ s.p.after["dim"] = Msec(DimTimeout(s.p, s.e))

\* Nothing is watched for a session nobody has told of yet.
Unwatched(s) ==
  /\ s.p.watch["sleep"] = "none" /\ s.p.watch["dim"] = "none"
  /\ s.p.watch["warning"] = "none" /\ ~s.p.notification

Tended(s) == Watched(s) /\ (~s.e.session_known => Unwatched(s))

LEMMA SameReads ==
  ASSUME NEW s, NEW t, Reads(t) = Reads(s)
  PROVE  /\ SleepTimeout(t.e) = SleepTimeout(s.e) /\ SleepType(t.e) = SleepType(s.e)
         /\ DimTimeout(t.p, t.e) = DimTimeout(s.p, s.e)
         /\ t.e.inhibited = s.e.inhibited /\ t.e.session_known = s.e.session_known
         /\ t.e.events = s.e.events
         /\ t.p.screensaver_active = s.p.screensaver_active
<1>1. /\ t.e.settings.type = s.e.settings.type /\ t.e.source = s.e.source
      /\ t.e.settings.timeout = s.e.settings.timeout
      /\ t.e.settings.idle_dim = s.e.settings.idle_dim
      /\ t.e.settings.idle_delay = s.e.settings.idle_delay
      /\ t.e.inhibited = s.e.inhibited /\ t.e.session_known = s.e.session_known
      /\ t.e.ppd_running = s.e.ppd_running /\ t.e.events = s.e.events
      /\ t.p.screensaver_active = s.p.screensaver_active
      /\ t.p.battery_is_low = s.p.battery_is_low
      /\ t.p.power_saver_enabled = s.p.power_saver_enabled
  BY DEF Reads
<1>2. SleepType(t.e) = SleepType(s.e)
  BY <1>1 DEF SleepType
<1>3. SleepTimeout(t.e) = SleepTimeout(s.e)
  BY <1>1, <1>2 DEF SleepTimeout, ActionInhibited
<1>4. PowerSaveActive(t.p, t.e) = PowerSaveActive(s.p, s.e)
  BY <1>1 DEF PowerSaveActive
<1>5. DimTimeout(t.p, t.e) = DimTimeout(s.p, s.e)
  BY <1>1, <1>4 DEF DimTimeout
<1> QED
  BY <1>1, <1>2, <1>3, <1>5

LEMMA SameWatching ==
  ASSUME NEW s, NEW t, Watching(t) = Watching(s)
  PROVE  /\ t.p.watch = s.p.watch /\ t.p.after = s.p.after
         /\ t.p.sleep_action_type = s.p.sleep_action_type
         /\ t.p.notification = s.p.notification
BY DEF Watching

LEMMA AroundReads ==
  ASSUME NEW s, NEW t, Around(t) = Around(s)
  PROVE  Reads(t) = Reads(s)
BY SameAround DEF Reads

LEMMA TendedAlike ==
  ASSUME NEW s, NEW t, Reads(t) = Reads(s), Watching(t) = Watching(s), Tended(s)
  PROVE  Tended(t)
BY SameReads, SameWatching DEF Tended, Watched, Unwatched

LEMMA SetWatchSets ==
  ASSUME NEW s \in State, NEW w \in Watches, NEW b \in BOOLEAN, NEW n \in Nat
  PROVE  LET t == SetWatch(s, w, b, n)
         IN /\ b => t.p.watch[w] = "armed" /\ t.p.after[w] = n
            /\ ~b => t.p.watch[w] = "none"
            /\ \A v \in Watches \ {w} :
                 t.p.watch[v] = s.p.watch[v] /\ t.p.after[v] = s.p.after[v]
<1> DEFINE x == IF b THEN "armed" ELSE "none"
           y == IF b THEN n ELSE 0
           t == [s EXCEPT !.p.watch[w] = x, !.p.after[w] = y]
<1>1. (b => x = "armed" /\ y = n) /\ (~b => x = "none")
  OBVIOUS
<1> HIDE DEF x, y
<1>2. /\ t.p.watch = [s.p.watch EXCEPT ![w] = x]
      /\ t.p.after = [s.p.after EXCEPT ![w] = y]
      /\ s.p.watch \in [Watches -> WatchStates] /\ s.p.after \in [Watches -> Nat]
  BY DEF State, Managers
<1>3. SetWatch(s, w, b, n) = t
  BY DEF SetWatch, x, y
<1> HIDE DEF t
<1> QED
  BY <1>1, <1>2, <1>3

\* A watch that is removed.
LEMMA SetWatchClears ==
  ASSUME NEW s \in State, NEW w \in Watches
  PROVE  LET t == SetWatch(s, w, FALSE, 0)
         IN /\ t \in State /\ t.p.watch[w] = "none"
            /\ \A v \in Watches \ {w} : t.p.watch[v] = s.p.watch[v]
<1> DEFINE t == SetWatch(s, w, FALSE, 0)
<1>1. t = [s EXCEPT !.p.watch[w] = "none", !.p.after[w] = 0]
  BY DEF SetWatch
<1>2. /\ t.p.watch = [s.p.watch EXCEPT ![w] = "none"]
      /\ s.p.watch \in [Watches -> WatchStates]
  BY <1>1 DEF State, Managers
<1>3. t \in State
  <2>1. FALSE \in BOOLEAN /\ 0 \in Nat
    OBVIOUS
  <2> QED
    BY <2>1, SetWatchType
<1>4. t.p.watch[w] = "none" /\ \A v \in Watches \ {w} : t.p.watch[v] = s.p.watch[v]
  <2> HIDE DEF t
  <2> QED
    BY <1>2
<1> QED
  BY <1>3, <1>4

-------------------------------------------------------------------------------
(* The helpers.                                                            *)

\* idle_configure leaves no watch that is not wanted, whatever was there.
LEMMA ConfigureTends ==
  ASSUME NEW s \in State, NEW r \in KbdReplies, ~s.e.session_known => Unwatched(s)
  PROVE  Tended(IdleConfigure(s, r))
<1>0. /\ {"dim", "blank", "sleep", "warning"} \subseteq Watches
      /\ "sleep" \in Watches \ {"dim"} /\ "sleep" \in Watches \ {"warning"}
      /\ "dim" \in Watches \ {"warning"}
      /\ NORMAL \in IdleModes
  BY DEF Watches, IdleModes, NORMAL, SLEEP
<1> DEFINE b == SetWatch(s, "blank", s.p.screensaver_active, Msec(SCREENSAVER_TIMEOUT_BLANK))
<1>1. b \in State /\ Around(b) = Around(s)
  <2>1. s.p.screensaver_active \in BOOLEAN /\ SCREENSAVER_TIMEOUT_BLANK \in Nat
    BY DEF State, Managers, SCREENSAVER_TIMEOUT_BLANK
  <2>2. Msec(SCREENSAVER_TIMEOUT_BLANK) \in Nat
    BY <2>1, MsecType
  <2> QED
    BY <1>0, <2>1, <2>2, SetWatchType, SetWatchShows
<1> HIDE DEF b
<1>2. CASE ~s.e.session_known
  <2>1. IdleConfigure(s, r) = s
    BY <1>2 DEF IdleConfigure
  <2> QED
    BY <1>2, <2>1 DEF Tended, Watched, Unwatched
<1>3. CASE /\ s.e.session_known
           /\ ~s.p.session_is_active \/ ("idle" \in s.e.inhibited /\ ~s.p.screensaver_active)
  <2> DEFINE n  == IdleSetMode(b, NORMAL, r)
             c1 == SetWatch(n, "sleep", FALSE, 0)
             c2 == SetWatch(c1, "dim", FALSE, 0)
             c3 == SetWatch(c2, "warning", FALSE, 0)
             d  == [c3 EXCEPT !.p.notification = FALSE]
             t  == [d EXCEPT !.p.temporary_unidle = FALSE]
  <2>1. IdleConfigure(s, r) = t
    BY <1>3 DEF IdleConfigure, b, StandDown, SetTemporaryUnidle
  <2>2. n \in State
    BY <1>0, <1>1, IdleSetModeType
  <2> HIDE DEF n
  <2>3. c1 \in State /\ c1.p.watch["sleep"] = "none"
    BY <1>0, <2>2, SetWatchClears
  <2> HIDE DEF c1
  <2>4. c2 \in State /\ c2.p.watch["sleep"] = "none" /\ c2.p.watch["dim"] = "none"
    BY <1>0, <2>3, SetWatchClears
  <2> HIDE DEF c2
  <2>5. /\ c3 \in State /\ c3.p.watch["sleep"] = "none" /\ c3.p.watch["dim"] = "none"
        /\ c3.p.watch["warning"] = "none"
    BY <1>0, <2>4, SetWatchClears
  <2> HIDE DEF c3
  <2>6. t.p.watch = c3.p.watch /\ ~t.p.notification
    BY <2>5 DEF State, Managers
  <2> HIDE DEF t
  <2>7. Unwatched(t)
    BY <2>5, <2>6 DEF Unwatched
  <2> QED
    BY <2>1, <2>7 DEF Tended, Watched, Unwatched
<1>4. CASE /\ s.e.session_known
           /\ ~(~s.p.session_is_active \/ ("idle" \in s.e.inhibited /\ ~s.p.screensaver_active))
  <2> DEFINE action  == SleepType(b.e)
             timeout == SleepTimeout(b.e)
             warns   == timeout # 0 /\ action \in {"logout", "suspend", "hibernate"}
             wanted  == timeout # 0 /\ action # "nothing"
             sleep   == SetWatch(b, "sleep", wanted, Msec(timeout))
             warned  == SetWatch(sleep, "warning", warns, WarningMsec(timeout))
             told    == [warned EXCEPT
                           !.p.sleep_action_type = IF warns THEN action ELSE @,
                           !.p.notification = @ /\ warns]
             delay   == DimTimeout(told.p, told.e)
             t       == SetWatch(told, "dim", delay # 0, Msec(delay))
  <2>1. IdleConfigure(s, r) = t
    BY <1>4 DEF IdleConfigure, ConfigureSleep, ConfigureDim, b
  <2>2. timeout \in Nat /\ warns \in BOOLEAN /\ wanted \in BOOLEAN
        /\ (warns => wanted) /\ (wanted => timeout # 0 /\ action # "nothing")
        /\ (warns => action \in {"logout", "suspend", "hibernate"})
    BY <1>1, ReadersType DEF State
  <2>3. Msec(timeout) \in Nat /\ WarningMsec(timeout) \in Nat
    BY <2>2, MsecType
  <2>4. timeout = SleepTimeout(b.e) /\ action = SleepType(b.e)
    OBVIOUS
  <2> HIDE DEF wanted, warns, timeout, action
  <2>5. /\ sleep \in State /\ Around(sleep) = Around(b)
        /\ wanted => sleep.p.watch["sleep"] = "armed" /\ sleep.p.after["sleep"] = Msec(timeout)
        /\ ~wanted => sleep.p.watch["sleep"] = "none"
    <3>1. sleep \in State
      BY <1>0, <1>1, <2>2, <2>3, SetWatchType
    <3>2. Around(sleep) = Around(b)
      BY <1>0, <1>1, <2>2, <2>3, SetWatchShows
    <3>3. /\ wanted => sleep.p.watch["sleep"] = "armed" /\ sleep.p.after["sleep"] = Msec(timeout)
          /\ ~wanted => sleep.p.watch["sleep"] = "none"
      BY <1>0, <1>1, <2>2, <2>3, SetWatchSets
    <3> QED
      BY <3>1, <3>2, <3>3
  <2>a. ConfigureSleep(b) = told
    BY DEF ConfigureSleep, sleep, wanted, warns, timeout, action
  <2> HIDE DEF sleep
  <2>6. /\ warned \in State /\ Around(warned) = Around(b)
        /\ ~warns => warned.p.watch["warning"] = "none"
        /\ warned.p.watch["sleep"] = sleep.p.watch["sleep"]
        /\ warned.p.after["sleep"] = sleep.p.after["sleep"]
        /\ warns => warned.p.watch["warning"] = "armed"
    <3>1. warned \in State
      BY <1>0, <2>2, <2>3, <2>5, SetWatchType
    <3>2. Around(warned) = Around(b)
      BY <1>0, <2>2, <2>3, <2>5, SetWatchShows
    <3>3. "sleep" \in Watches \ {"warning"}
      BY <1>0
    <3>4. /\ ~warns => warned.p.watch["warning"] = "none"
          /\ warns => warned.p.watch["warning"] = "armed"
          /\ warned.p.watch["sleep"] = sleep.p.watch["sleep"]
          /\ warned.p.after["sleep"] = sleep.p.after["sleep"]
      BY <1>0, <2>2, <2>3, <2>5, <3>3, SetWatchSets
    <3> QED
      BY <3>1, <3>2, <3>4
  <2> HIDE DEF warned
  <2>7. /\ Around(told) = Around(b)
        /\ told.p.watch = warned.p.watch /\ told.p.after = warned.p.after
    BY <2>6 DEF Around, State, Managers
  <2>8. /\ warns => told.p.sleep_action_type = action
        /\ told.p.notification => warns
    BY <2>2, <2>6 DEF State, Managers
  <2>9. told \in State
    BY <1>1, <2>a, ConfigureType
  <2> HIDE DEF told
  <2>10. delay \in Nat /\ (delay # 0) \in BOOLEAN /\ Msec(delay) \in Nat
    BY <2>9, ReadersType, MsecType DEF State
  <2>11. delay # 0 => ~told.p.screensaver_active
    BY <2>9 DEF DimTimeout, State, Managers
  <2>12. delay = DimTimeout(told.p, told.e)
    OBVIOUS
  <2> DEFINE dimmed == delay # 0
  <2>13. t = SetWatch(told, "dim", dimmed, Msec(delay)) /\ dimmed \in BOOLEAN
         /\ (dimmed => delay # 0)
    OBVIOUS
  <2> HIDE DEF dimmed, delay, t
  <2>14. /\ Around(t) = Around(told) /\ t.p.sleep_action_type = told.p.sleep_action_type
         /\ t.p.notification = told.p.notification
    BY <1>0, <2>9, <2>10, <2>13, SetWatchShows
  <2>15. /\ t.p.watch["sleep"] = told.p.watch["sleep"]
         /\ t.p.after["sleep"] = told.p.after["sleep"]
         /\ t.p.watch["warning"] = told.p.watch["warning"]
         /\ dimmed => t.p.after["dim"] = Msec(delay)
         /\ ~dimmed => t.p.watch["dim"] = "none"
    <3>1. "sleep" \in Watches \ {"dim"} /\ "warning" \in Watches \ {"dim"}
      BY <1>0
    <3> QED
      BY <1>0, <2>9, <2>10, <2>13, <3>1, SetWatchSets
  <2>16. Reads(t) = Reads(b) /\ Reads(t) = Reads(s) /\ Reads(t) = Reads(told)
    BY <1>1, <2>7, <2>14, AroundReads
  <2>17. /\ SleepTimeout(t.e) = timeout /\ SleepType(t.e) = action
         /\ DimTimeout(t.p, t.e) = delay
         /\ t.e.inhibited = s.e.inhibited /\ t.e.session_known = s.e.session_known
         /\ t.p.screensaver_active = s.p.screensaver_active
         /\ t.p.screensaver_active = told.p.screensaver_active
    BY <2>4, <2>12, <2>16, SameReads
  <2>18. t.p.watch["sleep"] # "none" =>
           /\ SleepTimeout(t.e) # 0 /\ SleepType(t.e) # "nothing"
           /\ t.p.after["sleep"] = Msec(SleepTimeout(t.e))
           /\ "idle" \in t.e.inhibited => t.p.screensaver_active
    BY <1>4, <2>2, <2>5, <2>6, <2>7, <2>15, <2>17
  <2>19. t.p.watch["warning"] # "none" =>
           /\ t.p.sleep_action_type = SleepType(t.e)
           /\ t.p.sleep_action_type \in {"logout", "suspend", "hibernate"}
           /\ t.p.watch["sleep"] # "none"
    BY <2>2, <2>5, <2>6, <2>7, <2>8, <2>14, <2>15, <2>17
  <2>20. t.p.notification => t.p.watch["warning"] # "none"
    BY <2>6, <2>7, <2>8, <2>14, <2>15
  <2>21. t.p.watch["dim"] # "none" =>
           /\ ~t.p.screensaver_active
           /\ DimTimeout(t.p, t.e) # 0 /\ t.p.after["dim"] = Msec(DimTimeout(t.p, t.e))
    BY <2>11, <2>13, <2>15, <2>17
  <2>22. t.e.session_known
    BY <1>4, <2>17
  <2> QED
    BY <2>1, <2>18, <2>19, <2>20, <2>21, <2>22 DEF Tended, Watched
<1> QED
  BY <1>2, <1>3, <1>4

\* The helpers that set no watch.
LEMMA UpdateKeeps ==
  ASSUME NEW s \in State, NEW r \in KbdReplies
  PROVE  LET t == UpdateTemporaryUnidle(s, r)
         IN Around(t) = Around(s) /\ Watching(t) = Watching(s)
<1>1. CASE ~ShouldSetTemporaryUnidle(s.p)
  <2> DEFINE t == [s EXCEPT !.p.temporary_unidle = FALSE]
  <2>1. UpdateTemporaryUnidle(s, r) = t
    BY <1>1 DEF UpdateTemporaryUnidle, SetTemporaryUnidle
  <2>2. Around(t) = Around(s) /\ Watching(t) = Watching(s)
    BY DEF Around, Watching, State, Managers
  <2> QED
    BY <2>1, <2>2
<1>2. CASE ShouldSetTemporaryUnidle(s.p) /\ s.p.temporary_unidle
  BY <1>2 DEF UpdateTemporaryUnidle, SetTemporaryUnidle
<1>3. CASE ShouldSetTemporaryUnidle(s.p) /\ ~s.p.temporary_unidle
  <2> DEFINE mode == s.p.current_idle_mode
             u == [s EXCEPT !.p.previous_idle_mode = mode]
             n == IdleSetMode(u, NORMAL, r)
             t == [n EXCEPT !.p.temporary_unidle = TRUE]
  <2>1. UpdateTemporaryUnidle(s, r) = t
    BY <1>3 DEF UpdateTemporaryUnidle, SetTemporaryUnidle
  <2>2. mode \in IdleModes /\ NORMAL \in IdleModes
    BY DEF State, Managers, IdleModes, NORMAL, SLEEP
  <2>3. Around(u) = Around(s) /\ Watching(u) = Watching(s)
    BY DEF Around, Watching, State, Managers
  <2>4. u \in State
    BY <2>2, FieldsType
  <2> HIDE DEF u
  <2>5. n \in State /\ Around(n) = Around(u) /\ Watching(n) = Watching(u)
    BY <2>2, <2>4, IdleSetModeType, WakeShows
  <2> HIDE DEF n
  <2>6. Around(t) = Around(n) /\ Watching(t) = Watching(n)
    BY <2>5 DEF Around, Watching, State, Managers
  <2> QED
    BY <2>1, <2>3, <2>5, <2>6
<1> QED
  BY <1>1, <1>2, <1>3

LEMMA NoTempKeeps ==
  ASSUME NEW s \in State, NEW mode \in IdleModes, NEW r \in KbdReplies
  PROVE  LET t == IdleSetModeNoTemp(s, mode, r)
         IN Around(t) = Around(s) /\ Watching(t) = Watching(s)
<1>1. CASE ~s.p.temporary_unidle
  BY <1>1, IdleSetModeShows DEF IdleSetModeNoTemp
<1>2. CASE s.p.temporary_unidle
  <2> DEFINE t == [s EXCEPT !.p.previous_idle_mode = mode]
  <2>1. IdleSetModeNoTemp(s, mode, r) = t
    BY <1>2 DEF IdleSetModeNoTemp
  <2>2. Around(t) = Around(s) /\ Watching(t) = Watching(s)
    BY DEF Around, Watching, State, Managers
  <2> QED
    BY <2>1, <2>2
<1> QED
  BY <1>1, <1>2

LEMMA SessionKeeps ==
  ASSUME NEW s \in State, NEW b \in BOOLEAN, NEW r \in KbdReplies
  PROVE  LET t == SessionActiveChanged(s, b, r)
         IN Reads(t) = Reads(s) /\ Watching(t) = Watching(s)
<1> DEFINE a == [s EXCEPT !.p.session_is_active = b]
           n == IF b THEN IdleSetMode(a, NORMAL, r) ELSE a
           t == MaybeClaimLight(n)
<1>1. SessionActiveChanged(s, b, r) = t
  BY DEF SessionActiveChanged
<1>2. a \in State
  BY DEF State, Managers
<1>3. Reads(a) = Reads(s) /\ Watching(a) = Watching(s)
  BY DEF Reads, Watching, State, Managers
<1> HIDE DEF a
<1>4. n \in State /\ Around(n) = Around(a) /\ Watching(n) = Watching(a)
  <2>1. NORMAL \in IdleModes
    BY DEF IdleModes, NORMAL, SLEEP
  <2> QED
    BY <1>2, <2>1, IdleSetModeType, WakeShows
<1> HIDE DEF n
<1>5. Around(t) = Around(n) /\ Watching(t) = Watching(n)
  BY <1>4, LightShows
<1> QED
  BY <1>1, <1>3, <1>4, <1>5, AroundReads

\* A watch that fires or is armed again is the watch it was.
LEMMA TendedStill ==
  ASSUME NEW s, NEW t, Reads(t) = Reads(s), Tended(s),
         t.p.after = s.p.after, t.p.sleep_action_type = s.p.sleep_action_type,
         \A w \in Watches : t.p.watch[w] = "none" <=> s.p.watch[w] = "none",
         t.p.notification => s.p.notification \/ t.p.watch["warning"] # "none"
  PROVE  Tended(t)
<1>1. /\ t.p.watch["sleep"] = "none" <=> s.p.watch["sleep"] = "none"
      /\ t.p.watch["warning"] = "none" <=> s.p.watch["warning"] = "none"
      /\ t.p.watch["dim"] = "none" <=> s.p.watch["dim"] = "none"
  BY DEF Watches
<1> QED
  BY <1>1, SameReads DEF Tended, Watched, Unwatched

-------------------------------------------------------------------------------
(* The actions.                                                            *)

LEMMA NextTended ==
  ASSUME TypeOK, Tended(Here), Next
  PROVE  \E t \in State : Step(t) /\ Tended(t)
<1> USE RepliesType
<1>0. /\ Here \in State /\ Here.p = pm /\ Here.e = env /\ pm \in Managers /\ env \in Environments
      /\ NORMAL \in IdleModes /\ DIM \in IdleModes /\ BLANK \in IdleModes /\ SLEEP \in IdleModes
  BY HereType DEF IdleModes, NORMAL, DIM, BLANK, SLEEP, TypeOK
<1>a. \A r \in Replies : r \in KbdReplies
  OBVIOUS
\* A step that sets no watch and changes nothing a watch is set from.
<1>k. ASSUME NEW t \in State, Step(t), Reads(t) = Reads(Here), Watching(t) = Watching(Here)
      PROVE  \E u \in State : Step(u) /\ Tended(u)
  BY <1>k, TendedAlike
\* A step that ends in idle_configure.
<1>c. ASSUME NEW h \in State, Watching(h) = Watching(Here),
             ~h.e.session_known => ~env.session_known, NEW r \in Replies
      PROVE  IdleConfigure(h, r) \in State /\ Tended(IdleConfigure(h, r))
  <2>1. ~h.e.session_known => Unwatched(h)
    BY <1>0, <1>c, SameWatching DEF Tended, Unwatched
  <2> QED
    BY <1>a, <2>1, ConfigureTends, ConfigureType
<1>1. ASSUME NEW w \in Watches, WatchFires(w)
      PROVE  \E t \in State : Step(t) /\ Tended(t)
  <2> DEFINE f == [Here EXCEPT !.p.watch[w] = "fired"]
             n == [f EXCEPT !.p.notification = ShowSleepWarnings,
                            !.p.user_active_id = TRUE]
  <2>1. f \in State
    BY <1>0 DEF State, Managers, WatchStates
  <2>2. Around(f) = Around(Here)
    BY <1>0 DEF Around, State, Managers
  <2>3. /\ f.p.after = pm.after /\ f.p.sleep_action_type = pm.sleep_action_type
        /\ f.p.notification = pm.notification
        /\ f.p.watch = [pm.watch EXCEPT ![w] = "fired"]
    BY <1>0 DEF State, Managers
  <2>4. PICK r \in Replies :
          Step(CASE w = "dim"     -> IdleSetModeNoTemp(f, DIM, r)
                 [] w = "blank"   -> IdleSetModeNoTemp(f, BLANK, r)
                 [] w = "sleep"   -> IdleSetModeNoTemp(f, SLEEP, r)
                 [] w = "warning" -> n)
    BY <1>1 DEF WatchFires, f, n
  <2>5. pm.watch[w] = "armed" /\ pm.watch \in [Watches -> WatchStates]
    BY <1>0, <1>1 DEF WatchFires, Managers
  <2> HIDE DEF f
  <2>6. /\ \A v \in Watches : f.p.watch[v] = "none" <=> pm.watch[v] = "none"
        /\ f.p.watch[w] = "fired"
    <3>1. f.p.watch[w] = "fired" /\ \A v \in Watches \ {w} : f.p.watch[v] = pm.watch[v]
      BY <2>3, <2>5
    <3>2. "armed" # "none" /\ "fired" # "none"
      OBVIOUS
    <3> QED
      BY <2>5, <3>1, <3>2
  <2>7. Tended(f)
    <3>1. /\ Reads(f) = Reads(Here)
          /\ f.p.notification => Here.p.notification
          /\ f.p.after = Here.p.after
          /\ f.p.sleep_action_type = Here.p.sleep_action_type
          /\ \A v \in Watches : f.p.watch[v] = "none" <=> Here.p.watch[v] = "none"
      BY <1>0, <2>2, <2>3, <2>6, AroundReads
    <3> QED
      BY <3>1, TendedStill
  <2>8. ASSUME NEW mode \in IdleModes, Step(IdleSetModeNoTemp(f, mode, r))
        PROVE  \E t \in State : Step(t) /\ Tended(t)
    <3> DEFINE t == IdleSetModeNoTemp(f, mode, r)
    <3>1. t \in State /\ Around(t) = Around(f) /\ Watching(t) = Watching(f)
      BY <1>a, <2>1, UnidleType, NoTempKeeps
    <3> QED
      BY <2>7, <2>8, <3>1, AroundReads, TendedAlike
  <2>9. CASE w = "dim"
    BY <1>0, <2>4, <2>8, <2>9
  <2>10. CASE w = "blank"
    BY <1>0, <2>4, <2>8, <2>10
  <2>11. CASE w = "sleep"
    BY <1>0, <2>4, <2>8, <2>11
  <2>12. CASE w = "warning"
    <3>1. Step(n)
      BY <2>4, <2>12
    <3>2. n \in State
      BY <2>1, IdleAssumption DEF State, Managers
    <3>3. /\ Around(n) = Around(f) /\ n.p.after = f.p.after /\ n.p.watch = f.p.watch
          /\ n.p.sleep_action_type = f.p.sleep_action_type
      BY <2>1 DEF Around, State, Managers
    <3> HIDE DEF n
    <3>4. n.p.watch["warning"] # "none"
      BY <2>6, <2>12, <3>3
    <3>5. Tended(n)
      BY <2>7, <3>3, <3>4, AroundReads, TendedStill
    <3> QED
      BY <3>1, <3>2, <3>5
  <2> QED
    BY <2>9, <2>10, <2>11, <2>12 DEF Watches
<1>2. CASE IdleBecameActive
  <2>1. PICK r \in Replies :
          LET u == [Here EXCEPT !.e.activity = FALSE]
              v == [u EXCEPT !.p.temporary_unidle = FALSE]
              n == IdleSetMode([v EXCEPT !.p.notification = FALSE], NORMAL, r)
          IN  Step([n EXCEPT !.p.user_active_id = FALSE])
    BY <1>2 DEF IdleBecameActive, SetTemporaryUnidle
  <2> DEFINE u == [Here EXCEPT !.e.activity = FALSE]
             v == [u EXCEPT !.p.temporary_unidle = FALSE]
             q == [v EXCEPT !.p.notification = FALSE]
             n == IdleSetMode(q, NORMAL, r)
             t == [n EXCEPT !.p.user_active_id = FALSE]
  <2>2. Step(t)
    BY <2>1
  <2>3. q \in State
    BY <1>0 DEF State, Managers, Environments
  <2>4. /\ Reads(q) = Reads(Here) /\ q.p.watch = pm.watch /\ q.p.after = pm.after
        /\ q.p.sleep_action_type = pm.sleep_action_type
    BY <1>0 DEF Reads, State, Managers, Environments
  <2>5. ~q.p.notification
    BY <1>0 DEF State, Managers, Environments
  <2> HIDE DEF q
  <2>6. Tended(q)
    BY <1>0, <2>4, <2>5, TendedStill
  <2>7. n \in State /\ Around(n) = Around(q) /\ Watching(n) = Watching(q)
    BY <1>0, <1>a, <2>3, WakeShows, IdleSetModeType
  <2> HIDE DEF n
  <2>8. t \in State /\ Around(t) = Around(n) /\ Watching(t) = Watching(n)
    BY <2>7 DEF Around, Watching, State, Managers
  <2> QED
    BY <2>2, <2>6, <2>7, <2>8, AroundReads, TendedAlike
<1>3. CASE TemporaryUnidleDone
  <2> DEFINE mode == pm.previous_idle_mode
  <2>1. PICK r \in Replies :
          Step([IdleSetMode(Here, mode, r) EXCEPT !.p.temporary_unidle = FALSE])
    BY <1>3 DEF TemporaryUnidleDone
  <2>2. mode \in IdleModes
    BY <1>0 DEF Managers
  <2> HIDE DEF mode
  <2> DEFINE m == IdleSetMode(Here, mode, r)
             t == [m EXCEPT !.p.temporary_unidle = FALSE]
  <2>3. Step(t)
    BY <2>1
  <2>4. m \in State /\ Around(m) = Around(Here) /\ Watching(m) = Watching(Here)
    BY <1>0, <1>a, <2>2, IdleSetModeShows, IdleSetModeType
  <2> HIDE DEF m
  <2>5. t \in State /\ Around(t) = Around(m) /\ Watching(t) = Watching(m)
    BY <2>4 DEF Around, Watching, State, Managers
  <2> QED
    BY <1>k, <2>3, <2>4, <2>5, AroundReads
<1>4. CASE UserActivity
  <2>1. PICK f : Step([Here EXCEPT !.p.watch = f, !.e.activity = env.activity \/ pm.user_active_id])
                 /\ f = [w \in Watches |-> IF pm.watch[w] = "fired" THEN "armed" ELSE pm.watch[w]]
    BY <1>0, <1>4 DEF UserActivity
  <2> DEFINE h == [Here EXCEPT !.p.watch = f, !.e.activity = env.activity \/ pm.user_active_id]
  <2>2. f \in [Watches -> WatchStates]
    BY <1>0, <2>1 DEF Managers, WatchStates
  <2>3. h \in State
    BY <1>0, <2>2 DEF State, Managers, Environments
  <2>4. /\ Reads(h) = Reads(Here) /\ h.p.after = pm.after
        /\ h.p.sleep_action_type = pm.sleep_action_type
        /\ h.p.notification = pm.notification /\ h.p.watch = f
    BY <1>0 DEF Reads, State, Managers, Environments
  <2>5. \A w \in Watches : f[w] = "none" <=> pm.watch[w] = "none"
    BY <2>1
  <2>6. Step(h)
    BY <2>1
  <2> HIDE DEF h
  <2>7. Tended(h)
    BY <1>0, <2>4, <2>5, TendedStill
  <2> QED
    BY <2>3, <2>6, <2>7
<1>5. CASE ScreensaverActiveChanged
  <2> DEFINE now == ~pm.screensaver_active
             h == [Here EXCEPT !.p.screensaver_active = now]
  <2>1. PICK r \in Replies :
          Step(IF now THEN IdleSetMode(IdleConfigure(h, r), BLANK, r) ELSE IdleConfigure(h, r))
    BY <1>5 DEF ScreensaverActiveChanged
  <2>2. h \in State
    BY <1>0, FieldsType
  <2>3. Watching(h) = Watching(Here) /\ h.e.session_known = env.session_known
    BY <1>0 DEF Watching, State, Managers
  <2> HIDE DEF h, now
  <2> DEFINE c == IdleConfigure(h, r)
             t == IdleSetMode(c, BLANK, r)
  <2>4. c \in State /\ Tended(c)
    BY <1>c, <2>2, <2>3
  <2>5. Step(IF now THEN t ELSE c)
    BY <2>1
  <2> HIDE DEF c
  <2>6. t \in State /\ Around(t) = Around(c) /\ Watching(t) = Watching(c)
    BY <1>0, <1>a, <2>4, IdleSetModeShows, IdleSetModeType
  <2>7. Tended(t)
    BY <2>4, <2>6, AroundReads, TendedAlike
  <2> QED
    BY <2>4, <2>5, <2>6, <2>7
<1>6. CASE WakeUpScreen
  <2>1. PICK r \in Replies : Step(UpdateTemporaryUnidle(Here, r))
    BY <1>6 DEF WakeUpScreen
  <2> DEFINE t == UpdateTemporaryUnidle(Here, r)
  <2>2. t \in State /\ Around(t) = Around(Here) /\ Watching(t) = Watching(Here)
    BY <1>0, <1>a, UnidleType, UpdateKeeps
  <2> QED
    BY <1>k, <2>1, <2>2, AroundReads
<1>7. CASE OnBatteryChanged
  <2>1. PICK r \in Replies, source \in Sources :
          Step(UpdateTemporaryUnidle(IdleConfigure([Here EXCEPT !.e.source = source], r), r))
    BY <1>7 DEF OnBatteryChanged
  <2> DEFINE h == [Here EXCEPT !.e.source = source]
             c == IdleConfigure(h, r)
             t == UpdateTemporaryUnidle(c, r)
  <2>2. Step(t)
    BY <2>1
  <2>3. h \in State
    BY <1>0 DEF State, Environments
  <2>4. Watching(h) = Watching(Here) /\ h.e.session_known = env.session_known
    BY <1>0 DEF Watching, State, Environments
  <2> HIDE DEF h
  <2>5. c \in State /\ Tended(c)
    BY <1>c, <2>3, <2>4
  <2> HIDE DEF c
  <2>6. t \in State /\ Around(t) = Around(c) /\ Watching(t) = Watching(c)
    BY <1>0, <1>a, <2>5, UnidleType, UpdateKeeps
  <2> QED
    BY <2>2, <2>5, <2>6, AroundReads, TendedAlike
<1>8. CASE LidChanged
  <2> DEFINE h == [Here EXCEPT !.p.lid_is_closed = ~pm.lid_is_closed]
  <2>1. Step(h)
    BY <1>0, <1>8 DEF LidChanged
  <2>2. h \in State
    BY <1>0, FieldsType
  <2>3. Reads(h) = Reads(Here) /\ Watching(h) = Watching(Here)
    BY <1>0 DEF Reads, Watching, State, Managers
  <2> QED
    BY <1>k, <2>1, <2>2, <2>3
<1>9. CASE SessionPropertiesChanged
  <2>1. PICK active \in BOOLEAN, inhibited \in SUBSET Inhibitors, r \in Replies :
          LET s == [Here EXCEPT !.e.session_known = TRUE, !.e.inhibited = inhibited]
              a == IF active = pm.session_is_active /\ env.session_known
                   THEN s ELSE SessionActiveChanged(s, active, r)
          IN  Step(IF inhibited = env.inhibited /\ env.session_known
                   THEN a ELSE IdleConfigure(a, r))
    BY <1>9 DEF SessionPropertiesChanged
  <2> DEFINE h == [Here EXCEPT !.e.session_known = TRUE, !.e.inhibited = inhibited]
             b == SessionActiveChanged(h, active, r)
             a == IF active = pm.session_is_active /\ env.session_known THEN h ELSE b
  <2>2. Step(IF inhibited = env.inhibited /\ env.session_known THEN a ELSE IdleConfigure(a, r))
    BY <2>1
  <2>3. h \in State
    BY <1>0 DEF State, Environments
  <2>4. /\ Watching(h) = Watching(Here) /\ h.e.session_known
        /\ inhibited = env.inhibited /\ env.session_known => Reads(h) = Reads(Here)
    BY <1>0 DEF Reads, Watching, State, Managers, Environments
  <2> HIDE DEF h
  <2>5. b \in State /\ Reads(b) = Reads(h) /\ Watching(b) = Watching(h)
    BY <1>a, <2>3, SessionType, SessionKeeps
  <2> HIDE DEF b
  <2>6. a \in State /\ Reads(a) = Reads(h) /\ Watching(a) = Watching(h)
    BY <2>3, <2>5
  <2> HIDE DEF a
  <2>7. a.e.session_known
    BY <2>4, <2>6, SameReads
  <2>8. CASE inhibited = env.inhibited /\ env.session_known
    BY <1>k, <2>2, <2>4, <2>6, <2>8
  <2>9. CASE ~(inhibited = env.inhibited /\ env.session_known)
    BY <1>c, <2>2, <2>4, <2>6, <2>7, <2>9
  <2> QED
    BY <2>8, <2>9
<1>10. CASE SettingChanged
  <2>1. PICK settings \in Settings, r \in Replies :
          LET s == [Here EXCEPT !.e.settings = settings]
          IN  Step(IF SameIdleKeys(settings, env.settings)
                   THEN MaybeClaimLight(s) ELSE IdleConfigure(s, r))
    BY <1>10 DEF SettingChanged
  <2> DEFINE h == [Here EXCEPT !.e.settings = settings]
  <2>2. Step(IF SameIdleKeys(settings, env.settings)
             THEN MaybeClaimLight(h) ELSE IdleConfigure(h, r))
    BY <2>1
  <2>3. h \in State
    BY <1>0 DEF State, Environments
  <2>4. /\ Watching(h) = Watching(Here) /\ h.e.session_known = env.session_known
        /\ h.e = [env EXCEPT !.settings = settings] /\ h.p = pm
    BY <1>0 DEF Watching, State, Environments
  <2> HIDE DEF h
  <2>5. CASE SameIdleKeys(settings, env.settings)
    <3>1. /\ settings.type = env.settings.type /\ settings.timeout = env.settings.timeout
          /\ settings.idle_dim = env.settings.idle_dim
          /\ settings.idle_delay = env.settings.idle_delay
      <4>1. env.settings \in SettingRecords
        BY <1>0, IdleAssumption DEF Environments
      <4>2. PICK ambient : settings = [env.settings EXCEPT !.ambient = ambient]
        BY <2>5 DEF SameIdleKeys
      <4> QED
        BY <4>1, <4>2 DEF SettingRecords
    <3>2. Reads(h) = Reads(Here)
      BY <1>0, <2>4, <3>1 DEF Reads, Environments
    <3> DEFINE t == MaybeClaimLight(h)
    <3>3. t \in State /\ Around(t) = Around(h) /\ Watching(t) = Watching(h)
      BY <2>3, LightType, LightShows
    <3> QED
      BY <1>k, <2>2, <2>4, <2>5, <3>2, <3>3, AroundReads
  <2>6. CASE ~SameIdleKeys(settings, env.settings)
    BY <1>c, <2>2, <2>3, <2>4, <2>6
  <2> QED
    BY <2>5, <2>6
<1>11. CASE BatteryLowChanged
  <2> DEFINE h == [Here EXCEPT !.p.battery_is_low = ~pm.battery_is_low]
  <2>1. PICK r \in Replies : Step(IdleConfigure(h, r))
    BY <1>0, <1>11 DEF BatteryLowChanged
  <2>2. h \in State
    BY <1>0, FieldsType
  <2>3. Watching(h) = Watching(Here) /\ h.e = env
    BY <1>0 DEF Watching, State, Managers
  <2> HIDE DEF h
  <2> QED
    BY <1>c, <2>1, <2>2, <2>3
<1>12. CASE PowerProfileShown
  <2>1. PICK saver \in BOOLEAN, r \in Replies :
          LET s == [Here EXCEPT !.e.ppd_running = TRUE]
          IN  Step(IF saver = pm.power_saver_enabled
                   THEN s
                   ELSE IdleConfigure([s EXCEPT !.p.power_saver_enabled = saver], r))
    BY <1>12 DEF PowerProfileShown
  <2> DEFINE s == [Here EXCEPT !.e.ppd_running = TRUE]
             h == [s EXCEPT !.p.power_saver_enabled = saver]
  <2>2. Step(IF saver = pm.power_saver_enabled THEN s ELSE IdleConfigure(h, r))
    BY <2>1
  <2>3. s \in State /\ h \in State
    BY <1>0 DEF State, Managers, Environments
  <2>4. /\ Watching(h) = Watching(Here) /\ Watching(s) = Watching(Here)
        /\ h.e.session_known = env.session_known /\ s.p = pm
    BY <1>0 DEF Watching, State, Managers, Environments
  <2>5. /\ s.e.session_known = env.session_known /\ s.e.settings = env.settings
        /\ s.e.source = env.source /\ s.e.inhibited = env.inhibited
        /\ s.e.events = env.events
    BY <1>0 DEF State, Environments
  <2> HIDE DEF s, h
  <2>6. CASE saver = pm.power_saver_enabled
    <3>1. SleepType(s.e) = SleepType(env) /\ SleepTimeout(s.e) = SleepTimeout(env)
      BY <2>5 DEF SleepType, SleepTimeout, ActionInhibited
    <3>2. "ppd" \in env.events
      BY <1>12 DEF PowerProfileShown, Happens
    <3>3. Tended(s)
      BY <1>0, <2>4, <2>5, <3>1, <3>2 DEF Tended, Watched, Unwatched
    <3> QED
      BY <2>2, <2>3, <2>6, <3>3
  <2>7. CASE saver # pm.power_saver_enabled
    BY <1>c, <2>2, <2>3, <2>4, <2>7
  <2> QED
    BY <2>6, <2>7
<1>13. CASE PowerProfilesVanished
  <2> DEFINE h == [Here EXCEPT !.e.ppd_running = FALSE]
  <2>1. PICK r \in Replies : Step(IdleConfigure(h, r))
    BY <1>13 DEF PowerProfilesVanished
  <2>2. h \in State
    BY <1>0 DEF State, Environments
  <2>3. Watching(h) = Watching(Here) /\ h.e.session_known = env.session_known
    BY <1>0 DEF Watching, State, Environments
  <2> HIDE DEF h
  <2> QED
    BY <1>c, <2>1, <2>2, <2>3
\* A notification that is closed leaves every watch as it was.
<1>n. ASSUME NEW h \in State, Reads(h) = Reads(Here), ~h.p.notification,
             h.p.watch = pm.watch, h.p.after = pm.after,
             h.p.sleep_action_type = pm.sleep_action_type
      PROVE  Tended(h)
  BY <1>0, <1>n, TendedStill
<1>14. CASE PrepareForSleep
  <2> DEFINE h == [Here EXCEPT !.e.sleeping = TRUE, !.p.notification = FALSE]
             t == DisableMonitors(h)
  <2>1. Step(t)
    BY <1>14 DEF PrepareForSleep
  <2>2. h \in State
    BY <1>0 DEF State, Managers, Environments
  <2>3. /\ Reads(h) = Reads(Here) /\ h.p.watch = pm.watch /\ h.p.after = pm.after
        /\ h.p.sleep_action_type = pm.sleep_action_type
    BY <1>0 DEF Reads, State, Managers, Environments
  <2>4. ~h.p.notification
    BY <1>0 DEF State, Managers
  <2> HIDE DEF h
  <2>5. Tended(h)
    BY <1>n, <2>2, <2>3, <2>4
  <2>6. t \in State /\ Around(t) = Around(h) /\ Watching(t) = Watching(h)
    BY <2>2, LightType, MonitorsShow
  <2> QED
    BY <2>1, <2>5, <2>6, AroundReads, TendedAlike
<1>15. CASE ResumeFromSleep
  <2> DEFINE h == [Here EXCEPT !.e.sleeping = FALSE]
             t == EnableMonitors(h)
  <2>1. Step(t)
    BY <1>15 DEF ResumeFromSleep
  <2>2. h \in State
    BY <1>0 DEF State, Environments
  <2>3. Reads(h) = Reads(Here) /\ Watching(h) = Watching(Here)
    BY <1>0 DEF Reads, Watching, State, Managers, Environments
  <2> HIDE DEF h
  <2>4. t \in State /\ Around(t) = Around(h) /\ Watching(t) = Watching(h)
    BY <2>2, LightType, MonitorsShow
  <2> QED
    BY <1>k, <2>1, <2>3, <2>4, AroundReads
<1>16. CASE IioProxyAppeared
  <2> DEFINE h == [Here EXCEPT !.e.iio_proxy = TRUE]
             t == MaybeClaimLight(h)
  <2>1. Step(t)
    BY <1>16 DEF IioProxyAppeared
  <2>2. h \in State
    BY <1>0 DEF State, Environments
  <2>3. Reads(h) = Reads(Here) /\ Watching(h) = Watching(Here)
    BY <1>0 DEF Reads, Watching, State, Managers, Environments
  <2> HIDE DEF h
  <2>4. t \in State /\ Around(t) = Around(h) /\ Watching(t) = Watching(h)
    BY <2>2, LightType, LightShows
  <2> QED
    BY <1>k, <2>1, <2>3, <2>4, AroundReads
<1>17. CASE IioProxyVanished
  <2> DEFINE h == [Here EXCEPT !.e.iio_proxy = FALSE, !.e.sensor_claimed = FALSE]
  <2>1. Step(h)
    BY <1>17 DEF IioProxyVanished
  <2>2. h \in State
    BY <1>0 DEF State, Environments
  <2>3. Reads(h) = Reads(Here) /\ Watching(h) = Watching(Here)
    BY <1>0 DEF Reads, Watching, State, Managers, Environments
  <2> QED
    BY <1>k, <2>1, <2>2, <2>3
<1>s. CASE BrightnessControlChanges
  <2> DEFINE h == [Here EXCEPT !.e.shell_control = ~env.shell_control]
  <2>1. Step(h)
    BY <1>0, <1>s DEF BrightnessControlChanges
  <2>2. h \in State
    BY <1>0 DEF State, Environments
  <2>3. Reads(h) = Reads(Here) /\ Watching(h) = Watching(Here)
    BY <1>0 DEF Reads, Watching, State, Managers, Environments
  <2> QED
    BY <1>k, <2>1, <2>2, <2>3
<1>18. CASE NotificationDismissed
  <2> DEFINE h == [Here EXCEPT !.p.notification = FALSE]
  <2>1. Step(h)
    BY <1>18 DEF NotificationDismissed
  <2>2. h \in State
    BY <1>0 DEF State, Managers
  <2>3. /\ Reads(h) = Reads(Here) /\ h.p.watch = pm.watch /\ h.p.after = pm.after
        /\ h.p.sleep_action_type = pm.sleep_action_type
    BY <1>0 DEF Reads, State, Managers
  <2>4. ~h.p.notification
    BY <1>0 DEF State, Managers
  <2> HIDE DEF h
  <2> QED
    BY <1>n, <2>1, <2>2, <2>3, <2>4
<1>19. CASE KbdStep \/ KbdToggleCall \/ KbdSetBrightness \/ KbdBrightnessChanged
  <2>1. \E k : Step([Here EXCEPT !.p.kbd = k])
    <3>1. CASE KbdStep
      BY <3>1 DEF KbdStep
    <3>2. CASE KbdToggleCall
      BY <3>2 DEF KbdToggleCall
    <3>3. CASE KbdSetBrightness
      BY <3>3 DEF KbdSetBrightness
    <3>4. CASE KbdBrightnessChanged
      BY <1>0, <3>4 DEF KbdBrightnessChanged
    <3> QED
      BY <1>19, <3>1, <3>2, <3>3, <3>4
  <2>2. PICK k : Step([Here EXCEPT !.p.kbd = k])
    BY <2>1
  <2> DEFINE h == [Here EXCEPT !.p.kbd = k]
  <2>3. Reads(h) = Reads(Here) /\ Watching(h) = Watching(Here)
    BY <1>0 DEF Reads, Watching, State, Managers
  <2>4. h \in State
    <3>1. TypeOK'
      BY <1>19, NextType DEF Next, EnvironmentNext
    <3>2. pm' = h.p /\ env' = env
      BY <1>0, <2>2 DEF Step
    <3>3. h = [p |-> h.p, e |-> env]
      BY <1>0 DEF State
    <3> QED
      BY <1>0, <3>1, <3>2, <3>3 DEF State, TypeOK
  <2> QED
    BY <1>k, <2>2, <2>3, <2>4
<1> QED
  BY <1>1, <1>2, <1>3, <1>4, <1>5, <1>6, <1>7, <1>8, <1>9, <1>10, <1>11, <1>12, <1>13,
     <1>14, <1>15, <1>16, <1>17, <1>s, <1>18, <1>19
  DEF Next, SystemNext, EnvironmentNext

-------------------------------------------------------------------------------
(* The theorems.                                                           *)

\* What is inductive, given the types.
WatchInv == Tended(Here)

LEMMA InitTended ==
  Init => WatchInv
<1> SUFFICES ASSUME NEW known \in BOOLEAN, NEW active \in BOOLEAN, NEW lid \in BOOLEAN,
                    NEW level \in KbdLevels, NEW inhibited \in SUBSET Inhibitors,
                    NEW source \in Sources, NEW settings \in Settings,
                    NEW control \in BOOLEAN, NEW events \in Scenarios,
                    LET e == [session_known |-> known,
                              inhibited |-> IF known THEN inhibited ELSE {},
                              source |-> source, settings |-> settings,
                              ppd_running |-> FALSE,
                              shell_control |-> control, iio_proxy |-> FALSE,
                              sensor_claimed |-> FALSE,
                              dimming |-> FALSE, sleeping |-> FALSE, activity |-> FALSE,
                              events |-> events]
                        s == Startup(e, active, lid, level)
                    IN  pm = s.p /\ env = s.e
             PROVE  WatchInv
  BY DEF Init
<1> DEFINE e == [session_known |-> known,
                 inhibited |-> IF known THEN inhibited ELSE {},
                 source |-> source, settings |-> settings, ppd_running |-> FALSE,
                 shell_control |-> control, iio_proxy |-> FALSE,
                 sensor_claimed |-> FALSE,
                 dimming |-> FALSE, sleeping |-> FALSE, activity |-> FALSE,
                 events |-> events]
           p == [session_is_active |-> active, screensaver_active |-> FALSE,
                 lid_is_closed |-> lid, battery_is_low |-> FALSE,
                 power_saver_enabled |-> FALSE,
                 current_idle_mode |-> NORMAL, previous_idle_mode |-> NORMAL,
                 temporary_unidle |-> FALSE,
                 watch |-> [w \in Watches |-> "none"], after |-> [w \in Watches |-> 0],
                 user_active_id |-> FALSE,
                 notification |-> FALSE, sleep_action_type |-> "blank",
                 screen_blanked |-> FALSE, light_claimed |-> FALSE,
                 kbd |-> [now |-> level, old |-> NoLevel, pre_dim |-> NoLevel]]
           s == [p |-> p, e |-> e]
           c == IdleConfigure(s, Accepted)
           t == EnableMonitors(c)
<1>1. pm = t.p /\ env = t.e
  BY DEF Startup
<1>2. p \in Managers /\ e \in Environments
  BY DEF Managers, Environments, IdleModes, NORMAL, SLEEP, WatchStates, ActionTypes,
         KbdRecords
<1>3. /\ p.watch["sleep"] = "none" /\ p.watch["dim"] = "none"
      /\ p.watch["warning"] = "none" /\ ~p.notification
  BY DEF Watches
<1> HIDE DEF p, e
<1>4. s \in State /\ s.p = p /\ Accepted \in KbdReplies
  BY <1>2 DEF State, Accepted, KbdReplies
<1> HIDE DEF s
<1>5. Unwatched(s)
  BY <1>3, <1>4 DEF Unwatched
<1>6. c \in State /\ Tended(c)
  BY <1>4, <1>5, ConfigureType, ConfigureTends
<1> HIDE DEF c
<1>7. t \in State /\ Around(t) = Around(c) /\ Watching(t) = Watching(c)
  BY <1>6, LightType, MonitorsShow
<1> HIDE DEF t
<1>8. Tended(t)
  BY <1>6, <1>7, AroundReads, TendedAlike
<1>9. Here = t
  BY <1>1, <1>7 DEF Here, State
<1> QED
  BY <1>8, <1>9 DEF WatchInv

LEMMA WatchStep ==
  TypeOK /\ WatchInv /\ [Next]_vars => WatchInv'
<1> SUFFICES ASSUME TypeOK, WatchInv, [Next]_vars
             PROVE  WatchInv'
  OBVIOUS
<1>1. CASE Next
  <2>1. PICK t \in State : Step(t) /\ Tended(t)
    BY <1>1, NextTended DEF WatchInv
  <2>2. [p |-> pm', e |-> env'] = t
    BY <2>1 DEF State, Step
  <2> QED
    BY <2>1, <2>2 DEF WatchInv, Here
<1>2. CASE UNCHANGED vars
  BY <1>2 DEF WatchInv, Here, vars
<1> QED
  BY <1>1, <1>2

LEMMA WatchInvariant == Spec => []WatchInv
<1> QED
  BY InitTended, WatchStep, TypeCorrect, PTL DEF Spec

\* No sleep watch and no dim watch is a leftover, whatever has changed since
\* it was set and in whatever order.
THEOREM WatchesCorrect == Spec => []WatchesAreWanted
<1>1. WatchInv => WatchesAreWanted
  BY DEF WatchInv, Here, Tended, Watched, WatchesAreWanted, SleepWatchIsWanted,
         DimWatchIsWanted, Happens
<1> QED
  BY <1>1, WatchInvariant, PTL

\* The sleep warning names the action the sleep watch will take, and one that
\* show_sleep_warning has a text for.
THEOREM WarningCorrect == Spec => []WarningNamesTheAction
<1>1. WatchInv => WarningNamesTheAction
  BY DEF WatchInv, Here, Tended, Watched, WarningNamesTheAction
<1> QED
  BY <1>1, WatchInvariant, PTL

-------------------------------------------------------------------------------
(***************************************************************************)
(* gsd-power as a whole: its handlers act for several parts, and every step  *)
(* is one of each part's own, or none (PartsCorrect) - so that what is proved *)
(* of a part holds in the daemon, for behaviours of any length.  It is proved *)
(* here of the inhibitors, where what makes the properties inductive is that  *)
(* the taken flag is never wrong about a descriptor or a call, though the     *)
(* flag, the call and the descriptor are changed by different handlers; of    *)
(* the warnings, whose alarm ends with its reason; and of the power-saver     *)
(* hold, which a low battery has.                                           *)
(***************************************************************************)

\* A descriptor or a call counts as taken, there is never both, and a slot
\* that is taken has one of them unless logind refused.
Honest(slot) ==
  /\ slot.fd \/ slot.pending => slot.taken
  /\ ~(slot.fd /\ slot.pending)
  /\ slot.taken => slot.fd \/ slot.pending \/ slot.refused

IInv ==
  /\ Inh!InhTypeOK
  /\ Honest(inh.lid) /\ Honest(inh.suspend)
  /\ Inh!MonitorKeepsAwake
  /\ Inh!NoForgottenInhibitor
  /\ Inh!SuspendIsDelayed

-------------------------------------------------------------------------------
(* The helpers on a slot.                                                  *)

LEMMA SlotOps ==
  ASSUME NEW slot \in Inh!Slot, Honest(slot), NEW granted \in BOOLEAN
  PROVE  /\ Inh!Inhibit(slot) \in Inh!Slot /\ Honest(Inh!Inhibit(slot))
         /\ Inh!Inhibit(slot).refused = slot.refused
         /\ slot.refused \/ Inh!Inhibit(slot).fd \/ Inh!Inhibit(slot).pending
         /\ Inh!Uninhibit(slot) \in Inh!Slot /\ Honest(Inh!Uninhibit(slot))
         /\ Inh!Uninhibit(slot).refused = slot.refused /\ ~Inh!Uninhibit(slot).fd
         /\ Inh!Uninhibit(slot).pending = slot.pending
         /\ slot.pending =>
              /\ Inh!Replied(slot, granted) \in Inh!Slot /\ Honest(Inh!Replied(slot, granted))
              /\ slot.refused => Inh!Replied(slot, granted).refused
              /\ Inh!Replied(slot, granted).refused \/ Inh!Replied(slot, granted).fd
              /\ ~Inh!Replied(slot, granted).pending
<1>1. /\ Inh!Inhibit(slot) \in Inh!Slot /\ Honest(Inh!Inhibit(slot))
      /\ Inh!Inhibit(slot).refused = slot.refused
      /\ slot.refused \/ Inh!Inhibit(slot).fd \/ Inh!Inhibit(slot).pending
  BY DEF Inh!Inhibit, Inh!Slot, Honest
<1>2. /\ Inh!Uninhibit(slot) \in Inh!Slot /\ Honest(Inh!Uninhibit(slot))
      /\ Inh!Uninhibit(slot).refused = slot.refused /\ ~Inh!Uninhibit(slot).fd
      /\ Inh!Uninhibit(slot).pending = slot.pending
  BY DEF Inh!Uninhibit, Inh!Slot, Honest
<1>3. slot.pending =>
        /\ Inh!Replied(slot, granted) \in Inh!Slot /\ Honest(Inh!Replied(slot, granted))
        /\ slot.refused => Inh!Replied(slot, granted).refused
        /\ Inh!Replied(slot, granted).refused \/ Inh!Replied(slot, granted).fd
        /\ ~Inh!Replied(slot, granted).pending
  BY DEF Inh!Replied, Inh!Slot, Honest
<1> QED
  BY <1>1, <1>2, <1>3

\* Synchronising takes the lid inhibitor and starts the timer.
LEMMA SyncLidOps ==
  ASSUME NEW i \in Inh!Inhs, Honest(i.lid), Honest(i.suspend)
  PROVE  /\ Inh!SyncLid(i) \in Inh!Inhs
         /\ Honest(Inh!SyncLid(i).lid) /\ Inh!SyncLid(i).suspend = i.suspend
         /\ Inh!SyncLid(i).timer /\ Inh!SyncLid(i).external = i.external
         /\ Inh!SyncLid(i).prompt = i.prompt
         /\ Inh!SyncLid(i).lid.refused \/ Inh!SyncLid(i).lid.fd \/ Inh!SyncLid(i).lid.pending
<1>1. i.lid \in Inh!Slot
  BY DEF Inh!Inhs
<1>2. /\ Inh!Inhibit(i.lid) \in Inh!Slot /\ Honest(Inh!Inhibit(i.lid))
      /\ Inh!Inhibit(i.lid).refused \/ Inh!Inhibit(i.lid).fd \/ Inh!Inhibit(i.lid).pending
  BY <1>1, SlotOps
<1> DEFINE l == Inh!Inhibit(i.lid)
<1> HIDE DEF l
<1>3. Inh!SyncLid(i) = [i EXCEPT !.lid = l, !.timer = TRUE]
  BY DEF Inh!SyncLid, l
<1>4. l \in Inh!Slot /\ Honest(l) /\ (l.refused \/ l.fd \/ l.pending)
  BY <1>2 DEF l
<1> QED
  BY <1>3, <1>4 DEF Inh!Inhs

-------------------------------------------------------------------------------

LEMMA InitInv ==
  Inh!InhInit => IInv
<1> SUFFICES ASSUME Inh!InhInit
             PROVE  IInv
  OBVIOUS
<1>1. PICK external \in BOOLEAN, prompt \in BOOLEAN :
        inh = Inh!SyncLid([lid |-> Inh!Free, suspend |-> Inh!Inhibit(Inh!Free),
                       timer |-> FALSE, external |-> external, prompt |-> prompt])
  BY DEF Inh!InhInit
<1> DEFINE i == [lid |-> Inh!Free, suspend |-> Inh!Inhibit(Inh!Free),
                 timer |-> FALSE, external |-> external, prompt |-> prompt]
<1>2. Inh!Free \in Inh!Slot /\ Honest(Inh!Free)
  BY DEF Inh!Free, Inh!Slot, Honest
<1>3. Inh!Inhibit(Inh!Free) = [fd |-> FALSE, taken |-> TRUE, pending |-> TRUE, refused |-> FALSE]
  BY DEF Inh!Free, Inh!Inhibit
<1>4. i \in Inh!Inhs /\ Honest(i.lid) /\ Honest(i.suspend) /\ i.suspend.pending /\ ~i.suspend.fd
  BY <1>2, <1>3 DEF Inh!Inhs, Inh!Slot, Honest
<1>5. inh = Inh!SyncLid(i)
  BY <1>1
<1> HIDE DEF i
<1>6. pm.session_is_active \in BOOLEAN /\ env.sleeping = FALSE
  BY DEF Inh!InhInit
<1> QED
  BY <1>4, <1>5, <1>6, SyncLidOps
  DEF IInv, Inh!InhTypeOK, Inh!MonitorKeepsAwake, Inh!NoForgottenInhibitor, Inh!SuspendIsDelayed, Honest

LEMMA NextInv ==
  IInv /\ [Inh!InhNext]_(Inh!ivars) => IInv'
<1> SUFFICES ASSUME IInv, [Inh!InhNext]_(Inh!ivars)
             PROVE  IInv'
  OBVIOUS
<1>0. /\ inh \in Inh!Inhs /\ inh.lid \in Inh!Slot /\ inh.suspend \in Inh!Slot
      /\ Honest(inh.lid) /\ Honest(inh.suspend)
      /\ pm.session_is_active \in BOOLEAN /\ env.sleeping \in BOOLEAN
  BY DEF IInv, Inh!InhTypeOK, Inh!Inhs
<1> USE DEF IInv, Inh!InhTypeOK, Inh!MonitorKeepsAwake, Inh!NoForgottenInhibitor, Inh!SuspendIsDelayed
<1>1. CASE Inh!SessionSwitched
  BY <1>0, <1>1, SyncLidOps DEF Inh!SessionSwitched, Honest
<1>2. CASE Inh!MonitorChanged
  <2> DEFINE i == [inh EXCEPT !.external = ~inh.external]
  <2>1. i \in Inh!Inhs /\ i.lid = inh.lid /\ i.suspend = inh.suspend
    BY <1>0 DEF Inh!Inhs
  <2>2. inh' = Inh!SyncLid(i) /\ UNCHANGED <<pm.session_is_active, env.sleeping>>
    BY <1>2 DEF Inh!MonitorChanged
  <2> HIDE DEF i
  <2> QED
    BY <1>0, <2>1, <2>2, SyncLidOps DEF Honest
<1>3. CASE Inh!LidTimerFires
  <2> DEFINE l == IF Inh!SuspendOnLidClose THEN Inh!Uninhibit(inh.lid) ELSE inh.lid
  <2>1. inh' = [inh EXCEPT !.timer = FALSE, !.lid = l]
    BY <1>3 DEF Inh!LidTimerFires
  <2>2. /\ l \in Inh!Slot /\ Honest(l) /\ l.refused = inh.lid.refused
        /\ l.pending = inh.lid.pending
        /\ Inh!SuspendOnLidClose => ~l.fd
        /\ ~Inh!SuspendOnLidClose => l = inh.lid
    BY <1>0, SlotOps
  <2> HIDE DEF l
  <2>3. /\ inh' \in Inh!Inhs /\ inh'.lid = l /\ inh'.suspend = inh.suspend
        /\ inh'.external = inh.external /\ inh'.prompt = inh.prompt
    BY <1>0, <2>1, <2>2 DEF Inh!Inhs
  <2>4. (inh.prompt => ~inh.lid.pending) /\ UNCHANGED <<pm.session_is_active, env.sleeping>>
    BY <1>3 DEF Inh!LidTimerFires
  <2> QED
    BY <1>0, <2>2, <2>3, <2>4 DEF Inh!SuspendOnLidClose, Honest
<1>4. CASE Inh!LidReply
  <2>1. PICK granted \in BOOLEAN : inh' = [inh EXCEPT !.lid = Inh!Replied(inh.lid, granted)]
    BY <1>4 DEF Inh!LidReply
  <2> DEFINE l == Inh!Replied(inh.lid, granted)
  <2>2. inh.lid.pending /\ UNCHANGED <<pm.session_is_active, env.sleeping>>
    BY <1>4 DEF Inh!LidReply
  <2>3. /\ l \in Inh!Slot /\ Honest(l) /\ (l.refused \/ l.fd) /\ ~l.pending
        /\ inh.lid.refused => l.refused
    BY <1>0, <2>2, SlotOps
  <2> HIDE DEF l
  <2>4. /\ inh' \in Inh!Inhs /\ inh'.lid = l /\ inh'.suspend = inh.suspend
        /\ inh'.external = inh.external /\ inh'.prompt = inh.prompt
        /\ inh'.timer = inh.timer
    BY <1>0, <2>1, <2>3 DEF Inh!Inhs, l
  <2> QED
    BY <1>0, <2>2, <2>3, <2>4 DEF Inh!SuspendOnLidClose, Honest
<1>5. CASE Inh!SuspendReply
  <2>1. PICK granted \in BOOLEAN : inh' = [inh EXCEPT !.suspend = Inh!Replied(inh.suspend, granted)]
    BY <1>5 DEF Inh!SuspendReply
  <2> DEFINE u == Inh!Replied(inh.suspend, granted)
  <2>2. inh.suspend.pending /\ UNCHANGED <<pm.session_is_active, env.sleeping>>
    BY <1>5 DEF Inh!SuspendReply
  <2>3. u \in Inh!Slot /\ Honest(u) /\ (u.refused \/ u.fd) /\ ~u.pending
    BY <1>0, <2>2, SlotOps
  <2>4. /\ inh' \in Inh!Inhs /\ inh'.lid = inh.lid /\ inh'.suspend = u
        /\ inh'.external = inh.external /\ inh'.prompt = inh.prompt
        /\ inh'.timer = inh.timer
    BY <1>0, <2>1, <2>3 DEF Inh!Inhs
  <2> HIDE DEF u
  <2> QED
    BY <1>0, <2>2, <2>3, <2>4 DEF Inh!SuspendOnLidClose, Honest
<1>6. CASE Inh!SuspendActions \/ Inh!ResumeActions
  <2> DEFINE u == IF env.sleeping' THEN Inh!Uninhibit(inh.suspend) ELSE Inh!Inhibit(inh.suspend)
  <2>1. /\ inh' = [inh EXCEPT !.suspend = u]
        /\ env.sleeping' \in BOOLEAN /\ pm.session_is_active' = pm.session_is_active
    BY <1>6 DEF Inh!SuspendActions, Inh!ResumeActions
  <2>2. u \in Inh!Slot /\ Honest(u) /\ (~env.sleeping' => u.refused \/ u.fd \/ u.pending)
    BY <1>0, SlotOps
  <2> HIDE DEF u
  <2>3. /\ inh' \in Inh!Inhs /\ inh'.lid = inh.lid /\ inh'.suspend = u
        /\ inh'.external = inh.external /\ inh'.prompt = inh.prompt
        /\ inh'.timer = inh.timer
    BY <1>0, <2>1, <2>2 DEF Inh!Inhs
  <2> QED
    BY <1>0, <2>1, <2>2, <2>3 DEF Inh!SuspendOnLidClose, Honest
<1>7. CASE UNCHANGED Inh!ivars
  BY <1>0, <1>7 DEF Inh!ivars, Inh!SuspendOnLidClose, Honest
<1> QED
  BY <1>1, <1>2, <1>3, <1>4, <1>5, <1>6, <1>7 DEF Inh!InhNext

-------------------------------------------------------------------------------
(* What the idle machine leaves alone.  It shares four fields with the other *)
(* parts of the daemon; every helper of it keeps them.                      *)

Keeps(s, t) ==
  /\ t \in State
  /\ t.p.session_is_active = s.p.session_is_active /\ t.p.battery_is_low = s.p.battery_is_low
  /\ t.e.sleeping = s.e.sleeping /\ t.e.ppd_running = s.e.ppd_running

LEMMA KeptIsState == ASSUME NEW s, NEW t, Keeps(s, t) PROVE t \in State
BY DEF Keeps

LEMMA FieldsKeep ==
  ASSUME NEW s \in State, NEW b \in BOOLEAN, NEW mode \in IdleModes
  PROVE  /\ Keeps(s, [s EXCEPT !.p.current_idle_mode = mode])
         /\ Keeps(s, [s EXCEPT !.p.previous_idle_mode = mode])
         /\ Keeps(s, [s EXCEPT !.p.temporary_unidle = b])
         /\ Keeps(s, [s EXCEPT !.p.user_active_id = b])
         /\ Keeps(s, [s EXCEPT !.p.notification = b])
         /\ Keeps(s, [s EXCEPT !.p.screensaver_active = b])
         /\ Keeps(s, [s EXCEPT !.p.lid_is_closed = b])
         /\ Keeps(s, [s EXCEPT !.p.power_saver_enabled = b])
<1>1. ASSUME NEW t \in State, t.e = s.e, t.p.session_is_active = s.p.session_is_active,
             t.p.battery_is_low = s.p.battery_is_low
      PROVE  Keeps(s, t)
  BY <1>1 DEF Keeps
<1>2. Keeps(s, [s EXCEPT !.p.current_idle_mode = mode])
  <2> DEFINE t == [s EXCEPT !.p.current_idle_mode = mode]
  <2>1. t \in State
    BY FieldsType
  <2>2. t.e = s.e /\ t.p.session_is_active = s.p.session_is_active
        /\ t.p.battery_is_low = s.p.battery_is_low
    BY DEF State, Managers
  <2> HIDE DEF t
  <2>3. Keeps(s, t)
    BY <1>1, <2>1, <2>2
  <2> QED
    BY <2>3 DEF t
<1>3. Keeps(s, [s EXCEPT !.p.previous_idle_mode = mode])
  <2> DEFINE t == [s EXCEPT !.p.previous_idle_mode = mode]
  <2>1. t \in State
    BY FieldsType
  <2>2. t.e = s.e /\ t.p.session_is_active = s.p.session_is_active
        /\ t.p.battery_is_low = s.p.battery_is_low
    BY DEF State, Managers
  <2> HIDE DEF t
  <2>3. Keeps(s, t)
    BY <1>1, <2>1, <2>2
  <2> QED
    BY <2>3 DEF t
<1>4. Keeps(s, [s EXCEPT !.p.temporary_unidle = b])
  <2> DEFINE t == [s EXCEPT !.p.temporary_unidle = b]
  <2>1. t \in State
    BY FieldsType
  <2>2. t.e = s.e /\ t.p.session_is_active = s.p.session_is_active
        /\ t.p.battery_is_low = s.p.battery_is_low
    BY DEF State, Managers
  <2> HIDE DEF t
  <2>3. Keeps(s, t)
    BY <1>1, <2>1, <2>2
  <2> QED
    BY <2>3 DEF t
<1>5. Keeps(s, [s EXCEPT !.p.user_active_id = b])
  <2> DEFINE t == [s EXCEPT !.p.user_active_id = b]
  <2>1. t \in State
    BY FieldsType
  <2>2. t.e = s.e /\ t.p.session_is_active = s.p.session_is_active
        /\ t.p.battery_is_low = s.p.battery_is_low
    BY DEF State, Managers
  <2> HIDE DEF t
  <2>3. Keeps(s, t)
    BY <1>1, <2>1, <2>2
  <2> QED
    BY <2>3 DEF t
<1>6. Keeps(s, [s EXCEPT !.p.notification = b])
  <2> DEFINE t == [s EXCEPT !.p.notification = b]
  <2>1. t \in State
    BY FieldsType
  <2>2. t.e = s.e /\ t.p.session_is_active = s.p.session_is_active
        /\ t.p.battery_is_low = s.p.battery_is_low
    BY DEF State, Managers
  <2> HIDE DEF t
  <2>3. Keeps(s, t)
    BY <1>1, <2>1, <2>2
  <2> QED
    BY <2>3 DEF t
<1>7. Keeps(s, [s EXCEPT !.p.screensaver_active = b])
  <2> DEFINE t == [s EXCEPT !.p.screensaver_active = b]
  <2>1. t \in State
    BY FieldsType
  <2>2. t.e = s.e /\ t.p.session_is_active = s.p.session_is_active
        /\ t.p.battery_is_low = s.p.battery_is_low
    BY DEF State, Managers
  <2> HIDE DEF t
  <2>3. Keeps(s, t)
    BY <1>1, <2>1, <2>2
  <2> QED
    BY <2>3 DEF t
<1>8. Keeps(s, [s EXCEPT !.p.lid_is_closed = b])
  <2> DEFINE t == [s EXCEPT !.p.lid_is_closed = b]
  <2>1. t \in State
    BY FieldsType
  <2>2. t.e = s.e /\ t.p.session_is_active = s.p.session_is_active
        /\ t.p.battery_is_low = s.p.battery_is_low
    BY DEF State, Managers
  <2> HIDE DEF t
  <2>3. Keeps(s, t)
    BY <1>1, <2>1, <2>2
  <2> QED
    BY <2>3 DEF t
<1>9. Keeps(s, [s EXCEPT !.p.power_saver_enabled = b])
  <2> DEFINE t == [s EXCEPT !.p.power_saver_enabled = b]
  <2>1. t \in State
    BY FieldsType
  <2>2. t.e = s.e /\ t.p.session_is_active = s.p.session_is_active
        /\ t.p.battery_is_low = s.p.battery_is_low
    BY DEF State, Managers
  <2> HIDE DEF t
  <2>3. Keeps(s, t)
    BY <1>1, <2>1, <2>2
  <2> QED
    BY <2>3 DEF t
<1> QED
  BY <1>2, <1>3, <1>4, <1>5, <1>6, <1>7, <1>8, <1>9

LEMMA LightKeeps ==
  ASSUME NEW s \in State
  PROVE  /\ Keeps(s, MaybeClaimLight(s)) /\ Keeps(s, EnableMonitors(s))
         /\ Keeps(s, DisableMonitors(s)) /\ Keeps(s, DoPowerAction(s))
<1>1. ASSUME NEW t \in State
      PROVE  Keeps(t, MaybeClaimLight(t))
  <2>1. MaybeClaimLight(t) \in State
    BY LightType
  <2> QED
    BY <2>1 DEF Keeps, MaybeClaimLight, State, Managers, Environments
<1>2. ASSUME NEW b \in BOOLEAN
      PROVE  Keeps(s, MaybeClaimLight([s EXCEPT !.p.screen_blanked = b]))
  <2> DEFINE t == [s EXCEPT !.p.screen_blanked = b]
  <2>1. t \in State /\ t.e = s.e /\ t.p.session_is_active = s.p.session_is_active
        /\ t.p.battery_is_low = s.p.battery_is_low
    BY DEF State, Managers
  <2> HIDE DEF t
  <2>2. Keeps(s, MaybeClaimLight(t))
    BY <1>1, <2>1 DEF Keeps
  <2> QED
    BY <2>2 DEF t
<1>3. Keeps(s, s)
  BY DEF Keeps
<1> QED
  BY <1>1, <1>2, <1>3 DEF EnableMonitors, DisableMonitors, DoPowerAction

LEMMA EnterModeKeeps ==
  ASSUME NEW s \in State, NEW mode \in IdleModes, NEW r \in KbdReplies
  PROVE  Keeps(s, EnterMode(s, mode, r))
<1>1. EnterMode(s, mode, r) \in State
  BY EnterModeType
<1>2. /\ Keeps(s, EnableMonitors(s)) /\ Keeps(s, DisableMonitors(s))
      /\ Keeps(s, DoPowerAction(s))
  BY LightKeeps
<1>3. ASSUME NEW t, Keeps(s, t), NEW k, NEW d, NEW u \in State,
             \/ u = [t EXCEPT !.p.kbd = k]
             \/ u = [t EXCEPT !.p.kbd = k, !.e.dimming = d]
             \/ u = [t EXCEPT !.e.dimming = d, !.p.kbd = k]
      PROVE  Keeps(s, u)
  <2>1. t \in State /\ t.p \in Managers /\ t.e \in Environments
    BY <1>3 DEF Keeps, State
  <2>2. u.p = [t.p EXCEPT !.kbd = k] /\ u.e \in {t.e, [t.e EXCEPT !.dimming = d]}
    BY <1>3, <2>1 DEF State
  <2>3. u.p.session_is_active = t.p.session_is_active /\ u.p.battery_is_low = t.p.battery_is_low
    BY <2>1, <2>2 DEF Managers
  <2>4. u.e.sleeping = t.e.sleeping /\ u.e.ppd_running = t.e.ppd_running
    BY <2>1, <2>2 DEF Environments
  <2> QED
    BY <1>3, <2>3, <2>4 DEF Keeps
<1>4. CASE mode = DIM
  <2>1. EnterMode(s, mode, r) = [s EXCEPT !.p.kbd = KbdDim(s.p.kbd, r.set), !.e.dimming = TRUE]
    BY <1>4 DEF EnterMode, DIM, BLANK, SLEEP, NORMAL
  <2>2. Keeps(s, s)
    BY DEF Keeps
  <2> QED
    BY <1>1, <1>3, <2>1, <2>2
<1>5. CASE mode = BLANK
  <2> DEFINE t == DisableMonitors(s)
  <2>1. EnterMode(s, mode, r) = [t EXCEPT !.p.kbd = KbdBlank(t.p.kbd, r.toggle)]
    BY <1>5 DEF EnterMode, DIM, BLANK, SLEEP, NORMAL
  <2> HIDE DEF t
  <2> QED
    BY <1>1, <1>2, <1>3, <2>1 DEF t
<1>6. CASE mode = SLEEP
  BY <1>1, <1>2, <1>6 DEF EnterMode, DIM, BLANK, SLEEP, NORMAL
<1>7. CASE mode = NORMAL
  <2> DEFINE t == EnableMonitors(s)
  <2>1. EnterMode(s, mode, r)
          = [t EXCEPT !.e.dimming = FALSE, !.p.kbd = KbdWake(t.p.kbd, r.toggle, r.set)]
    BY <1>7 DEF EnterMode, DIM, BLANK, SLEEP, NORMAL
  <2> HIDE DEF t
  <2> QED
    BY <1>1, <1>2, <1>3, <2>1 DEF t
<1> QED
  BY <1>4, <1>5, <1>6, <1>7 DEF IdleModes, NORMAL, DIM, BLANK, SLEEP

LEMMA IdleSetModeKeeps ==
  ASSUME NEW s \in State, NEW mode \in IdleModes, NEW r \in KbdReplies
  PROVE  Keeps(s, IdleSetMode(s, mode, r))
<1> DEFINE watched == [s EXCEPT !.p.user_active_id = @ \/ mode # NORMAL]
<1>1. Keeps(s, watched)
  <2> DEFINE b == s.p.user_active_id \/ mode # NORMAL
  <2>1. b \in BOOLEAN
    OBVIOUS
  <2> HIDE DEF b
  <2>2. Keeps(s, [s EXCEPT !.p.user_active_id = b])
    BY <2>1, FieldsKeep
  <2> QED
    BY <2>2 DEF b
<1> HIDE DEF watched
<1>2. Keeps(watched, EnterMode(watched, mode, r))
  BY <1>1, EnterModeKeeps DEF Keeps
<1> DEFINE n == EnterMode(watched, mode, r)
<1>3. Keeps(n, [n EXCEPT !.p.current_idle_mode = mode])
  BY <1>2, FieldsKeep DEF Keeps
<1> HIDE DEF n
<1>4. Keeps(s, [n EXCEPT !.p.current_idle_mode = mode]) /\ Keeps(s, s)
  BY <1>1, <1>2, <1>3 DEF Keeps, n
<1> QED
  BY <1>1, <1>4 DEF IdleSetMode, watched, n

LEMMA UnidleKeeps ==
  ASSUME NEW s \in State, NEW b \in BOOLEAN, NEW mode \in IdleModes, NEW r \in KbdReplies
  PROVE  /\ Keeps(s, IdleSetModeNoTemp(s, mode, r))
         /\ Keeps(s, SetTemporaryUnidle(s, b, r))
         /\ Keeps(s, UpdateTemporaryUnidle(s, r))
<1>1. NORMAL \in IdleModes /\ s.p.current_idle_mode \in IdleModes
  BY DEF NORMAL, SLEEP, IdleModes, State, Managers
<1>2. Keeps(s, IdleSetModeNoTemp(s, mode, r))
  BY IdleSetModeKeeps, FieldsKeep DEF IdleSetModeNoTemp
<1>3. ASSUME NEW x \in BOOLEAN
      PROVE  Keeps(s, SetTemporaryUnidle(s, x, r))
  <2> DEFINE q == [s EXCEPT !.p.previous_idle_mode = s.p.current_idle_mode]
             n == IdleSetMode(q, NORMAL, r)
  <2>1. Keeps(s, q)
    BY <1>1, FieldsKeep
  <2> HIDE DEF q
  <2>2. Keeps(q, n)
    BY <1>1, <2>1, IdleSetModeKeeps DEF Keeps
  <2> HIDE DEF n
  <2>3. Keeps(n, [n EXCEPT !.p.temporary_unidle = TRUE])
    BY <1>1, <2>2, FieldsKeep DEF Keeps
  <2>4. Keeps(s, [n EXCEPT !.p.temporary_unidle = TRUE]) /\ Keeps(s, s)
    BY <2>1, <2>2, <2>3 DEF Keeps
  <2>5. Keeps(s, [s EXCEPT !.p.temporary_unidle = FALSE])
    BY <1>1, FieldsKeep
  <2> QED
    BY <2>4, <2>5 DEF SetTemporaryUnidle, q, n
<1>4. ShouldSetTemporaryUnidle(s.p) \in BOOLEAN
  BY DEF ShouldSetTemporaryUnidle
<1> QED
  BY <1>2, <1>3, <1>4 DEF UpdateTemporaryUnidle

LEMMA SetWatchKeeps ==
  ASSUME NEW s \in State, NEW w \in Watches, NEW b \in BOOLEAN, NEW n \in Nat
  PROVE  Keeps(s, SetWatch(s, w, b, n))
<1>1. SetWatch(s, w, b, n) \in State
  BY SetWatchType
<1>2. ASSUME NEW x, NEW y, NEW t \in State, t = [s EXCEPT !.p.watch[w] = x, !.p.after[w] = y]
      PROVE  Keeps(s, t)
  BY <1>2 DEF Keeps, State, Managers
<1> QED
  BY <1>1, <1>2 DEF SetWatch

LEMMA ConfigureKeeps ==
  ASSUME NEW s \in State, NEW r \in KbdReplies
  PROVE  Keeps(s, IdleConfigure(s, r))
<1>1. {"dim", "blank", "sleep", "warning"} \subseteq Watches /\ NORMAL \in IdleModes
  BY DEF Watches, IdleModes, NORMAL, SLEEP
<1>2. ASSUME NEW t \in State
      PROVE  Keeps(t, StandDown(t, r))
  <2> DEFINE n == IdleSetMode(t, NORMAL, r)
             c == SetWatch(n, "sleep", FALSE, 0)
             d == SetWatch(c, "dim", FALSE, 0)
             f == SetWatch(d, "warning", FALSE, 0)
             g == [f EXCEPT !.p.notification = FALSE]
  <2>1. Keeps(t, n)
    BY <1>1, IdleSetModeKeeps
  <2> HIDE DEF n
  <2>2. Keeps(n, c)
    BY <1>1, <2>1, SetWatchKeeps, KeptIsState
  <2> HIDE DEF c
  <2>3. Keeps(c, d)
    BY <1>1, <2>2, SetWatchKeeps, KeptIsState
  <2> HIDE DEF d
  <2>4. Keeps(d, f)
    BY <1>1, <2>3, SetWatchKeeps, KeptIsState
  <2> HIDE DEF f
  <2>5. Keeps(f, g)
    BY <1>1, <2>4, FieldsKeep, KeptIsState
  <2> HIDE DEF g
  <2>6. Keeps(g, SetTemporaryUnidle(g, FALSE, r))
    BY <1>1, <2>5, UnidleKeeps, KeptIsState
  <2>7. StandDown(t, r) = SetTemporaryUnidle(g, FALSE, r)
    BY DEF StandDown, g, f, d, c, n
  <2> QED
    BY <2>1, <2>2, <2>3, <2>4, <2>5, <2>6, <2>7 DEF Keeps
<1>3. ASSUME NEW t \in State
      PROVE  Keeps(t, ConfigureSleep(t))
  <2> DEFINE action  == SleepType(t.e)
             timeout == SleepTimeout(t.e)
             told    == timeout # 0 /\ action \in {"logout", "suspend", "hibernate"}
             wanted  == timeout # 0 /\ action # "nothing"
             sleep   == SetWatch(t, "sleep", wanted, Msec(timeout))
             warned  == SetWatch(sleep, "warning", told, WarningMsec(timeout))
  <2>1. action \in ActionTypes /\ timeout \in Nat /\ told \in BOOLEAN /\ wanted \in BOOLEAN
    BY ReadersType DEF State
  <2>2. Msec(timeout) \in Nat /\ WarningMsec(timeout) \in Nat
    BY <2>1, MsecType
  <2>3. ConfigureSleep(t) = [warned EXCEPT !.p.sleep_action_type = IF told THEN action ELSE @,
                                           !.p.notification = @ /\ told]
    BY DEF ConfigureSleep
  <2> HIDE DEF action, timeout, told, wanted
  <2>4. Keeps(t, sleep)
    BY <1>1, <2>1, <2>2, SetWatchKeeps
  <2> HIDE DEF sleep
  <2>5. Keeps(sleep, warned)
    BY <1>1, <2>1, <2>2, <2>4, SetWatchKeeps, KeptIsState
  <2> HIDE DEF warned
  <2>6. ASSUME NEW x, NEW y, NEW u \in State,
               u = [warned EXCEPT !.p.sleep_action_type = x, !.p.notification = y]
        PROVE  Keeps(t, u)
    <3>1. warned \in State /\ warned.p \in Managers
      BY <2>5, KeptIsState DEF State
    <3>2. u.p = [warned.p EXCEPT !.sleep_action_type = x, !.notification = y] /\ u.e = warned.e
      BY <2>6, <3>1 DEF State
    <3>3. /\ u.p.session_is_active = warned.p.session_is_active
          /\ u.p.battery_is_low = warned.p.battery_is_low
      BY <3>1, <3>2 DEF Managers
    <3>4. Keeps(warned, u)
      BY <2>6, <3>2, <3>3 DEF Keeps
    <3> QED
      BY <2>4, <2>5, <3>4 DEF Keeps
  <2>7. ConfigureSleep(t) \in State
    BY ConfigureType
  <2> QED
    BY <2>3, <2>6, <2>7
<1>4. ASSUME NEW t \in State
      PROVE  Keeps(t, ConfigureDim(t))
  <2>1. DimTimeout(t.p, t.e) \in Nat
    BY ReadersType DEF State
  <2>2. Msec(DimTimeout(t.p, t.e)) \in Nat /\ (DimTimeout(t.p, t.e) # 0) \in BOOLEAN
    BY <2>1, MsecType
  <2> QED
    BY <1>1, <2>2, SetWatchKeeps DEF ConfigureDim
<1> DEFINE b == SetWatch(s, "blank", s.p.screensaver_active, Msec(SCREENSAVER_TIMEOUT_BLANK))
<1>5. s.p.screensaver_active \in BOOLEAN /\ SCREENSAVER_TIMEOUT_BLANK \in Nat
  BY DEF State, Managers, SCREENSAVER_TIMEOUT_BLANK
<1>6. Keeps(s, b)
  BY <1>1, <1>5, MsecType, SetWatchKeeps
<1> HIDE DEF b
<1>7. Keeps(b, StandDown(b, r)) /\ Keeps(b, ConfigureSleep(b))
  BY <1>2, <1>3, <1>6 DEF Keeps
<1>8. Keeps(ConfigureSleep(b), ConfigureDim(ConfigureSleep(b)))
  BY <1>4, <1>7 DEF Keeps
<1> QED
  BY <1>6, <1>7, <1>8 DEF Keeps, IdleConfigure, b

\* What a handler that commits such a state leaves alone.
SessionKept == pm'.session_is_active = pm.session_is_active /\ env'.sleeping = env.sleeping
BatteryKept == pm'.battery_is_low = pm.battery_is_low /\ env'.ppd_running = env.ppd_running
SharedKept  == SessionKept /\ BatteryKept

LEMMA Commits ==
  ASSUME TypeOK
  PROVE  /\ Here \in State /\ Here.p = pm /\ Here.e = env
         /\ \A s, t : Keeps(Here, s) /\ Keeps(s, t) /\ Step(t) => SharedKept
         /\ \A s : Keeps(Here, s) /\ Step(s) => SharedKept
<1>1. Here \in State /\ Here.p = pm /\ Here.e = env
  BY HereType
<1> QED
  BY <1>1 DEF Keeps, Step, SharedKept, SessionKept, BatteryKept

\* The triggers of the idle machine, and the user.
LEMMA TriggersKeep ==
  ASSUME TypeOK,
         \/ SystemNext \/ UserActivity \/ WakeUpScreen \/ LidChanged \/ NotificationDismissed
  PROVE  SharedKept
<1>0. /\ Here \in State /\ Here.p = pm /\ Here.e = env
      /\ NORMAL \in IdleModes /\ DIM \in IdleModes /\ BLANK \in IdleModes /\ SLEEP \in IdleModes
  BY Commits DEF IdleModes, NORMAL, DIM, BLANK, SLEEP
<1> USE RepliesType
<1>1. ASSUME NEW w \in Watches, WatchFires(w)
      PROVE  SharedKept
  <2> DEFINE f == [Here EXCEPT !.p.watch[w] = "fired"]
             n == [f EXCEPT !.p.notification = ShowSleepWarnings, !.p.user_active_id = TRUE]
  <2>1. f \in State
    BY <1>0 DEF State, Managers, WatchStates
  <2>2. /\ f.e = Here.e /\ f.p.session_is_active = Here.p.session_is_active
        /\ f.p.battery_is_low = Here.p.battery_is_low
    BY <1>0 DEF State, Managers
  <2>3. Keeps(Here, f)
    BY <2>1, <2>2 DEF Keeps
  <2>4. /\ n.e = f.e /\ n.p.session_is_active = f.p.session_is_active
        /\ n.p.battery_is_low = f.p.battery_is_low
    BY <2>1 DEF State, Managers
  <2>5. PICK r \in Replies :
          Step(CASE w = "dim"     -> IdleSetModeNoTemp(f, DIM, r)
                 [] w = "blank"   -> IdleSetModeNoTemp(f, BLANK, r)
                 [] w = "sleep"   -> IdleSetModeNoTemp(f, SLEEP, r)
                 [] w = "warning" -> n)
    BY <1>1 DEF WatchFires
  <2> HIDE DEF f, n
  <2>6. ASSUME NEW mode \in IdleModes, Step(IdleSetModeNoTemp(f, mode, r))
        PROVE  SharedKept
    <3>1. Keeps(f, IdleSetModeNoTemp(f, mode, r))
      BY <2>1, UnidleKeeps
    <3> QED
      BY <2>3, <2>6, <3>1, Commits
  <2>7. ASSUME Step(n)
        PROVE  SharedKept
    BY <1>0, <2>2, <2>4, <2>7 DEF Step, SharedKept, SessionKept, BatteryKept
  <2> QED
    BY <1>0, <2>5, <2>6, <2>7 DEF Watches
<1>2. CASE IdleBecameActive
  <2> DEFINE h == [Here EXCEPT !.e.activity = FALSE]
  <2>1. Keeps(Here, h)
    <3>1. /\ h \in State /\ h.p = Here.p /\ h.e.sleeping = Here.e.sleeping
          /\ h.e.ppd_running = Here.e.ppd_running
      BY <1>0 DEF State, Environments
    <3> QED
      BY <3>1 DEF Keeps
  <2>2. PICK r \in Replies :
          LET t == SetTemporaryUnidle(h, FALSE, r)
              n == IdleSetMode([t EXCEPT !.p.notification = FALSE], NORMAL, r)
          IN  Step([n EXCEPT !.p.user_active_id = FALSE])
    BY <1>2 DEF IdleBecameActive
  <2> HIDE DEF h
  <2> DEFINE t == SetTemporaryUnidle(h, FALSE, r)
             q == [t EXCEPT !.p.notification = FALSE]
             n == IdleSetMode(q, NORMAL, r)
             u == [n EXCEPT !.p.user_active_id = FALSE]
  <2>3. Step(u)
    BY <2>2
  <2>4. Keeps(h, t)
    BY <1>0, <2>1, UnidleKeeps DEF Keeps
  <2> HIDE DEF t
  <2>5. Keeps(t, q)
    BY <1>0, <2>4, FieldsKeep DEF Keeps
  <2> HIDE DEF q
  <2>6. Keeps(q, n)
    BY <1>0, <2>5, IdleSetModeKeeps DEF Keeps
  <2> HIDE DEF n
  <2>7. Keeps(n, u)
    BY <1>0, <2>6, FieldsKeep DEF Keeps
  <2> HIDE DEF u
  <2>8. Keeps(Here, u)
    BY <2>1, <2>4, <2>5, <2>6, <2>7 DEF Keeps
  <2> QED
    BY <2>3, <2>8, Commits
<1>3. CASE TemporaryUnidleDone
  <2>1. PICK r \in Replies :
          Step([IdleSetMode(Here, pm.previous_idle_mode, r) EXCEPT !.p.temporary_unidle = FALSE])
    BY <1>3 DEF TemporaryUnidleDone
  <2> DEFINE n == IdleSetMode(Here, pm.previous_idle_mode, r)
  <2>2. Keeps(Here, n)
    <3>1. pm.previous_idle_mode \in IdleModes
      BY DEF TypeOK, Managers
    <3> QED
      BY <1>0, <3>1, IdleSetModeKeeps
  <2> HIDE DEF n
  <2>3. Keeps(n, [n EXCEPT !.p.temporary_unidle = FALSE])
    BY <1>0, <2>2, FieldsKeep DEF Keeps
  <2> QED
    BY <2>1, <2>2, <2>3, Commits DEF n
<1>4. CASE UserActivity
  <2>1. PICK f, b : Step([Here EXCEPT !.p.watch = f, !.e.activity = b])
    BY <1>4 DEF UserActivity
  <2> DEFINE u == [Here EXCEPT !.p.watch = f, !.e.activity = b]
  <2>2. /\ u.p.session_is_active = Here.p.session_is_active
        /\ u.p.battery_is_low = Here.p.battery_is_low
    BY <1>0 DEF State, Managers
  <2>3. u.e.sleeping = Here.e.sleeping /\ u.e.ppd_running = Here.e.ppd_running
    BY <1>0 DEF State, Environments
  <2> HIDE DEF u
  <2> QED
    BY <1>0, <2>1, <2>2, <2>3 DEF Step, SharedKept, SessionKept, BatteryKept, u
<1>5. CASE WakeUpScreen
  <2>1. PICK r \in Replies : Step(UpdateTemporaryUnidle(Here, r))
    BY <1>5 DEF WakeUpScreen
  <2>2. Keeps(Here, UpdateTemporaryUnidle(Here, r))
    BY <1>0, UnidleKeeps
  <2> QED
    BY <2>1, <2>2, Commits
<1>6. CASE LidChanged
  <2>1. Step([Here EXCEPT !.p.lid_is_closed = ~pm.lid_is_closed])
    BY <1>0, <1>6 DEF LidChanged
  <2>2. Keeps(Here, [Here EXCEPT !.p.lid_is_closed = ~pm.lid_is_closed])
    BY <1>0, FieldsKeep
  <2> QED
    BY <2>1, <2>2, Commits
<1>7. CASE NotificationDismissed
  <2>1. Keeps(Here, [Here EXCEPT !.p.notification = FALSE])
    BY <1>0, FieldsKeep
  <2> QED
    BY <1>7, <2>1, Commits DEF NotificationDismissed
<1> QED
  BY <1>1, <1>2, <1>3, <1>4, <1>5, <1>6, <1>7 DEF SystemNext

\* What makes the daemon configure its watches anew.
LEMMA ChangesKeep ==
  ASSUME TypeOK,
         ScreensaverActiveChanged \/ OnBatteryChanged \/ SettingChanged
  PROVE  SharedKept
<1>0. /\ Here \in State /\ Here.p = pm /\ Here.e = env
      /\ NORMAL \in IdleModes /\ BLANK \in IdleModes
  BY Commits DEF IdleModes, NORMAL, BLANK, SLEEP
<1> USE RepliesType
<1>a. ASSUME NEW h, Keeps(Here, h), NEW r \in Replies
      PROVE  /\ Keeps(Here, IdleConfigure(h, r)) /\ Keeps(h, IdleConfigure(h, r))
             /\ Keeps(Here, MaybeClaimLight(h))
  BY <1>a, ConfigureKeeps, LightKeeps DEF Keeps
<1>1. CASE ScreensaverActiveChanged
  <2> DEFINE h == [Here EXCEPT !.p.screensaver_active = ~pm.screensaver_active]
  <2>1. Keeps(Here, h)
    BY <1>0, FieldsKeep
  <2>2. PICK r \in Replies :
          Step(IF ~pm.screensaver_active THEN IdleSetMode(IdleConfigure(h, r), BLANK, r)
               ELSE IdleConfigure(h, r))
    BY <1>1 DEF ScreensaverActiveChanged
  <2> HIDE DEF h
  <2>3. Keeps(Here, IdleConfigure(h, r))
    BY <1>a, <2>1
  <2>4. Keeps(IdleConfigure(h, r), IdleSetMode(IdleConfigure(h, r), BLANK, r))
    BY <1>0, <2>3, IdleSetModeKeeps DEF Keeps
  <2> QED
    BY <2>2, <2>3, <2>4, Commits
<1>2. CASE OnBatteryChanged
  <2>1. PICK r \in Replies, source \in Sources :
          Step(UpdateTemporaryUnidle(IdleConfigure([Here EXCEPT !.e.source = source], r), r))
    BY <1>2 DEF OnBatteryChanged
  <2> DEFINE h == [Here EXCEPT !.e.source = source]
  <2>2. /\ h \in State /\ h.p = Here.p /\ h.e.sleeping = Here.e.sleeping
        /\ h.e.ppd_running = Here.e.ppd_running
    BY <1>0 DEF State, Environments
  <2>3. Keeps(Here, h)
    BY <2>2 DEF Keeps
  <2> HIDE DEF h
  <2>4. Keeps(Here, IdleConfigure(h, r))
    BY <1>a, <2>3
  <2>5. Keeps(IdleConfigure(h, r), UpdateTemporaryUnidle(IdleConfigure(h, r), r))
    BY <1>0, <2>4, UnidleKeeps DEF Keeps
  <2> QED
    BY <2>1, <2>4, <2>5, Commits DEF h
<1>3. CASE SettingChanged
  <2>1. PICK settings \in Settings, r \in Replies :
          LET s == [Here EXCEPT !.e.settings = settings]
          IN  Step(IF SameIdleKeys(settings, env.settings)
                   THEN MaybeClaimLight(s) ELSE IdleConfigure(s, r))
    BY <1>3 DEF SettingChanged
  <2> DEFINE s == [Here EXCEPT !.e.settings = settings]
  <2>2. /\ s \in State /\ s.p = Here.p /\ s.e.sleeping = Here.e.sleeping
        /\ s.e.ppd_running = Here.e.ppd_running
    BY <1>0 DEF State, Environments
  <2>3. Keeps(Here, s)
    BY <2>2 DEF Keeps
  <2>4. Step(IF SameIdleKeys(settings, env.settings)
             THEN MaybeClaimLight(s) ELSE IdleConfigure(s, r))
    BY <2>1
  <2> HIDE DEF s
  <2>5. Keeps(Here, MaybeClaimLight(s)) /\ Keeps(Here, IdleConfigure(s, r))
    BY <1>a, <2>3
  <2> QED
    BY <2>4, <2>5, Commits
<1> QED
  BY <1>1, <1>2, <1>3

\* The battery and the profile daemon are shared, but not with the inhibitors.
LEMMA BatteryKeepsSession ==
  ASSUME TypeOK, BatteryLowChanged \/ PowerProfileShown \/ PowerProfilesVanished
  PROVE  SessionKept
<1>0. Here \in State /\ Here.p = pm /\ Here.e = env /\ NORMAL \in IdleModes
  BY Commits DEF IdleModes, NORMAL, SLEEP
<1> USE RepliesType
<1>a. ASSUME NEW h \in State, h.p.session_is_active = pm.session_is_active,
             h.e.sleeping = env.sleeping, NEW r \in Replies
      PROVE  Step(IdleConfigure(h, r)) \/ Step(h) => SessionKept
  BY <1>a, ConfigureKeeps DEF Keeps, Step, SessionKept
<1>1. CASE BatteryLowChanged
  <2> DEFINE h == [Here EXCEPT !.p.battery_is_low = ~pm.battery_is_low]
  <2>1. h \in State /\ h.p.session_is_active = pm.session_is_active /\ h.e = env
    BY <1>0 DEF State, Managers
  <2>2. PICK r \in Replies : Step(IdleConfigure(h, r))
    BY <1>0, <1>1 DEF BatteryLowChanged
  <2> HIDE DEF h
  <2> QED
    BY <1>a, <2>1, <2>2
<1>2. CASE PowerProfileShown
  <2> DEFINE s == [Here EXCEPT !.e.ppd_running = TRUE]
  <2>1. s \in State /\ s.p = Here.p /\ s.e.sleeping = Here.e.sleeping
    BY <1>0 DEF State, Environments
  <2>2. PICK saver \in BOOLEAN, r \in Replies :
          Step(IF saver = pm.power_saver_enabled
               THEN s
               ELSE IdleConfigure([s EXCEPT !.p.power_saver_enabled = saver], r))
    BY <1>2 DEF PowerProfileShown
  <2> HIDE DEF s
  <2> DEFINE h == [s EXCEPT !.p.power_saver_enabled = saver]
  <2>3. Keeps(s, h)
    BY <1>0, <2>1, FieldsKeep
  <2>4. Step(IF saver = pm.power_saver_enabled THEN s ELSE IdleConfigure(h, r))
    BY <2>2
  <2> HIDE DEF h
  <2>5. h \in State /\ h.p.session_is_active = pm.session_is_active /\ h.e.sleeping = env.sleeping
    BY <1>0, <2>1, <2>3 DEF Keeps
  <2> QED
    BY <1>0, <1>a, <2>1, <2>4, <2>5
<1>3. CASE PowerProfilesVanished
  <2> DEFINE h == [Here EXCEPT !.e.ppd_running = FALSE]
  <2>1. h \in State /\ h.p = Here.p /\ h.e.sleeping = Here.e.sleeping
    BY <1>0 DEF State, Environments
  <2>2. PICK r \in Replies : Step(IdleConfigure(h, r))
    BY <1>3 DEF PowerProfilesVanished
  <2> HIDE DEF h
  <2> QED
    BY <1>0, <1>a, <2>1, <2>2
<1> QED
  BY <1>1, <1>2, <1>3

\* And the suspend is not shared with the battery's parts.
LEMMA SuspendKeepsBattery ==
  ASSUME TypeOK, PrepareForSleep \/ ResumeFromSleep
  PROVE  BatteryKept
<1>0. Here \in State /\ Here.p = pm /\ Here.e = env
  BY Commits
<1>a. ASSUME NEW h \in State, h.p.battery_is_low = pm.battery_is_low,
             h.e.ppd_running = env.ppd_running
      PROVE  Step(DisableMonitors(h)) \/ Step(EnableMonitors(h)) => BatteryKept
  BY <1>a, LightKeeps DEF Keeps, Step, BatteryKept
<1>1. CASE PrepareForSleep
  <2> DEFINE h == [Here EXCEPT !.e.sleeping = TRUE, !.p.notification = FALSE]
  <2>1. h \in State /\ h.p.battery_is_low = pm.battery_is_low /\ h.e.ppd_running = env.ppd_running
    BY <1>0 DEF State, Managers, Environments
  <2>2. Step(DisableMonitors(h))
    BY <1>1 DEF PrepareForSleep
  <2> HIDE DEF h
  <2> QED
    BY <1>a, <2>1, <2>2
<1>2. CASE ResumeFromSleep
  <2> DEFINE h == [Here EXCEPT !.e.sleeping = FALSE]
  <2>1. h \in State /\ h.p = pm /\ h.e.ppd_running = env.ppd_running
    BY <1>0 DEF State, Environments
  <2>2. Step(EnableMonitors(h))
    BY <1>2 DEF ResumeFromSleep
  <2> HIDE DEF h
  <2> QED
    BY <1>a, <2>1, <2>2
<1> QED
  BY <1>1, <1>2

\* The light sensor and the keyboard light.
LEMMA DevicesKeep ==
  ASSUME TypeOK,
         \/ IioProxyAppeared \/ IioProxyVanished \/ BrightnessControlChanges
         \/ KbdStep \/ KbdToggleCall \/ KbdSetBrightness \/ KbdBrightnessChanged
  PROVE  SharedKept
<1>0. Here \in State /\ Here.p = pm /\ Here.e = env
  BY Commits
<1>1. ASSUME NEW k, Step([Here EXCEPT !.p.kbd = k])
      PROVE  SharedKept
  <2> DEFINE u == [Here EXCEPT !.p.kbd = k]
  <2>1. /\ u.e = Here.e /\ u.p.session_is_active = Here.p.session_is_active
        /\ u.p.battery_is_low = Here.p.battery_is_low
    BY <1>0 DEF State, Managers
  <2> QED
    BY <1>0, <1>1, <2>1 DEF Step, SharedKept, SessionKept, BatteryKept
<1>2. CASE IioProxyAppeared
  <2> DEFINE h == [Here EXCEPT !.e.iio_proxy = TRUE]
  <2>1. /\ h \in State /\ h.p = Here.p /\ h.e.sleeping = Here.e.sleeping
        /\ h.e.ppd_running = Here.e.ppd_running
    BY <1>0 DEF State, Environments
  <2>2. Step(MaybeClaimLight(h))
    BY <1>2 DEF IioProxyAppeared
  <2> HIDE DEF h
  <2>3. Keeps(Here, h) /\ Keeps(h, MaybeClaimLight(h))
    BY <2>1, LightKeeps DEF Keeps
  <2> QED
    BY <2>2, <2>3, Commits
<1>3. CASE IioProxyVanished
  <2> DEFINE h == [Here EXCEPT !.e.iio_proxy = FALSE, !.e.sensor_claimed = FALSE]
  <2>1. /\ h.p = Here.p /\ h.e.sleeping = Here.e.sleeping
        /\ h.e.ppd_running = Here.e.ppd_running
    BY <1>0 DEF State, Environments
  <2>2. Step(h)
    BY <1>3 DEF IioProxyVanished
  <2> HIDE DEF h
  <2> QED
    BY <1>0, <2>1, <2>2 DEF Step, SharedKept, SessionKept, BatteryKept
<1>s. CASE BrightnessControlChanges
  <2> DEFINE h == [Here EXCEPT !.e.shell_control = ~env.shell_control]
  <2>1. /\ h.p = Here.p /\ h.e.sleeping = Here.e.sleeping
        /\ h.e.ppd_running = Here.e.ppd_running
    BY <1>0 DEF State, Environments
  <2>2. Step(h)
    BY <1>0, <1>s DEF BrightnessControlChanges
  <2> HIDE DEF h
  <2> QED
    BY <1>0, <2>1, <2>2 DEF Step, SharedKept, SessionKept, BatteryKept
<1>4. CASE KbdStep
  <2>1. PICK step \in {StepAmount(KbdMax), -StepAmount(KbdMax)}, r \in Replies :
          LET level == IF pm.kbd.now + step > KbdMax THEN KbdMax
                       ELSE IF pm.kbd.now + step < 0 THEN 0 ELSE pm.kbd.now + step
          IN  Step([Here EXCEPT !.p.kbd = KbdSet(pm.kbd, level, r.set)])
    BY <1>0, <1>4 DEF KbdStep
  <2> QED
    BY <1>1, <2>1
<1>5. CASE KbdToggleCall
  BY <1>0, <1>1, <1>5 DEF KbdToggleCall
<1>6. CASE KbdSetBrightness
  <2>1. PICK level \in KbdLevels, r \in Replies :
          LET percentage == AbsToPercentage(0, KbdMax, level)
          IN  Step([Here EXCEPT !.p.kbd =
                     KbdSet(pm.kbd, PercentageToAbs(0, KbdMax, percentage), r.set)])
    BY <1>0, <1>6 DEF KbdSetBrightness
  <2> QED
    BY <1>1, <2>1
<1>7. CASE KbdBrightnessChanged
  <2>1. PICK level \in KbdLevels : Step([Here EXCEPT !.p.kbd.now = level])
    BY <1>7 DEF KbdBrightnessChanged
  <2>2. [Here EXCEPT !.p.kbd.now = level] = [Here EXCEPT !.p.kbd = [pm.kbd EXCEPT !.now = level]]
    BY <1>0
  <2> QED
    BY <1>1, <2>1, <2>2
<1> QED
  BY <1>2, <1>3, <1>s, <1>4, <1>5, <1>6, <1>7

\* A change of the session is none of the suspend, or of the battery.
LEMMA SessionKeepsOthers ==
  ASSUME TypeOK, SessionPropertiesChanged
  PROVE  env'.sleeping = env.sleeping /\ BatteryKept
<1>0. Here \in State /\ Here.p = pm /\ Here.e = env /\ NORMAL \in IdleModes
  BY Commits DEF IdleModes, NORMAL, SLEEP
<1> USE RepliesType
<1>1. PICK active \in BOOLEAN, inhibited \in SUBSET Inhibitors, r \in Replies :
        LET s == [Here EXCEPT !.e.session_known = TRUE, !.e.inhibited = inhibited]
            a == IF active = pm.session_is_active /\ env.session_known
                 THEN s ELSE SessionActiveChanged(s, active, r)
        IN  Step(IF inhibited = env.inhibited /\ env.session_known
                 THEN a ELSE IdleConfigure(a, r))
  BY DEF SessionPropertiesChanged
<1> DEFINE s == [Here EXCEPT !.e.session_known = TRUE, !.e.inhibited = inhibited]
           b == [s EXCEPT !.p.session_is_active = active]
           a == IF active = pm.session_is_active /\ env.session_known
                THEN s ELSE SessionActiveChanged(s, active, r)
<1> DEFINE Untouched(t) ==
             /\ t \in State /\ t.e.sleeping = env.sleeping
             /\ t.p.battery_is_low = pm.battery_is_low /\ t.e.ppd_running = env.ppd_running
<1>2. Untouched(s)
  BY <1>0 DEF State, Environments
<1>3. Step(IF inhibited = env.inhibited /\ env.session_known THEN a ELSE IdleConfigure(a, r))
  BY <1>1
<1> HIDE DEF s
<1>4. b \in State /\ b.e = s.e /\ b.p.battery_is_low = s.p.battery_is_low
  BY <1>2 DEF State, Managers
<1>5. SessionActiveChanged(s, active, r)
        = MaybeClaimLight(IF active THEN IdleSetMode(b, NORMAL, r) ELSE b)
  BY DEF SessionActiveChanged
<1> HIDE DEF b
<1>6. Keeps(b, IF active THEN IdleSetMode(b, NORMAL, r) ELSE b)
  BY <1>0, <1>4, IdleSetModeKeeps DEF Keeps
<1>7. Keeps(b, SessionActiveChanged(s, active, r))
  BY <1>5, <1>6, LightKeeps DEF Keeps
<1>8. Untouched(a)
  BY <1>2, <1>4, <1>7 DEF Keeps
<1> HIDE DEF a
<1>9. Keeps(a, IdleConfigure(a, r))
  BY <1>8, ConfigureKeeps
<1> QED
  BY <1>3, <1>8, <1>9 DEF Keeps, Step, BatteryKept

-------------------------------------------------------------------------------
(* The daemon.                                                             *)

\* Handlers of the idle machine alone, as steps of the whole.
LEMMA IdleOnlyKeeps ==
  ASSUME TypeOK, IdleOnly
  PROVE  SharedKept /\ UNCHANGED inh
BY TriggersKeep, ChangesKeep, DevicesKeep DEF IdleOnly

\* Every step of the daemon is one of the idle machine, or leaves it alone ...
LEMMA ManagerStepsIdle == [ManagerNext]_mvars => [Next]_vars
BY DEF ManagerNext, SwitchSession, Suspend, Resume, CompositeWarning, ProfileShown, ProfileGone,
       IdleOnly, InhibitorsOnly, ProfilesOnly, WarningsOnly, Next, SystemNext, EnvironmentNext,
       vars, mvars

\* ... one of the inhibitors, or leaves them alone, ...
LEMMA ManagerStepsInhibitors ==
  TypeOK /\ [ManagerNext]_mvars => [Inh!InhNext]_(Inh!ivars)
<1> SUFFICES ASSUME TypeOK, [ManagerNext]_mvars
             PROVE  [Inh!InhNext]_(Inh!ivars)
  OBVIOUS
<1>0. ASSUME SessionKept, UNCHANGED inh
      PROVE  UNCHANGED Inh!ivars
  BY <1>0 DEF SessionKept, Inh!ivars
<1>1. CASE SwitchSession
  <2>1. CASE Inh!SessionSwitched
    BY <2>1 DEF Inh!InhNext
  <2>2. CASE ~Inh!SessionSwitched
    <3>1. pm'.session_is_active = pm.session_is_active /\ UNCHANGED inh
      BY <1>1, <2>2 DEF SwitchSession
    <3>2. env'.sleeping = env.sleeping
      BY <1>1, SessionKeepsOthers DEF SwitchSession
    <3> QED
      BY <1>0, <3>1, <3>2 DEF SessionKept
  <2> QED
    BY <2>1, <2>2
<1>2. CASE Suspend \/ Resume
  BY <1>2 DEF Suspend, Resume, Inh!InhNext
<1>3. CASE CompositeWarning
  <2>1. CASE BatteryLowChanged /\ UNCHANGED inh
    BY <1>0, <2>1, BatteryKeepsSession
  <2>2. CASE UNCHANGED <<pm, env, inh>>
    BY <1>0, <2>2 DEF SessionKept
  <2> QED
    BY <1>3, <2>1, <2>2 DEF CompositeWarning
<1>4. CASE ProfileShown \/ ProfileGone
  BY <1>0, <1>4, BatteryKeepsSession DEF ProfileShown, ProfileGone
<1>5. CASE IdleOnly
  BY <1>0, <1>5, IdleOnlyKeeps DEF SharedKept
<1>6. CASE InhibitorsOnly
  BY <1>6 DEF InhibitorsOnly, Inh!InhNext
<1>7. CASE ProfilesOnly \/ WarningsOnly \/ UNCHANGED mvars
  <2>1. UNCHANGED <<pm, env, inh>>
    BY <1>7 DEF ProfilesOnly, WarningsOnly, mvars
  <2> QED
    BY <1>0, <2>1 DEF SessionKept
<1> QED
  BY <1>1, <1>2, <1>3, <1>4, <1>5, <1>6, <1>7 DEF ManagerNext

\* ... and one of the profiles and of the warnings, or leaves these alone.
LEMMA ManagerStepsBattery ==
  TypeOK /\ [ManagerNext]_mvars => [Prof!ProfNext]_(Prof!pvars) /\ [Warn!WarnNext]_(Warn!wvars)
<1> SUFFICES ASSUME TypeOK, [ManagerNext]_mvars
             PROVE  [Prof!ProfNext]_(Prof!pvars) /\ [Warn!WarnNext]_(Warn!wvars)
  OBVIOUS
<1>0. ASSUME BatteryKept
      PROVE  /\ UNCHANGED prof => UNCHANGED Prof!pvars
             /\ UNCHANGED warn => UNCHANGED Warn!wvars
  BY <1>0 DEF BatteryKept, Prof!pvars, Warn!wvars
<1>1. CASE SwitchSession
  BY <1>0, <1>1, SessionKeepsOthers DEF SwitchSession
<1>2. CASE Suspend \/ Resume
  BY <1>0, <1>2, SuspendKeepsBattery DEF Suspend, Resume
<1>3. CASE CompositeWarning
  <2>1. CASE Prof!LowChanged /\ Warn!MainWarning
    BY <2>1 DEF Prof!ProfNext, Warn!WarnNext
  <2>2. CASE Warn!MainWarning /\ UNCHANGED <<pm, env, prof>>
    BY <1>0, <2>2 DEF BatteryKept, Warn!WarnNext
  <2> QED
    BY <1>3, <2>1, <2>2 DEF CompositeWarning
<1>4. CASE ProfileShown \/ ProfileGone
  <2>1. Prof!ProfNext /\ UNCHANGED <<pm.battery_is_low, warn>>
    BY <1>4 DEF ProfileShown, ProfileGone, Prof!ProfNext, Prof!PpdShown, Prof!PpdGone
  <2> QED
    BY <2>1 DEF Warn!wvars
<1>5. CASE IdleOnly
  BY <1>0, <1>5, IdleOnlyKeeps DEF SharedKept, IdleOnly
<1>6. CASE InhibitorsOnly \/ UNCHANGED mvars
  <2>1. UNCHANGED <<pm, env, prof, warn>>
    BY <1>6 DEF InhibitorsOnly, mvars
  <2> QED
    BY <1>0, <2>1 DEF BatteryKept
<1>7. CASE ProfilesOnly
  <2>1. UNCHANGED <<pm, env, warn>> /\ Prof!ProfNext
    BY <1>7 DEF ProfilesOnly, Prof!ProfNext
  <2> QED
    BY <1>0, <2>1 DEF BatteryKept
<1>8. CASE WarningsOnly
  <2>1. UNCHANGED <<pm, env, prof>> /\ Warn!WarnNext
    BY <1>8 DEF WarningsOnly, Warn!WarnNext
  <2> QED
    BY <1>0, <2>1 DEF BatteryKept
<1> QED
  BY <1>1, <1>2, <1>3, <1>4, <1>5, <1>6, <1>7, <1>8 DEF ManagerNext

-------------------------------------------------------------------------------
(* The theorems.                                                           *)

\* Handlers that act for several parts leave none of them behind: the daemon
\* implements the specification of each of its parts (gsd-power-manager.c:
\* engine_session_properties_changed_cb, handle_suspend_actions,
\* main_battery_or_ups_low_changed, update_active_power_profile).
THEOREM PartsCorrect == ManagerSpec => PartsInStep
<1>1. ManagerInit => Init /\ Inh!InhInit /\ Prof!ProfInit /\ Warn!WarnInit
  BY DEF ManagerInit
<1>2. ManagerSpec => Spec
  BY <1>1, ManagerStepsIdle, PTL DEF ManagerSpec, Spec
<1>3. ManagerSpec => []TypeOK
  BY <1>2, TypeCorrect, PTL
<1>4. ManagerSpec => Inh!InhSpec
  BY <1>1, <1>3, ManagerStepsInhibitors, PTL DEF ManagerSpec, Inh!InhSpec
<1>5. ManagerSpec => Prof!ProfSpec /\ Warn!WarnSpec
  BY <1>1, <1>3, ManagerStepsBattery, PTL DEF ManagerSpec, Prof!ProfSpec, Warn!WarnSpec
<1> QED
  BY <1>2, <1>4, <1>5 DEF PartsInStep

\* Whatever the order of monitors, session switches, suspends, timers and
\* late or refused replies: a docked laptop in use has or awaits its lid
\* inhibitor, one that is not wanted has the timer that ends it (when logind
\* is prompt), an awake machine has or awaits its delay, and no descriptor is
\* overwritten by a second reply (gsd-power-manager.c: sync_lid_inhibitor,
\* inhibit_lid_switch_timer_cb, inhibit_suspend, uninhibit_suspend).
THEOREM InhibitorsCorrect == ManagerSpec => []InhibitorsHold
<1>1. Inh!InhInit => IInv
  BY InitInv
<1>2. IInv /\ [Inh!InhNext]_(Inh!ivars) => IInv'
  BY NextInv
<1>3. IInv => InhibitorsHold
  BY DEF IInv, InhibitorsHold
<1>4. Inh!InhSpec => []InhibitorsHold
  BY <1>1, <1>2, <1>3, PTL DEF Inh!InhSpec
<1> QED
  BY <1>4, PartsCorrect, PTL DEF PartsInStep

-------------------------------------------------------------------------------
(* Warnings.                                                               *)

WarnInv == Warn!WarnTypeOK /\ WarningsEnd

\* What a warning does to everything but the levels: whom it tells about, when
\* the alarm sounds, and which devices it is quiet about.
LEMMA WarningOps ==
  ASSUME NEW w \in Warn!Warns, NEW d \in Warn!Devices, NEW level \in Warn!Levels,
         w.level[d] = level,
         d = Main /\ level = Warn!UP_ACTION => w.timers < MaxTimers
  PROVE  LET v == Warn!WarningChanged(w, d, level)
         IN /\ v \in Warn!Warns
            /\ v.level = w.level /\ v.present = w.present
            /\ v.alarm => w.alarm \/ (d = Main /\ level = Warn!CRITICAL)
            /\ v.timers >= w.timers
            /\ d = Main /\ level = Warn!UP_ACTION => v.timers > 0
            /\ d = Main /\ level = Warn!NONE => ~v.alarm
            /\ v.low \in {w.low, Warn!Nobody, d}
            /\ d \notin Serialized /\ level = Warn!NONE /\ (d = Main => MainKind = "battery")
                 => v.low # d
<1> USE DevicesAssumption, ManagerAssumption
<1> DEFINE v == Warn!WarningChanged(w, d, level)
           r == Warn!Remember(w, d, level)
<1>1. /\ r \in Warn!Warns /\ r.level = w.level /\ r.present = w.present
      /\ r.alarm = w.alarm /\ r.timers = w.timers /\ r.low = w.low
  BY DEF Warn!Remember, Warn!Warns
<1>2. Main \notin Serialized /\ Warn!Nobody \notin Warn!Devices
  BY DEF Warn!Devices, Warn!Nobody, Devices, Nobody
<1>3. level \in {Warn!UNKNOWN, Warn!NONE, Warn!DISCHARGING, Warn!LOW, Warn!CRITICAL, Warn!UP_ACTION}
  BY DEF Warn!Levels, Warn!UNKNOWN, Warn!NONE, Warn!DISCHARGING, Warn!LOW, Warn!CRITICAL, Warn!UP_ACTION
<1>6. /\ Warn!UNKNOWN = 0 /\ Warn!NONE = 1 /\ Warn!DISCHARGING = 2
      /\ Warn!LOW = 3 /\ Warn!CRITICAL = 4 /\ Warn!UP_ACTION = 5
  BY DEF Warn!UNKNOWN, Warn!NONE, Warn!DISCHARGING, Warn!LOW, Warn!CRITICAL, Warn!UP_ACTION
<1>7. v = IF Warn!Debounced(w, d, level) \/ level = 0 THEN r
          ELSE IF level = 1 THEN Warn!Charged(r, d)
          ELSE IF level = 2 THEN Warn!UpsDischarging(r, d)
          ELSE IF level = 3 THEN Warn!ChargeLow(r, d)
          ELSE IF level = 4 THEN Warn!ChargeCritical(r, d)
          ELSE Warn!ChargeAction(r, d)
  BY <1>3, <1>6 DEF Warn!WarningChanged
<1>4. CASE Warn!Debounced(w, d, level)
  <2>1. v = r /\ d \in Serialized
    BY <1>4, <1>7 DEF Warn!Debounced
  <2> QED
    BY <1>1, <1>2, <2>1 DEF Warn!Warns
<1>5. CASE ~Warn!Debounced(w, d, level)
  <2> HIDE DEF r
  <2>1. CASE level = Warn!UNKNOWN
    <3>1. v = r
      BY <1>5, <1>6, <1>7, <2>1
    <3> QED
      BY <1>1, <1>6, <2>1, <3>1 DEF Warn!Warns
  <2>2. CASE level = Warn!NONE
    <3>1. v = Warn!Charged(r, d)
      BY <1>5, <1>6, <1>7, <2>2
    <3>2. CASE d = Main /\ MainKind = "ups"
      <4>1. v = [r EXCEPT !.alarm = FALSE, !.ups = FALSE]
        BY <3>1, <3>2 DEF Warn!Charged
      <4> HIDE DEF v
      <4>2. v \in Warn!Warns
        BY <1>1, <4>1 DEF Warn!Warns
      <4>3. /\ v.level = r.level /\ v.present = r.present /\ ~v.alarm
            /\ v.timers = r.timers /\ v.low = r.low
        BY <1>1, <4>1 DEF Warn!Warns
      <4>4. r.timers \in Nat
        BY <1>1 DEF Warn!Warns
      <4> QED
        BY <1>1, <1>6, <2>2, <3>2, <4>2, <4>3, <4>4 DEF v
    <3>3. CASE ~(d = Main /\ MainKind = "ups")
      <4>1. v = [r EXCEPT !.alarm = FALSE, !.low = Warn!Nobody]
        BY <3>1, <3>3 DEF Warn!Charged
      <4> HIDE DEF v
      <4>2. v \in Warn!Warns
        BY <1>1, <4>1 DEF Warn!Warns
      <4>3. /\ v.level = r.level /\ v.present = r.present /\ ~v.alarm
            /\ v.timers = r.timers /\ v.low = Warn!Nobody
        BY <1>1, <4>1 DEF Warn!Warns
      <4>4. r.timers \in Nat
        BY <1>1 DEF Warn!Warns
      <4> QED
        BY <1>1, <1>2, <1>6, <2>2, <4>2, <4>3, <4>4 DEF v
    <3> QED
      BY <3>2, <3>3
  <2>3. CASE level = Warn!DISCHARGING
    <3>1. v = Warn!UpsDischarging(r, d)
      BY <1>5, <1>6, <1>7, <2>3
    <3>2. PICK ups \in BOOLEAN : v = [r EXCEPT !.ups = ups]
      BY <3>1, <1>1 DEF Warn!UpsDischarging, Warn!Warns
    <3> QED
      BY <1>1, <1>6, <2>3, <3>2 DEF Warn!Warns
  <2>4. CASE level = Warn!LOW
    <3>1. v = Warn!ChargeLow(r, d)
      BY <1>5, <1>6, <1>7, <2>4
    <3> QED
      BY <1>1, <1>6, <2>4, <3>1 DEF Warn!Warns, Warn!ChargeLow
  <2>5. CASE level = Warn!CRITICAL
    <3>1. v = Warn!ChargeCritical(r, d)
      BY <1>5, <1>6, <1>7, <2>5
    <3>2. PICK alarm \in BOOLEAN :
            v = [r EXCEPT !.low = d, !.alarm = alarm] /\ (alarm => r.alarm \/ d = Main)
      BY <3>1, <1>1 DEF Warn!ChargeCritical, Warn!Warns
    <3>3. v \in Warn!Warns
      BY <1>1, <3>2 DEF Warn!Warns
    <3>4. /\ v.level = r.level /\ v.present = r.present /\ v.alarm = alarm
          /\ v.timers = r.timers /\ v.low = d
      BY <1>1, <3>2 DEF Warn!Warns
    <3>5. r.timers \in Nat
      BY <1>1 DEF Warn!Warns
    <3> QED
      BY <1>1, <1>6, <2>5, <3>2, <3>3, <3>4, <3>5
  <2>6. CASE level = Warn!UP_ACTION
    <3>1. v = Warn!ChargeAction(r, d)
      BY <1>5, <1>6, <1>7, <2>6
    <3>2. CASE d = Main
      <4>1. v = [r EXCEPT !.low = d, !.timers = @ + 1]
        BY <3>1, <3>2 DEF Warn!ChargeAction
      <4>2. r.timers \in 0..MaxTimers /\ r.timers < MaxTimers
        BY <1>1, <2>6, <3>2 DEF Warn!Warns
      <4>3. r.timers + 1 \in 0..MaxTimers
        BY <4>2
      <4> HIDE DEF v
      <4>4. v \in Warn!Warns
        BY <1>1, <4>1, <4>3 DEF Warn!Warns
      <4>5. /\ v.level = r.level /\ v.present = r.present /\ v.alarm = r.alarm
            /\ v.timers = r.timers + 1 /\ v.low = d
        BY <1>1, <4>1 DEF Warn!Warns
      <4> QED
        BY <1>1, <1>6, <2>6, <3>2, <4>2, <4>4, <4>5 DEF v
    <3>3. CASE d # Main
      BY <1>1, <1>6, <2>6, <3>1, <3>3 DEF Warn!Warns, Warn!ChargeAction
    <3> QED
      BY <3>2, <3>3
  <2> QED
    BY <1>3, <2>1, <2>2, <2>3, <2>4, <2>5, <2>6
<1> HIDE DEF v
<1> QED
  BY <1>4, <1>5 DEF v

LEMMA WarnInitInv == Warn!WarnInit => WarnInv
<1> SUFFICES ASSUME Warn!WarnInit
             PROVE  WarnInv
  OBVIOUS
<1> USE DevicesAssumption, ManagerAssumption
<1>1. PICK level \in Warn!Levels :
        warn = [level |-> [d \in Warn!Devices |-> IF d = Main THEN level ELSE Warn!NONE],
                present |-> {}, notified |-> [d \in Serialized |-> Warn!UNKNOWN],
                low |-> Warn!Nobody, ups |-> FALSE, alarm |-> FALSE, timers |-> 0]
  BY DEF Warn!WarnInit
<1>2. Warn!NONE \in Warn!Levels /\ Warn!UNKNOWN \in Warn!Levels
  BY DEF Warn!Levels, Warn!NONE, Warn!UNKNOWN, Warn!UP_ACTION
<1>3. [d \in Warn!Devices |-> IF d = Main THEN level ELSE Warn!NONE] \in [Warn!Devices -> Warn!Levels]
  BY <1>2
<1>4. warn \in Warn!Warns
  BY <1>1, <1>2, <1>3 DEF Warn!Warns
<1>5. Main # Warn!Nobody
  BY DEF Devices, Nobody, Warn!Nobody
<1>6. pm.battery_is_low \in BOOLEAN /\ ~warn.alarm /\ warn.low = Warn!Nobody /\ warn.present = {}
  BY <1>1 DEF Warn!WarnInit
<1> QED
  BY <1>4, <1>5, <1>6
  DEF WarnInv, Warn!WarnTypeOK, WarningsEnd, Warn!AlarmEnds, Warn!ChargedIsQuiet

LEMMA WarnNextInv == WarnInv /\ [Warn!WarnNext]_(Warn!wvars) => WarnInv'
<1> SUFFICES ASSUME WarnInv, [Warn!WarnNext]_(Warn!wvars)
             PROVE  WarnInv'
  OBVIOUS
<1> USE DevicesAssumption, ManagerAssumption
<1>0. /\ warn \in Warn!Warns /\ pm.battery_is_low \in BOOLEAN
      /\ Warn!AlarmEnds /\ Warn!ChargedIsQuiet
      /\ Main \in Warn!Devices /\ Peripherals \subseteq Warn!Devices
      /\ warn.level \in [Warn!Devices -> Warn!Levels] /\ warn.present \subseteq Peripherals
      /\ Main \notin Peripherals /\ Main \notin Serialized
      /\ Warn!Nobody \notin Warn!Devices
  BY DEF WarnInv, Warn!WarnTypeOK, WarningsEnd, Warn!Devices, Warn!Warns, Devices, Nobody, Warn!Nobody
\* A device's level changes (it may have just appeared), and the warning.
<1>1. ASSUME NEW d \in Warn!Devices, NEW level \in Warn!Levels, NEW present \in SUBSET Peripherals,
             warn.present \subseteq present, present \subseteq warn.present \cup {d},
             d = Main /\ level = Warn!UP_ACTION => warn.timers < MaxTimers,
             warn' = Warn!WarningChanged([warn EXCEPT !.level[d] = level, !.present = present], d, level),
             pm.battery_is_low' = IF d = Main THEN level # Warn!NONE ELSE pm.battery_is_low
      PROVE  WarnInv'
  <2> DEFINE w == [warn EXCEPT !.level[d] = level, !.present = present]
  <2>1. /\ w \in Warn!Warns /\ w.level[d] = level /\ w.present = present
        /\ \A o \in Warn!Devices \ {d} : w.level[o] = warn.level[o]
        /\ w.alarm = warn.alarm /\ w.timers = warn.timers /\ w.low = warn.low
    BY <1>0, <1>1 DEF Warn!Warns
  <2> HIDE DEF w
  <2>2. warn' = Warn!WarningChanged(w, d, level)
    BY <1>1 DEF w
  <2>3. /\ warn' \in Warn!Warns
        /\ warn'.level = w.level /\ warn'.present = w.present
        /\ warn'.alarm => w.alarm \/ (d = Main /\ level = Warn!CRITICAL)
        /\ warn'.timers >= w.timers
        /\ d = Main /\ level = Warn!UP_ACTION => warn'.timers > 0
        /\ d = Main /\ level = Warn!NONE => ~warn'.alarm
        /\ warn'.low \in {w.low, Warn!Nobody, d}
        /\ d \notin Serialized /\ level = Warn!NONE /\ (d = Main => MainKind = "battery")
             => warn'.low # d
    BY <1>0, <1>1, <2>1, <2>2, WarningOps
  <2>4. Warn!WarnTypeOK'
    BY <1>0, <1>1, <2>3 DEF Warn!WarnTypeOK
  <2>5. Warn!AlarmEnds'
    <3>1. CASE d = Main
      BY <1>0, <1>1, <2>1, <2>3, <3>1 DEF Warn!AlarmEnds, Warn!CRITICAL, Warn!NONE, Warn!UP_ACTION
    <3>2. CASE d # Main
      <4>1. warn'.level[Main] = warn.level[Main] /\ (warn'.alarm => warn.alarm)
            /\ pm.battery_is_low' = pm.battery_is_low
        BY <1>0, <1>1, <2>1, <2>3, <3>2
      <4>2. warn.timers \in Nat /\ warn'.timers \in Nat
        BY <1>0, <2>3 DEF Warn!Warns
      <4> QED
        BY <1>0, <2>1, <2>3, <4>1, <4>2 DEF Warn!AlarmEnds
    <3> QED
      BY <3>1, <3>2
  <2>6. Warn!ChargedIsQuiet'
    <3> SUFFICES ASSUME NEW o \in ({Main} \cup present) \ Serialized,
                        warn'.low = o, o = Main => MainKind = "battery"
                 PROVE  w.level[o] # Warn!NONE
      BY <2>1, <2>3 DEF Warn!ChargedIsQuiet
    <3>1. o \in Warn!Devices
      BY <1>0, <1>1
    <3>2. CASE o = d
      BY <2>1, <2>3, <3>2
    <3>3. CASE o # d
      <4>1. warn.low = o /\ o \in ({Main} \cup warn.present) \ Serialized
        BY <1>0, <1>1, <2>1, <2>3, <3>1, <3>3
      <4> QED
        BY <1>0, <2>1, <3>1, <3>3, <4>1 DEF Warn!ChargedIsQuiet
    <3> QED
      BY <3>2, <3>3
  <2> QED
    BY <2>4, <2>5, <2>6 DEF WarnInv, WarningsEnd
<1>2. CASE Warn!MainWarning
  <2>1. PICK level \in Warn!Levels :
          /\ level = Warn!UP_ACTION => warn.timers < MaxTimers
          /\ warn' = Warn!WarningChanged([warn EXCEPT !.level[Main] = level], Main, level)
          /\ pm.battery_is_low' = (level # Warn!NONE)
    BY <1>2 DEF Warn!MainWarning
  <2>2. [warn EXCEPT !.level[Main] = level]
          = [warn EXCEPT !.level[Main] = level, !.present = warn.present]
    BY <1>0 DEF Warn!Warns
  <2> QED
    BY <1>0, <1>1, <2>1, <2>2
<1>3. CASE Warn!PeripheralWarning
  <2>1. PICK d \in warn.present, level \in Warn!Levels :
          /\ warn' = Warn!WarningChanged([warn EXCEPT !.level[d] = level], d, level)
          /\ UNCHANGED pm.battery_is_low
    BY <1>3 DEF Warn!PeripheralWarning
  <2>2. [warn EXCEPT !.level[d] = level]
          = [warn EXCEPT !.level[d] = level, !.present = warn.present]
    BY <1>0 DEF Warn!Warns
  <2>3. d \in Warn!Devices /\ d # Main
    BY <1>0
  <2> QED
    BY <1>0, <1>1, <2>1, <2>2, <2>3
<1>4. CASE Warn!DeviceAdded
  <2>1. PICK d \in Peripherals \ warn.present, level \in Warn!Levels :
          /\ warn' = Warn!WarningChanged([warn EXCEPT !.level[d] = level,
                                                      !.present = @ \cup {d}], d, level)
          /\ UNCHANGED pm.battery_is_low
    BY <1>4 DEF Warn!DeviceAdded
  <2> DEFINE present == warn.present \cup {d}
  <2>2. [warn EXCEPT !.level[d] = level, !.present = @ \cup {d}]
          = [warn EXCEPT !.level[d] = level, !.present = present]
    BY <1>0 DEF Warn!Warns
  <2>3. d \in Warn!Devices /\ d # Main /\ present \in SUBSET Peripherals
        /\ warn.present \subseteq present /\ present \subseteq warn.present \cup {d}
    BY <1>0
  <2> HIDE DEF present
  <2> QED
    BY <1>0, <1>1, <2>1, <2>2, <2>3
<1>5. CASE Warn!DeviceRemoved
  <2>1. PICK d \in warn.present :
          warn' = [warn EXCEPT !.present = @ \ {d}, !.level[d] = Warn!NONE]
    BY <1>5 DEF Warn!DeviceRemoved
  <2>2. Warn!NONE \in Warn!Levels /\ pm.battery_is_low' = pm.battery_is_low
    BY <1>5 DEF Warn!DeviceRemoved, Warn!NONE, Warn!Levels, Warn!UNKNOWN, Warn!UP_ACTION
  <2>3. /\ warn' \in Warn!Warns /\ warn'.present = warn.present \ {d}
        /\ \A o \in Warn!Devices \ {d} : warn'.level[o] = warn.level[o]
        /\ warn'.alarm = warn.alarm /\ warn'.timers = warn.timers /\ warn'.low = warn.low
    BY <1>0, <2>1, <2>2 DEF Warn!Warns
  <2>4. d # Main
    BY <1>0
  <2> QED
    BY <1>0, <2>2, <2>3, <2>4
    DEF WarnInv, Warn!WarnTypeOK, WarningsEnd, Warn!AlarmEnds, Warn!ChargedIsQuiet
<1>6. CASE Warn!StopSound
  <2>1. /\ warn' = [warn EXCEPT !.timers = @ - 1, !.alarm = FALSE]
        /\ warn.timers > 0 /\ pm.battery_is_low' = pm.battery_is_low
    BY <1>6 DEF Warn!StopSound
  <2>2. warn.timers - 1 \in 0..MaxTimers
    BY <1>0, <2>1 DEF Warn!Warns
  <2>3. warn' \in Warn!Warns
    BY <1>0, <2>1, <2>2 DEF Warn!Warns
  <2>4. /\ warn' \in Warn!Warns /\ warn'.present = warn.present /\ warn'.level = warn.level
        /\ ~warn'.alarm /\ warn'.low = warn.low /\ pm.battery_is_low' = pm.battery_is_low
    BY <1>0, <2>1, <2>3 DEF Warn!Warns
  <2> QED
    BY <1>0, <2>4
    DEF WarnInv, Warn!WarnTypeOK, WarningsEnd, Warn!AlarmEnds, Warn!ChargedIsQuiet
<1>7. CASE Warn!WarningDismissed
  <2> DEFINE l == [warn EXCEPT !.low = Warn!Nobody]
             u == [warn EXCEPT !.ups = FALSE]
  <2>1. warn' \in {l, u} /\ pm.battery_is_low' = pm.battery_is_low
    BY <1>7 DEF Warn!WarningDismissed
  <2>2. /\ l \in Warn!Warns /\ l.present = warn.present /\ l.level = warn.level
        /\ l.alarm = warn.alarm /\ l.timers = warn.timers /\ l.low = Warn!Nobody
    BY <1>0 DEF Warn!Warns
  <2>3. /\ u \in Warn!Warns /\ u.present = warn.present /\ u.level = warn.level
        /\ u.alarm = warn.alarm /\ u.timers = warn.timers /\ u.low = warn.low
    BY <1>0 DEF Warn!Warns
  <2> HIDE DEF l, u
  <2>4. /\ warn' \in Warn!Warns /\ warn'.present = warn.present /\ warn'.level = warn.level
        /\ warn'.alarm = warn.alarm /\ warn'.timers = warn.timers
        /\ warn'.low \in {warn.low, Warn!Nobody} /\ pm.battery_is_low' = pm.battery_is_low
    BY <2>1, <2>2, <2>3
  <2> QED
    BY <1>0, <2>4
    DEF WarnInv, Warn!WarnTypeOK, WarningsEnd, Warn!AlarmEnds, Warn!ChargedIsQuiet
<1>8. CASE UNCHANGED Warn!wvars
  BY <1>0, <1>8
  DEF Warn!wvars, WarnInv, Warn!WarnTypeOK, WarningsEnd, Warn!AlarmEnds, Warn!ChargedIsQuiet
<1> QED
  BY <1>2, <1>3, <1>4, <1>5, <1>6, <1>7, <1>8 DEF Warn!WarnNext

-------------------------------------------------------------------------------
(* Power profiles.                                                         *)

HoldsIn(calls) == {i \in 1..Len(calls) : calls[i] = Prof!Hold}

\* Every hold that was issued, or is still asked for, was made.
Counted(p) == p.issued + Cardinality(HoldsIn(p.calls)) <= p.made

\* The hold a low battery is due: asked for, answered, or held.
HoldComes(p) ==
  \/ p.calls # <<>> /\ p.calls[Len(p.calls)] = Prof!Hold
  \/ /\ p.calls = <<>> /\ p.answers # <<>>
     /\ p.answers[Len(p.answers)] = Prof!Held(p.issued) /\ p.issued \in p.holds
  \/ p.calls = <<>> /\ p.answers = <<>> /\ p.power_saver_cookie \in p.holds

HoldDue ==
  ~prof.disturbed /\ pm.battery_is_low /\ prof.on_low_battery => HoldComes(prof)

ProfInv ==
  /\ Prof!ProfTypeOK
  /\ Counted(prof)
  /\ ~env.ppd_running => prof.holds = {}
  /\ HoldDue

LEMMA HoldsInFinite ==
  ASSUME NEW calls \in Seq(Prof!Calls)
  PROVE  IsFiniteSet(HoldsIn(calls)) /\ Cardinality(HoldsIn(calls)) \in Nat
<1>1. IsFiniteSet(1..Len(calls)) /\ HoldsIn(calls) \in SUBSET (1..Len(calls))
  BY FS_Interval DEF HoldsIn
<1> QED
  BY <1>1, FS_Subset, FS_CardinalityType

LEMMA HoldsInAppend ==
  ASSUME NEW calls \in Seq(Prof!Calls), NEW call \in Prof!Calls
  PROVE  Cardinality(HoldsIn(Append(calls, call)))
           = IF call = Prof!Hold THEN Cardinality(HoldsIn(calls)) + 1
             ELSE Cardinality(HoldsIn(calls))
<1> DEFINE n == Len(calls) + 1
<1>1. /\ Len(Append(calls, call)) = n /\ Append(calls, call)[n] = call
      /\ \A i \in 1..Len(calls) : Append(calls, call)[i] = calls[i]
      /\ 1..n = 1..Len(calls) \cup {n} /\ n \notin 1..Len(calls)
  OBVIOUS
<1>2. HoldsIn(Append(calls, call))
        = IF call = Prof!Hold THEN HoldsIn(calls) \cup {n} ELSE HoldsIn(calls)
  BY <1>1 DEF HoldsIn
<1>3. n \notin HoldsIn(calls)
  BY <1>1 DEF HoldsIn
<1> HIDE DEF n
<1> QED
  BY <1>2, <1>3, HoldsInFinite, FS_AddElement

LEMMA HoldsInTail ==
  ASSUME NEW calls \in Seq(Prof!Calls), calls # <<>>
  PROVE  /\ Cardinality(HoldsIn(Tail(calls)))
              = IF Head(calls) = Prof!Hold THEN Cardinality(HoldsIn(calls)) - 1
                ELSE Cardinality(HoldsIn(calls))
         /\ Head(calls) = Prof!Hold => Cardinality(HoldsIn(calls)) > 0
<1> DEFINE rest == HoldsIn(calls) \ {1}
           next == [i \in HoldsIn(Tail(calls)) |-> i + 1]
<1>1. /\ Len(calls) \in Nat \ {0} /\ Len(Tail(calls)) = Len(calls) - 1
      /\ \A i \in 1..(Len(calls) - 1) : Tail(calls)[i] = calls[i + 1]
      /\ Head(calls) = calls[1] /\ Tail(calls) \in Seq(Prof!Calls)
  OBVIOUS
<1>2. next \in [HoldsIn(Tail(calls)) -> rest]
  BY <1>1 DEF HoldsIn
<1>3. \A i, j \in HoldsIn(Tail(calls)) : next[i] = next[j] => i = j
  BY <1>1 DEF HoldsIn
<1>4. \A k \in rest : \E i \in HoldsIn(Tail(calls)) : next[i] = k
  <2> SUFFICES ASSUME NEW k \in rest
               PROVE  k - 1 \in HoldsIn(Tail(calls)) /\ next[k - 1] = k
    OBVIOUS
  <2>1. k \in 2..Len(calls) /\ calls[k] = Prof!Hold
    BY <1>1 DEF HoldsIn
  <2>2. k - 1 \in 1..Len(Tail(calls)) /\ Tail(calls)[k - 1] = Prof!Hold
    BY <1>1, <2>1
  <2> QED
    BY <2>1, <2>2 DEF HoldsIn
<1>5. next \in Bijection(HoldsIn(Tail(calls)), rest)
  BY <1>2, <1>3, <1>4 DEF Bijection, Injection, Surjection, IsInjective
<1>6. Cardinality(rest) = Cardinality(HoldsIn(Tail(calls)))
  BY <1>1, <1>5, HoldsInFinite, FS_Bijection DEF ExistsBijection
<1>7. 1 \in HoldsIn(calls) <=> Head(calls) = Prof!Hold
  BY <1>1 DEF HoldsIn
<1>8. Cardinality(rest) = IF 1 \in HoldsIn(calls) THEN Cardinality(HoldsIn(calls)) - 1
                          ELSE Cardinality(HoldsIn(calls))
  BY HoldsInFinite, FS_RemoveElement
<1>9. Cardinality(HoldsIn(calls)) \in Nat /\ Cardinality(HoldsIn(Tail(calls))) \in Nat
  BY <1>1, HoldsInFinite
<1> HIDE DEF rest, next
<1> QED
  BY <1>6, <1>7, <1>8, <1>9

\* The signals of ended holds name holds.
LEMMA SetToSeqType ==
  ASSUME NEW S, IsFiniteSet(S)
  PROVE  /\ Prof!Cardinality(S) = Cardinality(S)
         /\ Prof!SetToSeq(S) \in [1..Cardinality(S) -> S]
<1>1. \E f \in [1..Cardinality(S) -> S] : IsInjective(f)
  BY FS_CardinalityType DEF ExistsBijection, Bijection, Injection
<1>2. Prof!Cardinality(S) = Cardinality(S)
  BY DEF Prof!Cardinality, Cardinality
<1>3. \A f : Prof!IsInjective(f) = IsInjective(f)
  BY DEF Prof!IsInjective, IsInjective
<1> QED
  BY <1>1, <1>2, <1>3 DEF Prof!SetToSeq

\* Asking for a hold and giving it back.
LEMMA SaverOps ==
  ASSUME NEW p \in Prof!Profs, Counted(p), p.made < MaxHolds
  PROVE  /\ Prof!EnablePowerSaver(p) \in Prof!Profs /\ Counted(Prof!EnablePowerSaver(p))
         /\ Prof!EnablePowerSaver(p).holds = p.holds
         /\ p.on_low_battery => \/ Prof!EnablePowerSaver(p).disturbed
                                \/ HoldComes(Prof!EnablePowerSaver(p))
         /\ Prof!EnablePowerSaver(p).on_low_battery = p.on_low_battery
         /\ Prof!DisablePowerSaver(p) \in Prof!Profs /\ Counted(Prof!DisablePowerSaver(p))
         /\ Prof!DisablePowerSaver(p).holds = p.holds
         /\ Prof!DisablePowerSaver(p).on_low_battery = p.on_low_battery
<1> USE ManagerAssumption
<1>0. /\ p.calls \in Seq(Prof!Calls) /\ p.made \in 0..MaxHolds /\ p.made + 1 \in 0..MaxHolds
      /\ p.issued \in Nat /\ Prof!Hold \in Prof!Calls
      /\ p.on_low_battery \in BOOLEAN /\ p.connected \in BOOLEAN
  BY DEF Prof!Profs, Prof!Calls
<1>1. /\ Cardinality(HoldsIn(Append(p.calls, Prof!Hold))) = Cardinality(HoldsIn(p.calls)) + 1
      /\ Cardinality(HoldsIn(p.calls)) \in Nat
  BY <1>0, HoldsInAppend, HoldsInFinite
<1>2. /\ Append(p.calls, Prof!Hold) \in Seq(Prof!Calls) /\ Append(p.calls, Prof!Hold) # <<>>
      /\ Append(p.calls, Prof!Hold)[Len(Append(p.calls, Prof!Hold))] = Prof!Hold
  BY <1>0
<1> DEFINE e == Prof!EnablePowerSaver(p)
           d == Prof!DisablePowerSaver(p)
<1>3. /\ e \in Prof!Profs /\ Counted(e) /\ e.holds = p.holds
      /\ p.on_low_battery => e.disturbed \/ HoldComes(e)
      /\ e.on_low_battery = p.on_low_battery
  <2>1. CASE ~p.on_low_battery
    <3>1. e = p
      BY <1>0, <2>1 DEF Prof!EnablePowerSaver
    <3> QED
      BY <2>1, <3>1
  <2>2. CASE p.on_low_battery /\ ~p.connected
    <3>1. e = [p EXCEPT !.disturbed = TRUE]
      BY <1>0, <2>2 DEF Prof!EnablePowerSaver
    <3> QED
      BY <2>2, <3>1 DEF Prof!Profs, Counted
  <2>3. CASE p.on_low_battery /\ p.connected
    <3>1. e = [p EXCEPT !.calls = Append(@, Prof!Hold), !.made = @ + 1]
      BY <1>0, <2>3 DEF Prof!EnablePowerSaver
    <3> HIDE DEF e
    <3>2. e \in Prof!Profs
      BY <1>0, <1>2, <3>1 DEF Prof!Profs
    <3>3. /\ e.calls = Append(p.calls, Prof!Hold) /\ e.made = p.made + 1 /\ e.issued = p.issued
          /\ e.holds = p.holds /\ e.on_low_battery = p.on_low_battery
      BY <3>1 DEF Prof!Profs
    <3>4. Counted(e) /\ HoldComes(e)
      BY <1>0, <1>1, <1>2, <3>3 DEF Counted, HoldComes
    <3> QED
      BY <3>2, <3>3, <3>4 DEF e
  <2> QED
    BY <1>0, <2>1, <2>2, <2>3
<1>4. CASE p.power_saver_cookie = Prof!NoCookie
  <2>1. d = p
    BY <1>4 DEF Prof!DisablePowerSaver
  <2> QED
    BY <1>3, <2>1
<1>5. CASE p.power_saver_cookie # Prof!NoCookie
  <2> DEFINE r == Prof!Release(p.power_saver_cookie)
  <2>1. d = [p EXCEPT !.calls = Append(@, r), !.power_saver_cookie = Prof!NoCookie]
    BY <1>5 DEF Prof!DisablePowerSaver
  <2>2. r \in Prof!Calls
    BY <1>5 DEF Prof!Calls, Prof!Profs
  <2>3. r # Prof!Hold
    BY DEF Prof!Release, Prof!Hold
  <2> HIDE DEF r, d
  <2>4. Append(p.calls, r) \in Seq(Prof!Calls)
        /\ Cardinality(HoldsIn(Append(p.calls, r))) = Cardinality(HoldsIn(p.calls))
    BY <1>0, <2>2, <2>3, HoldsInAppend
  <2>5. d \in Prof!Profs
    BY <2>1, <2>4 DEF Prof!Profs
  <2>6. /\ d.calls = Append(p.calls, r) /\ d.made = p.made /\ d.issued = p.issued
        /\ d.holds = p.holds /\ d.on_low_battery = p.on_low_battery
    BY <2>1 DEF Prof!Profs
  <2> QED
    BY <1>3, <2>4, <2>5, <2>6 DEF Counted, d
<1> HIDE DEF e, d
<1> QED
  BY <1>4, <1>5

LEMMA ProfInitInv == Prof!ProfInit => ProfInv
<1> SUFFICES ASSUME Prof!ProfInit
             PROVE  ProfInv
  OBVIOUS
<1> USE ManagerAssumption
<1>1. PICK setting \in BOOLEAN :
        prof = [connected |-> FALSE, power_saver_cookie |-> Prof!NoCookie,
                on_low_battery |-> setting, calls |-> <<>>, answers |-> <<>>,
                holds |-> {}, made |-> 0, issued |-> 0, disturbed |-> FALSE]
  BY DEF Prof!ProfInit
<1>2. pm.battery_is_low = FALSE /\ env.ppd_running = FALSE
  BY DEF Prof!ProfInit
<1>3. prof \in Prof!Profs
  BY <1>1 DEF Prof!Profs
<1>4. HoldsIn(prof.calls) = {}
  BY <1>1 DEF HoldsIn
<1>5. Counted(prof)
  <2>1. prof.issued = 0 /\ prof.made = 0 /\ Cardinality({}) = 0
    BY <1>1, FS_EmptySet
  <2> QED
    BY <1>4, <2>1 DEF Counted
<1> QED
  BY <1>1, <1>2, <1>3, <1>5 DEF ProfInv, Prof!ProfTypeOK, HoldDue

LEMMA ProfNextInv == ProfInv /\ [Prof!ProfNext]_(Prof!pvars) => ProfInv'
<1> SUFFICES ASSUME ProfInv, [Prof!ProfNext]_(Prof!pvars)
             PROVE  ProfInv'
  OBVIOUS
<1> USE ManagerAssumption
<1>0. /\ prof \in Prof!Profs /\ pm.battery_is_low \in BOOLEAN /\ env.ppd_running \in BOOLEAN
      /\ Counted(prof) /\ (~env.ppd_running => prof.holds = {}) /\ HoldDue
      /\ prof.calls \in Seq(Prof!Calls) /\ prof.answers \in Seq(Prof!Answers)
      /\ prof.issued \in 0..MaxHolds /\ prof.made \in 0..MaxHolds
      /\ prof.holds \subseteq Prof!Cookies
  BY DEF ProfInv, Prof!ProfTypeOK, Prof!Profs
<1>1. CASE Prof!LowChanged
  <2>1. CASE pm.battery_is_low'
    <3>1. prof' = Prof!EnablePowerSaver(prof) /\ prof.made < MaxHolds
          /\ pm.battery_is_low' \in BOOLEAN /\ env.ppd_running' = env.ppd_running
      BY <1>1, <2>1 DEF Prof!LowChanged
    <3> QED
      BY <1>0, <3>1, SaverOps DEF ProfInv, Prof!ProfTypeOK, HoldDue
  <2>2. CASE ~pm.battery_is_low'
    <3>1. prof' = Prof!DisablePowerSaver(prof) /\ prof.made < MaxHolds
          /\ pm.battery_is_low' \in BOOLEAN /\ env.ppd_running' = env.ppd_running
      BY <1>1, <2>2 DEF Prof!LowChanged
    <3> QED
      BY <1>0, <2>2, <3>1, SaverOps DEF ProfInv, Prof!ProfTypeOK, HoldDue
  <2> QED
    BY <2>1, <2>2
<1>2. CASE Prof!PowerSaverSettingChanged
  <2> DEFINE p == [prof EXCEPT !.on_low_battery = ~@]
  <2>1. p \in Prof!Profs
    BY <1>0 DEF Prof!Profs
  <2>2. /\ p.made = prof.made /\ p.calls = prof.calls /\ p.issued = prof.issued
        /\ p.holds = prof.holds
    BY <1>0 DEF Prof!Profs
  <2>3. /\ prof' = IF pm.battery_is_low /\ p.on_low_battery
                   THEN Prof!EnablePowerSaver(p) ELSE Prof!DisablePowerSaver(p)
        /\ prof.made < MaxHolds
        /\ pm.battery_is_low' = pm.battery_is_low /\ env.ppd_running' = env.ppd_running
    BY <1>2 DEF Prof!PowerSaverSettingChanged
  <2> HIDE DEF p
  <2>4. Counted(p) /\ p.made < MaxHolds
    BY <1>0, <2>2, <2>3 DEF Counted
  <2>5. CASE pm.battery_is_low /\ p.on_low_battery
    BY <1>0, <2>1, <2>2, <2>3, <2>4, <2>5, SaverOps DEF ProfInv, Prof!ProfTypeOK, HoldDue
  <2>6. CASE ~(pm.battery_is_low /\ p.on_low_battery)
    <3>1. prof' = Prof!DisablePowerSaver(p)
      BY <2>3, <2>6
    <3> QED
      BY <1>0, <2>1, <2>2, <2>3, <2>4, <2>6, <3>1, SaverOps DEF ProfInv, Prof!ProfTypeOK, HoldDue
  <2> QED
    BY <2>5, <2>6
<1>3. CASE Prof!PpdShown
  <2>1. /\ prof' = [prof EXCEPT !.connected = TRUE] /\ env.ppd_running'
        /\ env.ppd_running' = TRUE /\ pm.battery_is_low' = pm.battery_is_low
    BY <1>3 DEF Prof!PpdShown
  <2>2. prof' \in Prof!Profs
    BY <1>0, <2>1 DEF Prof!Profs
  <2>3. /\ prof'.calls = prof.calls /\ prof'.answers = prof.answers /\ prof'.holds = prof.holds
        /\ prof'.issued = prof.issued /\ prof'.made = prof.made
        /\ prof'.power_saver_cookie = prof.power_saver_cookie
        /\ prof'.disturbed = prof.disturbed /\ prof'.on_low_battery = prof.on_low_battery
    BY <1>0, <2>1 DEF Prof!Profs
  <2> QED
    BY <1>0, <2>1, <2>2, <2>3 DEF ProfInv, Prof!ProfTypeOK, HoldDue, HoldComes, Counted
<1>4. CASE Prof!PpdGone
  <2>1. PICK disturbed \in BOOLEAN :
          /\ prof' = [prof EXCEPT !.connected = TRUE, !.holds = {}, !.disturbed = disturbed]
          /\ prof.disturbed \/ env.ppd_running => disturbed
    BY <1>0, <1>4 DEF Prof!PpdGone, Prof!Profs
  <2>2. env.ppd_running' = FALSE /\ pm.battery_is_low' = pm.battery_is_low
    BY <1>4 DEF Prof!PpdGone
  <2>3. prof' \in Prof!Profs
    BY <1>0, <2>1 DEF Prof!Profs
  <2>4. /\ prof'.calls = prof.calls /\ prof'.answers = prof.answers /\ prof'.holds = {}
        /\ prof'.issued = prof.issued /\ prof'.made = prof.made
        /\ prof'.disturbed = disturbed /\ prof'.on_low_battery = prof.on_low_battery
    BY <1>0, <2>1 DEF Prof!Profs
  <2>5. HoldDue'
    BY <1>0, <2>1, <2>2, <2>4 DEF HoldDue, HoldComes
  <2> QED
    BY <1>0, <2>2, <2>3, <2>4, <2>5 DEF ProfInv, Prof!ProfTypeOK, Counted
<1>5. CASE Prof!PpdServes
  <2> DEFINE call == Head(prof.calls)
             left == Tail(prof.calls)
             new  == prof.issued + 1
  <2>1. /\ prof.calls # <<>> /\ left \in Seq(Prof!Calls) /\ call \in Prof!Calls
        /\ call = prof.calls[1] /\ Len(left) = Len(prof.calls) - 1
        /\ Len(prof.calls) \in Nat \ {0}
        /\ left # <<>> => left[Len(left)] = prof.calls[Len(prof.calls)]
    BY <1>0, <1>5 DEF Prof!PpdServes
  <2>2. pm.battery_is_low' = pm.battery_is_low /\ env.ppd_running' = env.ppd_running
    BY <1>5 DEF Prof!PpdServes
  <2>3. /\ Cardinality(HoldsIn(left)) = IF call = Prof!Hold THEN Cardinality(HoldsIn(prof.calls)) - 1
                                        ELSE Cardinality(HoldsIn(prof.calls))
        /\ call = Prof!Hold => Cardinality(HoldsIn(prof.calls)) > 0
        /\ Cardinality(HoldsIn(prof.calls)) \in Nat
    BY <1>0, <2>1, HoldsInTail, HoldsInFinite
  <2> HIDE DEF call, left
  <2>4. ASSUME call = Prof!Hold, env.ppd_running,
               prof' = [prof EXCEPT !.calls = left, !.holds = @ \cup {new}, !.issued = new,
                                    !.answers = Append(@, Prof!Held(new))]
        PROVE  ProfInv'
    <3>1. new \in Prof!Cookies /\ new \in 0..MaxHolds
      BY <1>0, <2>3, <2>4 DEF Counted, Prof!Cookies
    <3>2. Prof!Held(new) \in Prof!Answers
      BY <3>1 DEF Prof!Answers
    <3>3. /\ Append(prof.answers, Prof!Held(new)) \in Seq(Prof!Answers)
          /\ Append(prof.answers, Prof!Held(new)) # <<>>
          /\ Append(prof.answers, Prof!Held(new))[Len(Append(prof.answers, Prof!Held(new)))]
               = Prof!Held(new)
      BY <1>0, <3>2
    <3>4. prof' \in Prof!Profs
      BY <1>0, <2>1, <2>4, <3>1, <3>3 DEF Prof!Profs
    <3>5. /\ prof'.calls = left /\ prof'.issued = new /\ prof'.made = prof.made
          /\ prof'.holds = prof.holds \cup {new} /\ prof'.disturbed = prof.disturbed
          /\ prof'.answers = Append(prof.answers, Prof!Held(new))
          /\ prof'.on_low_battery = prof.on_low_battery
      BY <1>0, <2>4 DEF Prof!Profs
    <3>6. Counted(prof')
      BY <1>0, <2>3, <2>4, <3>5 DEF Counted
    <3>7. HoldDue'
      BY <1>0, <2>1, <2>2, <3>3, <3>5 DEF HoldDue, HoldComes
    <3> QED
      BY <1>0, <2>2, <2>4, <3>4, <3>6, <3>7 DEF ProfInv, Prof!ProfTypeOK
  <2>5. ASSUME call = Prof!Hold,
               prof' = [prof EXCEPT !.calls = left, !.answers = Append(@, Prof!Failed),
                                    !.disturbed = TRUE]
        PROVE  ProfInv'
    <3>1. Append(prof.answers, Prof!Failed) \in Seq(Prof!Answers)
      BY <1>0 DEF Prof!Answers
    <3>2. prof' \in Prof!Profs
      BY <1>0, <2>1, <2>5, <3>1 DEF Prof!Profs
    <3>3. /\ prof'.calls = left /\ prof'.issued = prof.issued /\ prof'.made = prof.made
          /\ prof'.holds = prof.holds /\ prof'.disturbed
      BY <1>0, <2>5 DEF Prof!Profs
    <3> QED
      BY <1>0, <2>2, <2>3, <2>5, <3>2, <3>3 DEF ProfInv, Prof!ProfTypeOK, HoldDue, Counted
  <2>6. ASSUME call # Prof!Hold,
               prof' = [prof EXCEPT !.calls = left, !.holds = @ \ {call.cookie}]
        PROVE  ProfInv'
    <3>1. prof' \in Prof!Profs
      BY <1>0, <2>1, <2>6 DEF Prof!Profs
    <3>2. /\ prof'.calls = left /\ prof'.issued = prof.issued /\ prof'.made = prof.made
          /\ prof'.holds \subseteq prof.holds /\ prof'.disturbed = prof.disturbed
          /\ prof'.on_low_battery = prof.on_low_battery
      BY <1>0, <2>6 DEF Prof!Profs
    <3>3. prof.calls[Len(prof.calls)] = Prof!Hold => left # <<>>
      BY <2>1, <2>6
    <3>4. HoldDue'
      BY <1>0, <2>1, <2>2, <3>2, <3>3 DEF HoldDue, HoldComes
    <3> QED
      BY <1>0, <2>2, <2>3, <2>6, <3>1, <3>2, <3>4 DEF ProfInv, Prof!ProfTypeOK, Counted
  <2>7. \/ /\ call = Prof!Hold /\ env.ppd_running
           /\ prof' = [prof EXCEPT !.calls = left, !.holds = @ \cup {new}, !.issued = new,
                                   !.answers = Append(@, Prof!Held(new))]
        \/ /\ call = Prof!Hold
           /\ prof' = [prof EXCEPT !.calls = left, !.answers = Append(@, Prof!Failed),
                                   !.disturbed = TRUE]
        \/ /\ call # Prof!Hold
           /\ prof' = [prof EXCEPT !.calls = left, !.holds = @ \ {call.cookie}]
    BY <1>0, <1>5 DEF Prof!PpdServes, Prof!Profs, call, left
  <2> QED
    BY <2>4, <2>5, <2>6, <2>7
<1>6. CASE Prof!AnswerArrives
  <2> DEFINE answer == Head(prof.answers)
             left == Tail(prof.answers)
  <2>1. /\ prof.answers # <<>> /\ left \in Seq(Prof!Answers) /\ answer \in Prof!Answers
        /\ answer = prof.answers[1] /\ Len(left) = Len(prof.answers) - 1
        /\ Len(prof.answers) \in Nat \ {0}
        /\ left # <<>> => left[Len(left)] = prof.answers[Len(prof.answers)]
    BY <1>0, <1>6 DEF Prof!AnswerArrives
  <2>2. pm.battery_is_low' = pm.battery_is_low /\ env.ppd_running' = env.ppd_running
    BY <1>6 DEF Prof!AnswerArrives
  <2> HIDE DEF answer, left
  <2>3. \/ answer.kind = "error"
        \/ answer.kind = "held" /\ answer.cookie \in Prof!Cookies
        \/ answer.kind = "released"
    BY <2>1 DEF Prof!Answers, Prof!Failed, Prof!Held, Prof!Released
  <2>4. PICK cookie \in Prof!Cookies \cup {Prof!NoCookie} :
          /\ prof' = [prof EXCEPT !.answers = left, !.power_saver_cookie = cookie]
          /\ answer.kind = "held" => cookie = answer.cookie
    <3>1. CASE answer.kind = "error"
      BY <1>0, <1>6, <3>1 DEF Prof!AnswerArrives, Prof!Profs, answer, left
    <3>2. CASE answer.kind = "held" /\ answer.cookie \in Prof!Cookies
      BY <1>0, <1>6, <3>2 DEF Prof!AnswerArrives, Prof!Profs, answer, left
    <3>3. CASE answer.kind = "released"
      BY <1>0, <1>6, <3>3 DEF Prof!AnswerArrives, Prof!Profs, answer, left
    <3> QED
      BY <2>3, <3>1, <3>2, <3>3
  <2>5. prof' \in Prof!Profs
    BY <1>0, <2>1, <2>4 DEF Prof!Profs
  <2>6. /\ prof'.calls = prof.calls /\ prof'.answers = left /\ prof'.holds = prof.holds
        /\ prof'.issued = prof.issued /\ prof'.made = prof.made
        /\ prof'.power_saver_cookie = cookie
        /\ prof'.disturbed = prof.disturbed /\ prof'.on_low_battery = prof.on_low_battery
    BY <1>0, <2>4 DEF Prof!Profs
  <2>7. left = <<>> => answer = prof.answers[Len(prof.answers)]
    BY <2>1
  <2>8. answer = Prof!Held(prof.issued) => cookie = prof.issued
    BY <2>4 DEF Prof!Held
  <2>9. HoldDue'
    BY <1>0, <2>1, <2>2, <2>6, <2>7, <2>8 DEF HoldDue, HoldComes
  <2> QED
    BY <1>0, <2>2, <2>5, <2>6, <2>9 DEF ProfInv, Prof!ProfTypeOK, Counted
<1>7. CASE Prof!HoldsEnd
  <2> DEFINE signals == [i \in 1..Prof!Cardinality(prof.holds) |->
                           Prof!Released(Prof!SetToSeq(prof.holds)[i])]
  <2>1. /\ prof' = [prof EXCEPT !.holds = {}, !.disturbed = TRUE, !.answers = @ \o signals]
        /\ pm.battery_is_low' = pm.battery_is_low /\ env.ppd_running' = env.ppd_running
    BY <1>7 DEF Prof!HoldsEnd
  <2>2. IsFiniteSet(prof.holds)
    <3>1. prof.holds \in SUBSET (1..MaxHolds) /\ 1 \in Int /\ MaxHolds \in Int
      BY <1>0 DEF Prof!Cookies
    <3>2. IsFiniteSet(1..MaxHolds)
      BY <3>1, FS_Interval
    <3> QED
      BY <3>1, <3>2, FS_Subset
  <2>3. /\ Prof!Cardinality(prof.holds) \in Nat
        /\ Prof!SetToSeq(prof.holds) \in [1..Prof!Cardinality(prof.holds) -> prof.holds]
    BY <2>2, SetToSeqType, FS_CardinalityType
  <2>4. \A i \in 1..Prof!Cardinality(prof.holds) :
          Prof!Released(Prof!SetToSeq(prof.holds)[i]) \in Prof!Answers
    BY <1>0, <2>3 DEF Prof!Answers
  <2>5. signals \in Seq(Prof!Answers)
    BY <2>3, <2>4
  <2> HIDE DEF signals
  <2>6. prof.answers \o signals \in Seq(Prof!Answers)
    BY <1>0, <2>5
  <2>7. prof' \in Prof!Profs
    BY <1>0, <2>1, <2>6 DEF Prof!Profs
  <2>8. /\ prof'.calls = prof.calls /\ prof'.holds = {} /\ prof'.disturbed
        /\ prof'.issued = prof.issued /\ prof'.made = prof.made
    BY <1>0, <2>1 DEF Prof!Profs
  <2> QED
    BY <1>0, <2>1, <2>7, <2>8 DEF ProfInv, Prof!ProfTypeOK, HoldDue, Counted
<1>8. CASE UNCHANGED Prof!pvars
  BY <1>0, <1>8 DEF Prof!pvars, ProfInv, Prof!ProfTypeOK, HoldDue, HoldComes, Counted
<1> QED
  BY <1>1, <1>2, <1>3, <1>4, <1>5, <1>6, <1>7, <1>8 DEF Prof!ProfNext

-------------------------------------------------------------------------------
(* The theorems.                                                           *)

\* However batteries, UPSs and peripherals come, go and change, and whenever
\* the critical-action timers fire: the sound loop plays only while the
\* machine's battery is low and will be stopped, and a charged device keeps no
\* warning (gsd-power-manager.c: engine_device_warning_changed_cb,
\* engine_charge_critical, manager_critical_action_stop_sound_cb).
THEOREM WarningsCorrect == ManagerSpec => []WarningsEnd
<1>1. WarnInv => WarningsEnd
  BY DEF WarnInv
<1>2. Warn!WarnSpec => []WarningsEnd
  BY WarnInitInv, WarnNextInv, <1>1, PTL DEF Warn!WarnSpec
<1> QED
  BY <1>2, PartsCorrect, PTL DEF PartsInStep

\* However often the battery goes up and down and the setting is switched while
\* calls and answers are under way: once all is answered, a low battery has its
\* hold, under the cookie that will release it (gsd-power-manager.c:
\* enable_power_saver, disable_power_saver, hold_profile_cb,
\* power_profiles_proxy_signal_cb).
THEOREM HoldCorrect == ManagerSpec => []HeldWhileLow
<1>1. ProfInv => HeldWhileLow
  BY DEF ProfInv, HoldDue, HoldComes, HeldWhileLow, Prof!HeldWhileLow, Prof!Quiet
<1>2. Prof!ProfSpec => []HeldWhileLow
  BY ProfInitInv, ProfNextInv, <1>1, PTL DEF Prof!ProfSpec
<1> QED
  BY <1>2, PartsCorrect, PTL DEF PartsInStep

\* Every state of the daemon is well typed, all its parts together.
THEOREM ManagerTypeCorrect == ManagerSpec => []ManagerTypeOK
<1>1. Inh!InhSpec => []Inh!InhTypeOK
  <2>1. IInv => Inh!InhTypeOK
    BY DEF IInv
  <2> QED
    BY InitInv, NextInv, <2>1, PTL DEF Inh!InhSpec
<1>2. Prof!ProfSpec => []Prof!ProfTypeOK
  <2>1. ProfInv => Prof!ProfTypeOK
    BY DEF ProfInv
  <2> QED
    BY ProfInitInv, ProfNextInv, <2>1, PTL DEF Prof!ProfSpec
<1>3. Warn!WarnSpec => []Warn!WarnTypeOK
  <2>1. WarnInv => Warn!WarnTypeOK
    BY DEF WarnInv
  <2> QED
    BY WarnInitInv, WarnNextInv, <2>1, PTL DEF Warn!WarnSpec
<1>4. PartsInStep => [](TypeOK /\ Inh!InhTypeOK /\ Prof!ProfTypeOK /\ Warn!WarnTypeOK)
  BY <1>1, <1>2, <1>3, TypeCorrect, PTL DEF PartsInStep
<1>5. TypeOK /\ Inh!InhTypeOK /\ Prof!ProfTypeOK /\ Warn!WarnTypeOK => ManagerTypeOK
  BY DEF ManagerTypeOK
<1> QED
  BY <1>4, <1>5, PartsCorrect, PTL
==============================================================================
