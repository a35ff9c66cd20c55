--------------------------- MODULE KeySyncProofs ----------------------------
(***************************************************************************)
(* What gsd-media-keys has grabbed at the shell is what the settings say,   *)
(* no grab is forgotten, and the assertions of the code hold: for any       *)
(* number of keys, paths, bindings, shells and objects.                     *)
(***************************************************************************)
EXTENDS KeySync, FiniteSetTheorems, FunctionTheorems, TLAPS

-------------------------------------------------------------------------------
(* Types.                                                                  *)

\* The states between the steps of a callback.
States == [m : Managers, c : Seq(Calls), w : Worlds]

LEMMA HereTyped == KeysTypeOK <=> Here \in States
BY DEF KeysTypeOK, Here, States

\* A record is made of its fields.
LEMMA StateFields ==
  ASSUME NEW m \in Managers, NEW c \in Seq(Calls), NEW w \in Worlds
  PROVE  [m |-> m, c |-> c, w |-> w] \in States
BY DEF States

LEMMA FreeTyped ==
  ASSUME NEW s
  PROVE  Free(s) \subseteq Objects
BY DEF Free

\* Done frees what nobody refers to, and keeps the rest.
LEMMA DoneOps ==
  ASSUME NEW s \in States, Done(s)
  PROVE  /\ KeysTypeOK'
         /\ Here'.w = s.w /\ Here'.c = s.c
         /\ Here'.m = [s.m EXCEPT !.name = mk'.name, !.accel_ids = mk'.accel_ids]
         /\ \A o \in Objects :
              IF o \in Free(s) THEN mk'.accel_ids[o] = {}
              ELSE mk'.accel_ids[o] = s.m.accel_ids[o] /\ mk'.name[o] = s.m.name[o]
<1> USE DEF States
<1>1. (CHOOSE n \in Names : TRUE) \in Names
  BY KeySyncAssumption DEF Names
<1>2. s.m \in Managers /\ s.m.name \in [Objects -> Names]
        /\ s.m.accel_ids \in [Objects -> SUBSET Accels]
  BY DEF Managers
<1> DEFINE name == [o \in Objects |-> IF o \in Free(s) THEN CHOOSE n \in Names : TRUE ELSE s.m.name[o]]
           ids  == [o \in Objects |-> IF o \in Free(s) THEN {} ELSE s.m.accel_ids[o]]
<1>3. name \in [Objects -> Names] /\ ids \in [Objects -> SUBSET Accels]
  BY <1>1, <1>2
<1>4. mk' = [s.m EXCEPT !.name = name, !.accel_ids = ids] /\ calls' = s.c /\ world' = s.w
  BY <1>2 DEF Done, Managers
<1> HIDE DEF name, ids
<1>5. mk' \in Managers /\ mk'.name = name /\ mk'.accel_ids = ids
  BY <1>2, <1>3, <1>4 DEF Managers
<1>6. KeysTypeOK'
  BY <1>4, <1>5 DEF KeysTypeOK
<1>7. Here'.m = [s.m EXCEPT !.name = mk'.name, !.accel_ids = mk'.accel_ids]
  BY <1>4, <1>5 DEF Here
<1>8. Here'.w = s.w /\ Here'.c = s.c
  BY <1>4 DEF Here
<1> QED
  BY <1>5, <1>6, <1>7, <1>8 DEF name, ids

-------------------------------------------------------------------------------
(* Queueing.                                                               *)

\* A call that is cancelled, or no longer the current one, is otherwise as it was.
Alike(c, d) == d.kind = c.kind /\ d.to = c.to /\ d.items = c.items

LEMMA ForgetOps ==
  ASSUME NEW s \in States, NEW cancel
  PROVE  LET t == Forget(s, cancel)
         IN /\ t \in States /\ t.w = s.w /\ t.m = [s.m EXCEPT !.stuck = FALSE]
            /\ Len(t.c) = Len(s.c)
            /\ \A i \in 1 .. Len(s.c) : Alike(s.c[i], t.c[i])
<1> DEFINE call(i) == [s.c[i] EXCEPT !.cancelled = @ \/ (cancel /\ s.c[i].current), !.current = FALSE]
           cs == [i \in DOMAIN s.c |-> call(i)]
<1>1. s.m \in Managers /\ s.c \in Seq(Calls) /\ s.w \in Worlds /\ DOMAIN s.c = 1 .. Len(s.c)
  BY DEF States
<1>2. ASSUME NEW i \in 1 .. Len(s.c)
      PROVE  call(i) \in Calls /\ Alike(s.c[i], call(i))
  <2>1. s.c[i] \in Calls
    BY <1>1
  <2> DEFINE b == s.c[i].cancelled \/ (cancel /\ s.c[i].current)
  <2>2. b \in BOOLEAN
    OBVIOUS
  <2>3. call(i) = [s.c[i] EXCEPT !.cancelled = b, !.current = FALSE]
    BY <2>1 DEF Calls
  <2> HIDE DEF b, call
  <2> QED
    BY <2>1, <2>2, <2>3 DEF Calls, Alike
<1> HIDE DEF call
<1>3. cs \in Seq(Calls) /\ Len(cs) = Len(s.c)
  BY <1>1, <1>2
<1>4. Forget(s, cancel) = [s EXCEPT !.m.stuck = FALSE, !.c = cs]
  BY <1>1 DEF Forget, States, call
<1>8. \A i \in 1 .. Len(s.c) : cs[i] = call(i)
  BY <1>1
<1> HIDE DEF cs
<1>5. [s.m EXCEPT !.stuck = FALSE] \in Managers
  BY <1>1 DEF Managers
<1>6. Forget(s, cancel) = [m |-> [s.m EXCEPT !.stuck = FALSE], c |-> cs, w |-> s.w]
  BY <1>4 DEF States
<1>7. Forget(s, cancel) \in States
  BY <1>1, <1>3, <1>5, <1>6 DEF States
<1> QED
  BY <1>1, <1>2, <1>3, <1>6, <1>7, <1>8

LEMMA QueueOps ==
  ASSUME NEW s \in States
  PROVE  LET t == KeysSyncQueue(s, FALSE)
         IN t \in States /\ t.c = s.c /\ t.w = s.w /\ t.m = [s.m EXCEPT !.source = ~Syncing(s)]
<1> DEFINE b == ~Syncing(s)
           m == [s.m EXCEPT !.source = b]
<1>1. s.m \in Managers /\ s.c \in Seq(Calls) /\ s.w \in Worlds
  BY DEF States
<1>2. b \in BOOLEAN
  OBVIOUS
<1>3. KeysSyncQueue(s, FALSE) = [m |-> m, c |-> s.c, w |-> s.w]
  BY DEF KeysSyncQueue, States
<1> HIDE DEF b
<1>4. m \in Managers
  BY <1>1, <1>2 DEF Managers
<1>5. m = [s.m EXCEPT !.source = ~Syncing(s)]
  BY DEF b
<1> HIDE DEF m
<1> DEFINE t == KeysSyncQueue(s, FALSE)
<1>6. t = [m |-> m, c |-> s.c, w |-> s.w]
  BY <1>3
<1> HIDE DEF t
<1>7. t \in States
  BY <1>1, <1>4, <1>6, StateFields
<1>8. t.c = s.c /\ t.w = s.w /\ t.m = [s.m EXCEPT !.source = ~Syncing(s)]
  BY <1>5, <1>6
<1> QED
  BY <1>7, <1>8 DEF t

LEMMA RetryOps ==
  ASSUME NEW s \in States
  PROVE  LET t == KeysSyncQueue(s, TRUE)
         IN /\ t \in States /\ t.w = s.w
            /\ t.m = [s.m EXCEPT !.stuck = FALSE, !.source = TRUE,
                                 !.keys_to_sync = s.m.keys_to_sync \cup s.m.keys]
            /\ Len(t.c) = Len(s.c)
            /\ \A i \in 1 .. Len(s.c) : Alike(s.c[i], t.c[i])
<1> DEFINE f == Forget(s, TRUE)
           kts == s.m.keys_to_sync \cup s.m.keys
           m == [s.m EXCEPT !.stuck = FALSE, !.source = TRUE, !.keys_to_sync = kts]
<1>1. /\ f \in States /\ f.w = s.w /\ f.m = [s.m EXCEPT !.stuck = FALSE]
      /\ Len(f.c) = Len(s.c) /\ \A i \in 1 .. Len(s.c) : Alike(s.c[i], f.c[i])
  BY ForgetOps
<1>2. KeysSyncQueue(s, TRUE) = [f EXCEPT !.m.source = TRUE, !.m.keys_to_sync = @ \cup s.m.keys]
  BY DEF KeysSyncQueue
<1> HIDE DEF f
<1>3. s.m \in Managers /\ f.c \in Seq(Calls) /\ s.w \in Worlds
  BY <1>1 DEF States
<1>4. m \in Managers
  BY <1>3 DEF Managers
<1>5. f.m.keys_to_sync = s.m.keys_to_sync
  BY <1>1, <1>3 DEF Managers
<1>6. [f.m EXCEPT !.source = TRUE, !.keys_to_sync = f.m.keys_to_sync \cup s.m.keys] = m
  BY <1>1, <1>3, <1>5 DEF Managers
<1>7. KeysSyncQueue(s, TRUE)
        = [m |-> [f.m EXCEPT !.source = TRUE, !.keys_to_sync = f.m.keys_to_sync \cup s.m.keys],
           c |-> f.c, w |-> f.w]
  BY <1>1, <1>2 DEF States, Managers
<1> DEFINE t == KeysSyncQueue(s, TRUE)
<1>8. t = [m |-> m, c |-> f.c, w |-> s.w]
  BY <1>1, <1>6, <1>7
<1>9. m = [s.m EXCEPT !.stuck = FALSE, !.source = TRUE,
                      !.keys_to_sync = s.m.keys_to_sync \cup s.m.keys]
  OBVIOUS
<1> HIDE DEF m, t
<1>10. t \in States
  BY <1>1, <1>3, <1>4, <1>8, StateFields
<1>11. /\ t.w = s.w /\ t.m = m /\ Len(t.c) = Len(s.c)
       /\ \A i \in 1 .. Len(s.c) : Alike(s.c[i], t.c[i])
  BY <1>1, <1>8
<1> QED
  BY <1>9, <1>10, <1>11 DEF t

Kinds == {"ungrab", "grab", "immediate ungrab"}

\* Nothing is under way, and a call is made if there is a shell to call.
LEMMA CallOps ==
  ASSUME NEW s \in States, NEW kind \in Kinds, NEW items \in SUBSET (Objects \X Accels)
  PROVE  LET t == Call(s, kind, items)
         IN /\ t \in States /\ t.w = s.w
            /\ s.m.grabber = NoShell =>
                 t.m = [s.m EXCEPT !.stuck = TRUE] /\ Len(t.c) = Len(s.c)
            /\ s.m.grabber # NoShell =>
                 /\ t.m = [s.m EXCEPT !.stuck = FALSE]
                 /\ Len(t.c) = Len(s.c) + 1
                 /\ t.c[Len(s.c) + 1] = [kind |-> kind, to |-> s.m.grabber, items |-> items,
                                         granted |-> {}, cancelled |-> FALSE, current |-> TRUE]
            /\ \A i \in 1 .. Len(s.c) : Alike(s.c[i], t.c[i])
<1> DEFINE f == Forget(s, FALSE)
           t == Call(s, kind, items)
           call == [kind |-> kind, to |-> s.m.grabber, items |-> items,
                    granted |-> {}, cancelled |-> FALSE, current |-> TRUE]
<1>1. /\ f \in States /\ f.w = s.w /\ f.m = [s.m EXCEPT !.stuck = FALSE]
      /\ Len(f.c) = Len(s.c) /\ \A i \in 1 .. Len(s.c) : Alike(s.c[i], f.c[i])
  BY ForgetOps
<1>2. s.m \in Managers /\ f.c \in Seq(Calls) /\ s.w \in Worlds
  BY <1>1 DEF States
<1>3. CASE s.m.grabber = NoShell
  <2> DEFINE m == [s.m EXCEPT !.stuck = TRUE]
  <2>1. t = [f EXCEPT !.m.stuck = TRUE]
    BY <1>3 DEF Call
  <2>2. m = [s.m EXCEPT !.stuck = TRUE] /\ m \in Managers
    BY <1>2, <1>3 DEF Managers
  <2> HIDE DEF f, m
  <2>3. [f.m EXCEPT !.stuck = TRUE] = m
    BY <1>1, <1>2, <2>2 DEF Managers
  <2>4. t = [m |-> m, c |-> f.c, w |-> s.w]
    BY <1>1, <2>1, <2>3 DEF States
  <2>5. t \in States
    BY <1>1, <1>2, <2>2, <2>4, StateFields
  <2> QED
    BY <1>1, <1>3, <2>4, <2>5 DEF m
<1>4. CASE s.m.grabber # NoShell
  <2> DEFINE m == [s.m EXCEPT !.stuck = FALSE]
  <2>1. t = [f EXCEPT !.c = Append(f.c, call)]
    BY <1>1, <1>4 DEF Call, States
  <2>2. m = [s.m EXCEPT !.stuck = FALSE] /\ m \in Managers
    BY <1>2, <1>4 DEF Managers
  <2>3. call \in Calls
    BY <1>2, <1>4 DEF Calls, Managers, Kinds
  <2> HIDE DEF f, m, call
  <2>4. /\ Append(f.c, call) \in Seq(Calls) /\ Len(Append(f.c, call)) = Len(s.c) + 1
        /\ Append(f.c, call)[Len(s.c) + 1] = call
        /\ \A i \in 1 .. Len(s.c) : Append(f.c, call)[i] = f.c[i]
    BY <1>1, <1>2, <2>3
  <2>5. t = [m |-> m, c |-> Append(f.c, call), w |-> s.w]
    BY <1>1, <2>1, <2>2 DEF States
  <2>6. t \in States
    BY <1>2, <2>2, <2>4, <2>5, StateFields
  <2> QED
    BY <1>1, <1>4, <2>4, <2>5, <2>6 DEF m, call
<1> QED
  BY <1>3, <1>4

LEMMA ToUngrabTyped ==
  ASSUME NEW s \in States
  PROVE  ToUngrab(s) \in SUBSET (Objects \X Accels)
BY DEF ToUngrab, States, Managers

LEMMA ToGrabTyped ==
  ASSUME NEW s \in States
  PROVE  ToGrab(s) \in SUBSET (Objects \X Accels)
BY DEF ToGrab, States, Managers

LEMMA ContinueTyped ==
  ASSUME NEW s \in States
  PROVE  KeysSyncContinue(s) \in States
<1> DEFINE bare == [s EXCEPT !.m.keys_to_sync = {}]
<1>1. ToUngrab(s) \in SUBSET (Objects \X Accels) /\ ToGrab(s) \in SUBSET (Objects \X Accels)
  BY ToUngrabTyped, ToGrabTyped
<1>2. bare \in States
  BY DEF States, Managers
<1> HIDE DEF bare
<1>3. "ungrab" \in Kinds /\ "grab" \in Kinds
  BY DEF Kinds
<1>4. Call(s, "ungrab", ToUngrab(s)) \in States /\ Call(bare, "grab", ToGrab(s)) \in States
  BY <1>1, <1>2, <1>3, CallOps
<1> QED
  BY <1>4 DEF KeysSyncContinue, bare

-------------------------------------------------------------------------------
(* New keys.                                                               *)

LEMMA NamesFinite ==
  /\ IsFiniteSet(Names) /\ IsFiniteSet(Custom) /\ IsFiniteSet(Objects)
  /\ Cardinality(Names) \in Nat /\ Cardinality(Custom) \in Nat
<1>1. IsFiniteSet(Names)
  BY KeySyncAssumption, FS_Union DEF Names
<1>2. IsFiniteSet(Objects)
  BY KeySyncAssumption, FS_Interval DEF Objects
<1> QED
  BY <1>1, <1>2, KeySyncAssumption, FS_CardinalityType

\* Where there is room, each name has an object of its own.
LEMMA PlacesExist ==
  ASSUME NEW S, NEW T, IsFiniteSet(S), IsFiniteSet(T), Cardinality(S) <= Cardinality(T)
  PROVE  \E f \in [S -> T] : IsInjective(f)
<1> DEFINE k == Cardinality(S)
           l == Cardinality(T)
<1>1. k \in Nat /\ l \in Nat /\ ExistsBijection(1 .. k, S) /\ ExistsBijection(1 .. l, T)
  BY FS_CardinalityType
<1>2. ExistsBijection(S, 1 .. k)
  BY <1>1, Fun_ExistsBijSymmetric
<1>3. PICK g \in Bijection(S, 1 .. k) : TRUE
  BY <1>2 DEF ExistsBijection
<1>4. PICK h \in Bijection(1 .. l, T) : TRUE
  BY <1>1 DEF ExistsBijection
<1>5. /\ g \in [S -> 1 .. k] /\ \A x, y \in S : g[x] = g[y] => x = y
      /\ h \in [1 .. l -> T] /\ \A i, j \in 1 .. l : h[i] = h[j] => i = j
  BY <1>3, <1>4 DEF Bijection, Injection, IsInjective
<1>6. 1 .. k \subseteq 1 .. l
  BY <1>1
<1> HIDE DEF k, l
<1> DEFINE f == [x \in S |-> h[g[x]]]
<1>7. \A x \in S : g[x] \in 1 .. l
  BY <1>5, <1>6
<1>8. f \in [S -> T]
  BY <1>5, <1>7
<1>9. \A x, y \in S : h[g[x]] = h[g[y]] => x = y
  BY <1>5, <1>7
<1>10. IsInjective(f)
  BY <1>8, <1>9 DEF IsInjective
<1> QED
  BY <1>8, <1>10

\* media_key_new: each name has one of the new objects, which nobody referred to.
Adds(s, names, new, t) ==
  /\ t \in States /\ t.c = s.c /\ t.w = s.w
  /\ new \subseteq Free(s)
  /\ t.m = [s.m EXCEPT !.keys = s.m.keys \cup new, !.name = t.m.name]
  /\ \A o \in Objects \ new : t.m.name[o] = s.m.name[o]
  /\ \A o \in new : t.m.name[o] \in names
  /\ \A o, p \in new : t.m.name[o] = t.m.name[p] => o = p
  /\ \A n \in names : \E o \in new : t.m.name[o] = n

LEMMA AddKeysOps ==
  ASSUME NEW s \in States, NEW names \in SUBSET Names,
         Cardinality(Free(s)) >= Cardinality(names)
  PROVE  \E new : Adds(s, names, new, AddKeys(s, names))
<1> DEFINE place == Places(s, names)
           new == Range(place)
           name == [o \in Objects |-> IF o \in new THEN NameAt(place, o) ELSE s.m.name[o]]
           keys == s.m.keys \cup new
           t == AddKeys(s, names)
           m == [s.m EXCEPT !.keys = keys, !.name = name]
<1>1. s.m \in Managers /\ s.c \in Seq(Calls) /\ s.w \in Worlds
  BY DEF States
<1>2. s.m.name \in [Objects -> Names] /\ s.m.keys \in SUBSET Objects
  BY <1>1 DEF Managers
<1>3. IsFiniteSet(names) /\ IsFiniteSet(Free(s))
  BY NamesFinite, FreeTyped, FS_Subset
<1>4. Cardinality(names) \in Nat /\ Cardinality(Free(s)) \in Nat
  BY <1>3, FS_CardinalityType
<1>5. Cardinality(names) <= Cardinality(Free(s))
  BY <1>4
<1>6. \E f \in [names -> Free(s)] : IsInjective(f)
  BY <1>3, <1>5, PlacesExist
<1>7. place \in [names -> Free(s)] /\ IsInjective(place)
  BY <1>6 DEF Places
<1>8. t = [m |-> m, c |-> s.c, w |-> s.w]
  <2>1. t = [s EXCEPT !.m.keys = keys, !.m.name = name]
    BY Zenon DEF AddKeys
  <2> HIDE DEF keys, name, t
  <2> QED
    BY <1>1, <2>1 DEF States, Managers
<1> HIDE DEF place
<1>9. /\ new \subseteq Free(s)
      /\ \A o \in new : \E n \in names : place[n] = o
      /\ \A n \in names : place[n] \in new
      /\ \A n, k \in names : place[n] = place[k] => n = k
  BY <1>7 DEF Range, IsInjective
<1>10. new \subseteq Objects
  BY <1>9, FreeTyped
<1> HIDE DEF new
<1>11. ASSUME NEW o \in new
       PROVE  NameAt(place, o) \in names /\ place[NameAt(place, o)] = o
  BY <1>7, <1>9 DEF NameAt
<1>12. \A o \in new : name[o] \in names /\ place[name[o]] = o
  BY <1>10, <1>11
<1>13. \A o \in Objects \ new : name[o] = s.m.name[o]
  OBVIOUS
<1>14. name \in [Objects -> Names]
  BY <1>2, <1>11
<1>15. keys \in SUBSET Objects
  BY <1>2, <1>10
<1> HIDE DEF name, t, keys
<1>16. m \in Managers /\ m.name = name
  BY <1>1, <1>14, <1>15 DEF Managers
<1> HIDE DEF m
<1>17. t \in States /\ t.m = m /\ t.c = s.c /\ t.w = s.w
  BY <1>1, <1>8, <1>16, StateFields
<1>18. \A o, p \in new : name[o] = name[p] => o = p
  BY <1>12
<1>19. \A n \in names : \E o \in new : name[o] = n
  <2> SUFFICES ASSUME NEW n \in names PROVE name[place[n]] = n
    BY <1>9
  <2>1. place[n] \in new
    BY <1>9
  <2>2. name[place[n]] \in names /\ place[name[place[n]]] = place[n]
    BY <2>1, <1>12
  <2> QED
    BY <2>2, <1>9
<1>20. t.m = [s.m EXCEPT !.keys = s.m.keys \cup new, !.name = t.m.name]
  BY <1>16, <1>17 DEF m, keys
<1>21. Adds(s, names, new, t)
  BY <1>9, <1>12, <1>13, <1>16, <1>17, <1>18, <1>19, <1>20 DEF Adds
<1> QED
  BY <1>21 DEF t

\* update_custom_binding for paths: new keys in place of old ones.
Updates(s, paths, old, new, t) ==
  /\ t \in States /\ t.c = s.c /\ t.w = s.w
  /\ old \subseteq s.m.keys /\ new \subseteq Free(s)
  /\ \A o \in old : s.m.name[o] \in paths
  /\ \A o \in s.m.keys : s.m.name[o] \in paths =>
       \E p \in old : s.m.name[p] = s.m.name[o]
  /\ t.m.keys = (s.m.keys \ old) \cup new
  /\ t.m.keys_to_sync = s.m.keys_to_sync \cup old \cup new
  /\ t.m.custom_settings = s.m.custom_settings \cup paths
  /\ t.m.source = ~Syncing(s) /\ t.m.stuck = s.m.stuck
  /\ t.m.grabber = s.m.grabber /\ t.m.connecting = s.m.connecting
  /\ t.m.accel_ids = s.m.accel_ids
  /\ \A o \in Objects \ new : t.m.name[o] = s.m.name[o]
  /\ \A o \in new : t.m.name[o] \in paths /\ Complete(s, t.m.name[o])
  /\ \A o, p \in new : t.m.name[o] = t.m.name[p] => o = p
  /\ \A n \in paths : Complete(s, n) => \E o \in new : t.m.name[o] = n

LEMMA ReplacedOps ==
  ASSUME NEW s, NEW paths
  PROVE  /\ Replaced(s, paths) \subseteq s.m.keys
         /\ \A o \in Replaced(s, paths) : s.m.name[o] \in paths
         /\ \A o \in s.m.keys : s.m.name[o] \in paths =>
              \E p \in Replaced(s, paths) : s.m.name[p] = s.m.name[o]
<1> DEFINE First(named) == CHOOSE o \in named : TRUE
<1>1. Replaced(s, paths) = {First(named) : named \in {KeysNamed(s, path) : path \in paths} \ {{}}}
  BY DEF Replaced
<1>2. ASSUME NEW named, named # {} PROVE First(named) \in named
  BY <1>2
<1> HIDE DEF First
<1>3. ASSUME NEW o \in Replaced(s, paths) PROVE o \in s.m.keys /\ s.m.name[o] \in paths
  <2>1. PICK named \in {KeysNamed(s, path) : path \in paths} \ {{}} : o = First(named)
    BY <1>1, <1>3
  <2>2. PICK path \in paths : named = KeysNamed(s, path)
    BY <2>1
  <2> QED
    BY <1>2, <2>1, <2>2 DEF KeysNamed
<1>4. ASSUME NEW o \in s.m.keys, s.m.name[o] \in paths
      PROVE  \E p \in Replaced(s, paths) : s.m.name[p] = s.m.name[o]
  <2> DEFINE named == KeysNamed(s, s.m.name[o])
  <2>1. named # {} /\ named \in {KeysNamed(s, path) : path \in paths}
    BY <1>4 DEF KeysNamed
  <2>2. First(named) \in Replaced(s, paths) /\ First(named) \in named
    BY <1>1, <1>2, <2>1
  <2> QED
    BY <2>2 DEF KeysNamed
<1> QED
  BY <1>3, <1>4

LEMMA UpdateOps ==
  ASSUME NEW s \in States, NEW paths \in SUBSET Custom,
         Cardinality(Free(s)) >= Cardinality(Names) + Cardinality(Custom)
  PROVE  \E old, new : Updates(s, paths, old, new, UpdateCustomBindings(s, paths))
<1> DEFINE old == Replaced(s, paths)
           complete == {path \in paths : Complete(s, path)}
           gone == [s EXCEPT !.m.keys = @ \ old, !.m.keys_to_sync = @ \cup old,
                             !.m.custom_settings = @ \cup paths]
           m == [s.m EXCEPT !.keys = @ \ old, !.keys_to_sync = @ \cup old,
                            !.custom_settings = @ \cup paths]
           a == AddKeys(gone, complete)
           q == [a EXCEPT !.m.keys_to_sync = @ \cup (a.m.keys \ gone.m.keys)]
           t == KeysSyncQueue(q, FALSE)
<1>1. s.m \in Managers /\ s.c \in Seq(Calls) /\ s.w \in Worlds
  BY DEF States
<1>2. /\ old \subseteq s.m.keys /\ \A o \in old : s.m.name[o] \in paths
      /\ \A o \in s.m.keys : s.m.name[o] \in paths => \E p \in old : s.m.name[p] = s.m.name[o]
  BY ReplacedOps
<1> HIDE DEF old
<1>3. m \in Managers
  BY <1>1, <1>2 DEF Managers
<1>4. gone = [m |-> m, c |-> s.c, w |-> s.w]
  <2> DEFINE k == s.m.keys \ old
             l == s.m.keys_to_sync \cup old
             cs == s.m.custom_settings \cup paths
  <2>1. gone = [s EXCEPT !.m.keys = k, !.m.keys_to_sync = l, !.m.custom_settings = cs]
    BY Zenon
  <2>2. m = [s.m EXCEPT !.keys = k, !.keys_to_sync = l, !.custom_settings = cs]
    BY Zenon
  <2> HIDE DEF gone, m, k, l, cs
  <2> QED
    BY <1>1, <2>1, <2>2 DEF States, Managers
<1>5. /\ m.keys = s.m.keys \ old /\ m.keys_to_sync = s.m.keys_to_sync \cup old
      /\ m.custom_settings = s.m.custom_settings \cup paths
      /\ m.name = s.m.name /\ m.accel_ids = s.m.accel_ids /\ m.source = s.m.source
      /\ m.stuck = s.m.stuck /\ m.grabber = s.m.grabber /\ m.connecting = s.m.connecting
  BY <1>1 DEF Managers
<1> HIDE DEF m, gone
<1>6. gone \in States /\ gone.m = m /\ gone.c = s.c /\ gone.w = s.w
  BY <1>1, <1>3, <1>4, StateFields
<1>7. Free(gone) = Free(s)
  BY <1>2, <1>5, <1>6 DEF Free, Referenced
<1>8. complete \in SUBSET Names /\ Cardinality(Free(gone)) >= Cardinality(complete)
  <2>1. complete \in SUBSET Names
    BY DEF Names
  <2>2. IsFiniteSet(complete) /\ Cardinality(complete) \in Nat
        /\ Cardinality(complete) <= Cardinality(Names)
    BY <2>1, NamesFinite, FS_Subset, FS_CardinalityType
  <2>3. Cardinality(Free(s)) \in Nat
    BY NamesFinite, FreeTyped, FS_Subset, FS_CardinalityType
  <2> HIDE DEF complete
  <2> QED
    BY <1>7, <2>1, <2>2, <2>3, NamesFinite
<1> HIDE DEF a
<1>9. PICK new : Adds(gone, complete, new, a)
  BY <1>6, <1>8, AddKeysOps DEF a
<1>10. a \in States /\ a.m \in Managers /\ a.c \in Seq(Calls) /\ a.w \in Worlds
  BY <1>9 DEF Adds, States
<1>11. /\ a.m.keys = m.keys \cup new /\ a.m.keys_to_sync = m.keys_to_sync
       /\ a.m.custom_settings = m.custom_settings /\ a.m.accel_ids = m.accel_ids
       /\ a.m.stuck = m.stuck /\ a.m.grabber = m.grabber /\ a.m.connecting = m.connecting
  BY <1>3, <1>6, <1>9 DEF Adds, Managers
<1>12. new \subseteq Free(s) /\ new \cap s.m.keys = {}
  BY <1>7, <1>9 DEF Adds, Free, Referenced
<1>13. a.m.keys \ gone.m.keys = new
  BY <1>5, <1>6, <1>11, <1>12
<1> DEFINE n == [a.m EXCEPT !.keys_to_sync = a.m.keys_to_sync \cup new]
<1>14. q = [m |-> n, c |-> a.c, w |-> a.w]
  <2> DEFINE l == a.m.keys_to_sync \cup (a.m.keys \ gone.m.keys)
  <2>1. q = [a EXCEPT !.m.keys_to_sync = l]
    BY Zenon
  <2>2. l = a.m.keys_to_sync \cup new
    BY <1>13
  <2> HIDE DEF l, q
  <2> QED
    BY <1>10, <2>1, <2>2 DEF States
<1>15. n \in Managers /\ n.keys_to_sync = a.m.keys_to_sync \cup new
  BY <1>10, <1>12, FreeTyped DEF Managers
<1>16. /\ n.keys = a.m.keys /\ n.name = a.m.name
       /\ n.custom_settings = a.m.custom_settings /\ n.accel_ids = a.m.accel_ids
       /\ n.stuck = a.m.stuck /\ n.grabber = a.m.grabber /\ n.connecting = a.m.connecting
  BY <1>10 DEF Managers
<1> HIDE DEF n, q
<1>17. q \in States /\ q.m = n /\ q.c = s.c /\ q.w = s.w
  BY <1>6, <1>9, <1>10, <1>14, <1>15, StateFields DEF Adds
<1>18. t \in States /\ t.c = s.c /\ t.w = s.w /\ t.m = [n EXCEPT !.source = ~Syncing(q)]
  BY <1>17, QueueOps
<1>19. Syncing(q) <=> Syncing(s)
  BY <1>5, <1>11, <1>16, <1>17 DEF Syncing
<1> HIDE DEF t
<1>20. /\ t.m.keys = n.keys /\ t.m.keys_to_sync = n.keys_to_sync /\ t.m.name = n.name
       /\ t.m.custom_settings = n.custom_settings /\ t.m.accel_ids = n.accel_ids
       /\ t.m.stuck = n.stuck /\ t.m.grabber = n.grabber /\ t.m.connecting = n.connecting
  BY <1>15, <1>18 DEF Managers
<1>21. t.m.source = ~Syncing(q)
  BY <1>15, <1>18 DEF Managers
<1>22. t.m.source = ~Syncing(s)
  BY <1>19, <1>21
<1>23. /\ t.m.keys = (s.m.keys \ old) \cup new
       /\ t.m.keys_to_sync = s.m.keys_to_sync \cup old \cup new
       /\ t.m.custom_settings = s.m.custom_settings \cup paths
  BY <1>5, <1>11, <1>15, <1>16, <1>20
<1>24. /\ t.m.stuck = s.m.stuck /\ t.m.grabber = s.m.grabber
       /\ t.m.connecting = s.m.connecting /\ t.m.accel_ids = s.m.accel_ids
       /\ t.m.name = a.m.name
  BY <1>5, <1>11, <1>16, <1>20
<1>26. /\ \A o \in Objects \ new : t.m.name[o] = s.m.name[o]
       /\ \A o \in new : t.m.name[o] \in complete
       /\ \A o, p \in new : t.m.name[o] = t.m.name[p] => o = p
       /\ \A k \in complete : \E o \in new : t.m.name[o] = k
  BY <1>5, <1>6, <1>9, <1>24 DEF Adds
<1>27. Updates(s, paths, old, new, t)
  BY <1>2, <1>12, <1>18, <1>22, <1>23, <1>24, <1>26 DEF Updates
<1>28. UpdateCustomBindings(s, paths) = t
  BY Zenon DEF UpdateCustomBindings, t, q, a, gone, old
<1> QED
  BY <1>27, <1>28

\* gsettings_custom_changed_cb drops the keys whose paths are not in list.
LEMMA RemoveOps ==
  ASSUME NEW s \in States, NEW list
  PROVE  LET t == RemoveCustom(s, list)
             gone == {o \in CustomKeys(s) : s.m.name[o] \notin list}
         IN /\ t \in States /\ t.c = s.c /\ t.w = s.w
            /\ t.m.keys = s.m.keys \ gone
            /\ t.m.keys_to_sync = s.m.keys_to_sync \cup gone
            /\ t.m.custom_settings = s.m.custom_settings \ {s.m.name[o] : o \in gone}
            /\ t.m.name = s.m.name /\ t.m.accel_ids = s.m.accel_ids
            /\ t.m.source = s.m.source /\ t.m.stuck = s.m.stuck
            /\ t.m.grabber = s.m.grabber /\ t.m.connecting = s.m.connecting
<1> DEFINE t == RemoveCustom(s, list)
           gone == {o \in CustomKeys(s) : s.m.name[o] \notin list}
           k == s.m.keys \ gone
           l == s.m.keys_to_sync \cup gone
           cs == s.m.custom_settings \ {s.m.name[o] : o \in gone}
           m == [s.m EXCEPT !.keys = k, !.keys_to_sync = l, !.custom_settings = cs]
<1>1. s.m \in Managers /\ s.c \in Seq(Calls) /\ s.w \in Worlds
  BY DEF States
<1>2. t = [s EXCEPT !.m.keys = k, !.m.keys_to_sync = l, !.m.custom_settings = cs]
  BY Zenon DEF RemoveCustom
<1>3. k \in SUBSET Objects /\ l \in SUBSET Objects /\ cs \in SUBSET Custom
  BY <1>1 DEF Managers, CustomKeys
<1> HIDE DEF k, l, cs, t
<1>4. t = [m |-> m, c |-> s.c, w |-> s.w]
  BY <1>1, <1>2 DEF States, Managers
<1>5. m \in Managers
  BY <1>1, <1>3 DEF Managers
<1>6. /\ m.keys = k /\ m.keys_to_sync = l /\ m.custom_settings = cs
      /\ m.name = s.m.name /\ m.accel_ids = s.m.accel_ids
      /\ m.source = s.m.source /\ m.stuck = s.m.stuck
      /\ m.grabber = s.m.grabber /\ m.connecting = s.m.connecting
  BY <1>1 DEF Managers
<1> HIDE DEF m
<1>7. t \in States /\ t.m = m /\ t.c = s.c /\ t.w = s.w
  BY <1>1, <1>4, <1>5, StateFields
<1> QED
  BY <1>6, <1>7 DEF t, k, l, cs

\* init_kbd: a key of each name there is, and all of them are to be grabbed.
Starts(s, new, t) ==
  /\ t \in States /\ t.w = s.w
  /\ Len(t.c) = Len(s.c) /\ \A i \in 1 .. Len(s.c) : Alike(s.c[i], t.c[i])
  /\ new \subseteq Free(s)
  /\ t.m.keys = s.m.keys \cup new
  /\ t.m.keys_to_sync = s.m.keys_to_sync \cup s.m.keys \cup new
  /\ t.m.custom_settings = s.m.custom_settings \cup s.w.listed
  /\ t.m.source = TRUE /\ t.m.stuck = FALSE
  /\ t.m.grabber = s.m.grabber /\ t.m.connecting = s.m.connecting
  /\ t.m.accel_ids = s.m.accel_ids
  /\ \A o \in Objects \ new : t.m.name[o] = s.m.name[o]
  /\ \A o \in new : t.m.name[o] \in Fixed \cup s.w.listed
  /\ \A o, p \in new : t.m.name[o] = t.m.name[p] => o = p
  /\ \A n \in Fixed \cup s.w.listed :
       n \in Fixed \/ Complete(s, n) => \E o \in new : t.m.name[o] = n

LEMMA InitKbdOps ==
  ASSUME NEW s \in States, Cardinality(Free(s)) >= Cardinality(Names)
  PROVE  \E new : Starts(s, new, InitKbd(s))
<1> DEFINE cs == s.m.custom_settings \cup s.w.listed
           b == [s EXCEPT !.m.custom_settings = cs]
           m == [s.m EXCEPT !.custom_settings = cs]
           names == Fixed \cup {n \in s.w.listed : Complete(s, n)}
           a == AddKeys(b, names)
           t == KeysSyncQueue(a, TRUE)
<1>1. s.m \in Managers /\ s.c \in Seq(Calls) /\ s.w \in Worlds
  BY DEF States
<1>2. cs \in SUBSET Custom
  BY <1>1 DEF Managers, Worlds
<1> HIDE DEF cs
<1>3. m \in Managers
  BY <1>1, <1>2 DEF Managers
<1>20. b = [m |-> m, c |-> s.c, w |-> s.w]
  BY <1>1 DEF States
<1>4. /\ m.keys = s.m.keys /\ m.keys_to_sync = s.m.keys_to_sync /\ m.custom_settings = cs
      /\ m.name = s.m.name /\ m.accel_ids = s.m.accel_ids
      /\ m.grabber = s.m.grabber /\ m.connecting = s.m.connecting
  BY <1>1 DEF Managers
<1> HIDE DEF b, m
<1>5. b \in States /\ b.m = m /\ b.c = s.c /\ b.w = s.w
  BY <1>1, <1>3, <1>20, StateFields
<1>6. Free(b) = Free(s)
  BY <1>4, <1>5 DEF Free, Referenced
<1>7. names \in SUBSET Names
  BY <1>1 DEF Names, Worlds
<1>8. Cardinality(Free(b)) >= Cardinality(names)
  <2>1. Cardinality(names) \in Nat /\ Cardinality(names) <= Cardinality(Names)
    BY <1>7, NamesFinite, FS_Subset, FS_CardinalityType
  <2>2. Cardinality(Free(s)) \in Nat
    BY NamesFinite, FreeTyped, FS_Subset, FS_CardinalityType
  <2> HIDE DEF names
  <2> QED
    BY <1>6, <2>1, <2>2, NamesFinite
<1> HIDE DEF a
<1>9. PICK new : Adds(b, names, new, a)
  BY <1>5, <1>7, <1>8, AddKeysOps DEF a
<1>10. a \in States /\ a.m \in Managers /\ a.c = s.c /\ a.w = s.w
  BY <1>5, <1>9 DEF Adds, States
<1>11. /\ a.m.keys = s.m.keys \cup new /\ a.m.keys_to_sync = s.m.keys_to_sync
       /\ a.m.custom_settings = cs /\ a.m.accel_ids = s.m.accel_ids
       /\ a.m.grabber = s.m.grabber /\ a.m.connecting = s.m.connecting
  BY <1>3, <1>4, <1>5, <1>9 DEF Adds, Managers
<1>12. new \subseteq Free(s)
  BY <1>6, <1>9 DEF Adds
<1>13. /\ t \in States /\ t.w = a.w
       /\ t.m = [a.m EXCEPT !.stuck = FALSE, !.source = TRUE,
                            !.keys_to_sync = a.m.keys_to_sync \cup a.m.keys]
       /\ Len(t.c) = Len(a.c) /\ \A i \in 1 .. Len(a.c) : Alike(a.c[i], t.c[i])
  BY <1>10, RetryOps
<1> HIDE DEF t
<1> DEFINE l == a.m.keys_to_sync \cup a.m.keys
<1> HIDE DEF l
<1>14. t.m = [a.m EXCEPT !.stuck = FALSE, !.source = TRUE, !.keys_to_sync = l]
  BY <1>13 DEF l
<1>15. /\ t.m.keys = a.m.keys /\ t.m.keys_to_sync = l /\ t.m.name = a.m.name
       /\ t.m.custom_settings = a.m.custom_settings /\ t.m.accel_ids = a.m.accel_ids
       /\ t.m.source = TRUE /\ t.m.stuck = FALSE
       /\ t.m.grabber = a.m.grabber /\ t.m.connecting = a.m.connecting
  BY <1>10, <1>14 DEF Managers
<1>16. /\ t.m.keys = s.m.keys \cup new
       /\ t.m.keys_to_sync = s.m.keys_to_sync \cup s.m.keys \cup new
       /\ t.m.custom_settings = s.m.custom_settings \cup s.w.listed
  BY <1>11, <1>15 DEF l, cs
<1>17. /\ \A o \in Objects \ new : t.m.name[o] = s.m.name[o]
       /\ \A o \in new : t.m.name[o] \in names
       /\ \A o, p \in new : t.m.name[o] = t.m.name[p] => o = p
       /\ \A n \in names : \E o \in new : t.m.name[o] = n
  BY <1>4, <1>5, <1>9, <1>15 DEF Adds
<1>18. Starts(s, new, t)
  BY <1>10, <1>11, <1>12, <1>13, <1>15, <1>16, <1>17 DEF Starts
<1>19. InitKbd(s) = t
  BY Zenon DEF InitKbd, t, a, b, cs
<1> QED
  BY <1>18, <1>19

\* shell_presence_changed
LEMMA PresenceOps ==
  ASSUME NEW s \in States
  PROVE  LET t == PresenceChanged(s)
         IN /\ t \in States /\ t.c = s.c /\ t.w = s.w
            /\ t.m.keys = {} /\ t.m.grabber = NoShell
            /\ t.m.connecting = s.m.connecting \cup ({s.w.owner} \ {NoShell})
            /\ t.m.keys_to_sync = s.m.keys_to_sync /\ t.m.name = s.m.name
            /\ t.m.custom_settings = s.m.custom_settings /\ t.m.accel_ids = s.m.accel_ids
            /\ t.m.source = s.m.source /\ t.m.stuck = s.m.stuck
<1> DEFINE t == PresenceChanged(s)
           k == s.m.connecting \cup ({s.w.owner} \ {NoShell})
           m == [s.m EXCEPT !.keys = {}, !.grabber = NoShell, !.connecting = k]
<1>1. s.m \in Managers /\ s.c \in Seq(Calls) /\ s.w \in Worlds
  BY DEF States
<1>2. t = [s EXCEPT !.m.keys = {}, !.m.grabber = NoShell, !.m.connecting = k]
  BY Zenon DEF PresenceChanged
<1>3. k \in SUBSET Shells
  BY <1>1 DEF Managers, Worlds
<1> HIDE DEF k, t
<1>4. t = [m |-> m, c |-> s.c, w |-> s.w]
  BY <1>1, <1>2 DEF States, Managers
<1>5. m \in Managers
  BY <1>1, <1>3 DEF Managers
<1>6. /\ m.keys = {} /\ m.grabber = NoShell /\ m.connecting = k
      /\ m.keys_to_sync = s.m.keys_to_sync /\ m.name = s.m.name
      /\ m.custom_settings = s.m.custom_settings /\ m.accel_ids = s.m.accel_ids
      /\ m.source = s.m.source /\ m.stuck = s.m.stuck
  BY <1>1 DEF Managers
<1> HIDE DEF m
<1>7. t \in States /\ t.m = m /\ t.c = s.c /\ t.w = s.w
  BY <1>1, <1>4, <1>5, StateFields
<1> QED
  BY <1>6, <1>7 DEF t, k

-------------------------------------------------------------------------------
(* The callbacks are typed.                                                *)

\* Writing the objects' ids.
WithIds(s, ids) == [s EXCEPT !.m.accel_ids = ids]

LEMMA IdsOps ==
  ASSUME NEW s \in States, NEW ids \in [Objects -> SUBSET Accels]
  PROVE  LET t == WithIds(s, ids)
         IN t \in States /\ t.c = s.c /\ t.w = s.w /\ t.m = [s.m EXCEPT !.accel_ids = ids]
<1> DEFINE t == WithIds(s, ids)
           m == [s.m EXCEPT !.accel_ids = ids]
<1>1. s.m \in Managers /\ s.c \in Seq(Calls) /\ s.w \in Worlds
  BY DEF States
<1>2. t = [m |-> m, c |-> s.c, w |-> s.w]
  BY <1>1 DEF States, WithIds
<1>3. m \in Managers
  BY <1>1 DEF Managers
<1>4. m = [s.m EXCEPT !.accel_ids = ids]
  OBVIOUS
<1> HIDE DEF t, m
<1>5. t \in States /\ t.m = m /\ t.c = s.c /\ t.w = s.w
  BY <1>1, <1>2, <1>3, StateFields
<1> QED
  BY <1>4, <1>5 DEF t

\* The ids after an ungrab of call, and after it was granted those of granted.
Cleared(s, call) == [o \in Objects |-> IF o \in ObjectsOf(call.items) THEN {} ELSE s.m.accel_ids[o]]
Given(s, granted) ==
  [o \in Objects |-> s.m.accel_ids[o] \cup {i[2] : i \in {g \in granted : g[1] = o}}]

LEMMA IdsTyped ==
  ASSUME NEW s \in States, NEW call, NEW granted \in SUBSET (Objects \X Accels)
  PROVE  Cleared(s, call) \in [Objects -> SUBSET Accels] /\ Given(s, granted) \in [Objects -> SUBSET Accels]
<1>1. s.m.accel_ids \in [Objects -> SUBSET Accels]
  BY DEF States, Managers
<1>2. \A o : {i[2] : i \in {g \in granted : g[1] = o}} \subseteq Accels
  OBVIOUS
<1> QED
  BY <1>1, <1>2 DEF Cleared, Given

\* ungrab_accelerators_complete, in terms of the ids it clears.
LEMMA UngrabOps ==
  ASSUME NEW s \in States, NEW call, NEW outcome
  PROVE  LET t == UngrabComplete(s, call, outcome)
             cleared == WithIds(s, Cleared(s, call))
         IN /\ t \in States
            /\ cleared \in States
            /\ t = IF outcome = "unknown method" THEN KeysSyncQueue(s, TRUE)
                   ELSE IF call.cancelled THEN cleared ELSE KeysSyncContinue(cleared)
<1> DEFINE t == UngrabComplete(s, call, outcome)
           cleared == WithIds(s, Cleared(s, call))
<1>1. Cleared(s, call) \in [Objects -> SUBSET Accels]
  BY IdsTyped
<1>2. cleared \in States
  BY <1>1, IdsOps
<1>3. cleared = [s EXCEPT !.m.accel_ids =
                    [o \in Objects |-> IF o \in ObjectsOf(call.items) THEN {} ELSE @[o]]]
  BY DEF Cleared, WithIds
<1>4. t = IF outcome = "unknown method" THEN KeysSyncQueue(s, TRUE)
          ELSE IF call.cancelled THEN cleared ELSE KeysSyncContinue(cleared)
  BY <1>3, Zenon DEF UngrabComplete, Retry
<1>5. KeysSyncQueue(s, TRUE) \in States
  BY RetryOps
<1> HIDE DEF cleared, t
<1>6. KeysSyncContinue(cleared) \in States
  BY <1>2, ContinueTyped
<1> QED
  BY <1>2, <1>4, <1>5, <1>6 DEF cleared, t

\* grab_accelerators_complete, in terms of the ids that are given.
LEMMA GrabOps ==
  ASSUME NEW s \in States, NEW call \in Calls, NEW outcome, NEW granted \in SUBSET call.items
  PROVE  LET t == GrabComplete(s, call, outcome, granted)
             given == WithIds(s, Given(s, granted))
         IN /\ t \in States
            /\ given \in States
<1> DEFINE t == GrabComplete(s, call, outcome, granted)
           given == WithIds(s, Given(s, granted))
           undo == [call EXCEPT !.kind = "immediate ungrab", !.granted = granted]
           later == [s EXCEPT !.c = Append(@, undo)]
<1>1. Given(s, granted) \in [Objects -> SUBSET Accels]
  BY IdsTyped DEF Calls
<1>2. given \in States
  BY <1>1, IdsOps
<1>3. given = [s EXCEPT !.m.accel_ids =
                  [o \in Objects |-> @[o] \cup {i[2] : i \in {g \in granted : g[1] = o}}]]
  BY DEF Given, WithIds
<1>4. t = IF outcome = "unknown method" THEN KeysSyncQueue(s, TRUE)
          ELSE IF outcome = "failed" THEN KeysSyncContinue(s)
          ELSE IF call.cancelled THEN later ELSE KeysSyncContinue(given)
  BY <1>3, Zenon DEF GrabComplete, Retry
<1>5. KeysSyncQueue(s, TRUE) \in States /\ KeysSyncContinue(s) \in States
  BY RetryOps, ContinueTyped
<1>6. later \in States
  <2>1. undo \in Calls
    BY DEF Calls
  <2> HIDE DEF undo
  <2> QED
    BY <2>1 DEF States
<1> HIDE DEF given, t, later
<1>7. KeysSyncContinue(given) \in States
  BY <1>2, ContinueTyped
<1> QED
  BY <1>2, <1>4, <1>5, <1>6, <1>7 DEF given, t

LEMMA GivenOps ==
  ASSUME NEW s, NEW call, NEW granted, ~call.cancelled
  PROVE  GrabComplete(s, call, "done", granted) = KeysSyncContinue(WithIds(s, Given(s, granted)))
<1> DEFINE given == WithIds(s, Given(s, granted))
           later == [s EXCEPT !.c = Append(@, [call EXCEPT !.kind = "immediate ungrab", !.granted = granted])]
<1>1. given = [s EXCEPT !.m.accel_ids =
                  [o \in Objects |-> @[o] \cup {i[2] : i \in {g \in granted : g[1] = o}}]]
  BY DEF Given, WithIds
<1>2. GrabComplete(s, call, "done", granted)
        = IF "done" = "unknown method" THEN KeysSyncQueue(s, TRUE)
          ELSE IF "done" = "failed" THEN KeysSyncContinue(s)
          ELSE IF call.cancelled THEN later ELSE KeysSyncContinue(given)
  BY <1>1, Zenon DEF GrabComplete, Retry
<1> HIDE DEF given, later
<1>3. GrabComplete(s, call, "done", granted) = KeysSyncContinue(given)
  BY <1>2
<1> QED
  BY <1>3 DEF given

LEMMA MissedOps ==
  ASSUME NEW s, NEW call
  PROVE  /\ GrabComplete(s, call, "unknown method", {}) = KeysSyncQueue(s, TRUE)
         /\ GrabComplete(s, call, "failed", {}) = KeysSyncContinue(s)
BY DEF GrabComplete, Retry

-------------------------------------------------------------------------------
(* The steps, as what a function makes of a state between them.            *)

LEMMA HereFields ==
  ASSUME KeysTypeOK
  PROVE  Here \in States /\ Here.m = mk /\ Here.c = calls /\ Here.w = world
BY DEF KeysTypeOK, Here, States

\* Some fields of the manager or the world change.
WithoutSource(s) == [s EXCEPT !.m.source = FALSE]
WithGrabber(s, k, sh) == [s EXCEPT !.m.connecting = k, !.m.grabber = sh]
WithOwner(s, k, l, n) == [s EXCEPT !.w.owner = k, !.w.started = l, !.w.alive = n]
WithAlive(s, k, l, n) == [s EXCEPT !.w.alive = k, !.w.exported = l, !.w.grabs = n]

LEMMA SourceExcept ==
  ASSUME NEW s \in States
  PROVE  WithoutSource(s) = [m |-> [s.m EXCEPT !.source = FALSE], c |-> s.c, w |-> s.w]
<1> DEFINE t == WithoutSource(s)
<1>1. s.m \in Managers
  BY DEF States
<1>2. t = [s EXCEPT !.m.source = FALSE]
  BY Zenon DEF WithoutSource
<1> HIDE DEF t
<1>3. t = [m |-> [s.m EXCEPT !.source = FALSE], c |-> s.c, w |-> s.w]
  BY <1>1, <1>2 DEF States, Managers
<1> QED
  BY <1>3, Zenon DEF t

LEMMA GrabberExcept ==
  ASSUME NEW s \in States, NEW k, NEW sh
  PROVE  WithGrabber(s, k, sh) = [m |-> [s.m EXCEPT !.connecting = k, !.grabber = sh], c |-> s.c, w |-> s.w]
<1> DEFINE t == WithGrabber(s, k, sh)
<1>1. s.m \in Managers
  BY DEF States
<1>2. t = [s EXCEPT !.m.connecting = k, !.m.grabber = sh]
  BY Zenon DEF WithGrabber
<1> HIDE DEF t
<1>3. t = [m |-> [s.m EXCEPT !.connecting = k, !.grabber = sh], c |-> s.c, w |-> s.w]
  BY <1>1, <1>2 DEF States, Managers
<1> QED
  BY <1>3, Zenon DEF t

\* t is s in another world, of the same settings.
Moved(s, t) ==
  /\ t \in States /\ t.m = s.m /\ t.c = s.c
  /\ t.w.binding = s.w.binding /\ t.w.listed = s.w.listed

LEMMA OwnerOps ==
  ASSUME NEW s \in States, NEW k \in {NoShell} \cup Shells, NEW l \in Shells, NEW n \in SUBSET Shells
  PROVE  LET t == WithOwner(s, k, l, n)
         IN /\ Moved(s, t)
            /\ t.w.owner = k /\ t.w.started = l /\ t.w.alive = n
            /\ t.w.exported = s.w.exported /\ t.w.grabs = s.w.grabs
<1> DEFINE t == WithOwner(s, k, l, n)
           w == [s.w EXCEPT !.owner = k, !.started = l, !.alive = n]
<1>1. s.m \in Managers /\ s.c \in Seq(Calls) /\ s.w \in Worlds
  BY DEF States
<1>2. t = [s EXCEPT !.w.owner = k, !.w.started = l, !.w.alive = n]
  BY Zenon DEF WithOwner
<1> HIDE DEF t
<1>3. t = [m |-> s.m, c |-> s.c, w |-> w]
  BY <1>1, <1>2 DEF States, Worlds
<1>4. w \in Worlds
  BY <1>1 DEF Worlds
<1>5. /\ w.owner = k /\ w.started = l /\ w.alive = n
      /\ w.exported = s.w.exported /\ w.grabs = s.w.grabs
      /\ w.binding = s.w.binding /\ w.listed = s.w.listed
  BY <1>1 DEF Worlds
<1> HIDE DEF w
<1>6. t \in States /\ t.m = s.m /\ t.c = s.c /\ t.w = w
  BY <1>1, <1>3, <1>4, StateFields
<1> QED
  BY <1>5, <1>6 DEF t, Moved

LEMMA AliveOps ==
  ASSUME NEW s \in States, NEW k \in SUBSET Shells, NEW l \in SUBSET Shells,
         NEW n \in SUBSET (Shells \X Accels)
  PROVE  LET t == WithAlive(s, k, l, n)
         IN /\ Moved(s, t)
            /\ t.w.alive = k /\ t.w.exported = l /\ t.w.grabs = n
            /\ t.w.owner = s.w.owner /\ t.w.started = s.w.started
<1> DEFINE t == WithAlive(s, k, l, n)
           w == [s.w EXCEPT !.alive = k, !.exported = l, !.grabs = n]
<1>1. s.m \in Managers /\ s.c \in Seq(Calls) /\ s.w \in Worlds
  BY DEF States
<1>2. t = [s EXCEPT !.w.alive = k, !.w.exported = l, !.w.grabs = n]
  BY Zenon DEF WithAlive
<1> HIDE DEF t
<1>3. t = [m |-> s.m, c |-> s.c, w |-> w]
  BY <1>1, <1>2 DEF States, Worlds
<1>4. w \in Worlds
  BY <1>1 DEF Worlds
<1>5. /\ w.alive = k /\ w.exported = l /\ w.grabs = n
      /\ w.owner = s.w.owner /\ w.started = s.w.started
      /\ w.binding = s.w.binding /\ w.listed = s.w.listed
  BY <1>1 DEF Worlds
<1> HIDE DEF w
<1>6. t \in States /\ t.m = s.m /\ t.c = s.c /\ t.w = w
  BY <1>1, <1>3, <1>4, StateFields
<1> QED
  BY <1>5, <1>6 DEF t, Moved

\* The name is lost.
LEMMA LostOps ==
  ASSUME NEW s \in States
  PROVE  LET t == [s EXCEPT !.w.owner = NoShell]
         IN /\ Moved(s, t) /\ t.w.owner = NoShell
            /\ t.w.alive = s.w.alive /\ t.w.exported = s.w.exported
            /\ t.w.grabs = s.w.grabs /\ t.w.started = s.w.started
<1> DEFINE t == [s EXCEPT !.w.owner = NoShell]
           w == [s.w EXCEPT !.owner = NoShell]
<1>1. s.m \in Managers /\ s.c \in Seq(Calls) /\ s.w \in Worlds
  BY DEF States
<1>4. w \in Worlds
  BY <1>1 DEF Worlds
<1>a. t = [s EXCEPT !.w = w]
  BY Zenon
<1>5. /\ w.owner = NoShell /\ w.started = s.w.started
      /\ w.alive = s.w.alive /\ w.exported = s.w.exported /\ w.grabs = s.w.grabs
      /\ w.binding = s.w.binding /\ w.listed = s.w.listed
  BY <1>1 DEF Worlds
<1> HIDE DEF w, t
<1>2. t = [m |-> s.m, c |-> s.c, w |-> w]
  BY <1>1, <1>a DEF States
<1>6. t \in States /\ t.m = s.m /\ t.c = s.c /\ t.w = w
  BY <1>1, <1>2, <1>4, StateFields
<1> QED
  BY <1>5, <1>6 DEF t, Moved

\* The timer is gone when the sync starts.
LEMMA SyncStartOps ==
  ASSUME KeysTypeOK, KeysSyncStart
  PROVE  /\ mk.source
         /\ \E b \in States :
              /\ b.c = calls /\ b.w = world /\ b.m = [mk EXCEPT !.source = FALSE]
              /\ Done(KeysSyncContinue(b))
<1> DEFINE b == [Here EXCEPT !.m.source = FALSE]
           m == [mk EXCEPT !.source = FALSE]
<1>1. b = [m |-> m, c |-> calls, w |-> world]
  <2>1. b = WithoutSource(Here)
    BY Zenon DEF WithoutSource
  <2> QED
    BY <2>1, HereFields, SourceExcept, Zenon
<1>2. m \in Managers /\ calls \in Seq(Calls) /\ world \in Worlds
  BY DEF KeysTypeOK, Managers
<1>3. m = [mk EXCEPT !.source = FALSE]
  OBVIOUS
<1>4. mk.source /\ Done(KeysSyncContinue(b))
  BY DEF KeysSyncStart
<1> HIDE DEF b, m
<1>5. b \in States
  BY <1>1, <1>2, StateFields
<1> QED
  BY <1>1, <1>3, <1>4, <1>5

LEMMA ReadyOps ==
  ASSUME KeysTypeOK, NEW sh \in Shells, KeyGrabberReady(sh)
  PROVE  /\ sh \in mk.connecting
         /\ \E b \in States : \E new :
              /\ b.c = calls /\ b.w = world
              /\ b.m = [mk EXCEPT !.connecting = @ \ {sh}, !.grabber = sh]
              /\ Starts(b, new, InitKbd(b)) /\ Done(InitKbd(b))
<1> DEFINE b == [Here EXCEPT !.m.connecting = @ \ {sh}, !.m.grabber = sh]
           k == Here.m.connecting \ {sh}
           m == [mk EXCEPT !.connecting = k, !.grabber = sh]
<1>9. b = [m |-> [Here.m EXCEPT !.connecting = k, !.grabber = sh], c |-> Here.c, w |-> Here.w]
  <2>1. b = WithGrabber(Here, k, sh)
    BY Zenon DEF WithGrabber
  <2> QED
    BY <2>1, HereFields, GrabberExcept, Zenon
<1>10. k = mk.connecting \ {sh}
  BY HereFields
<1> HIDE DEF k
<1>1. b = [m |-> m, c |-> calls, w |-> world]
  BY <1>9, HereFields
<1>2. m \in Managers /\ calls \in Seq(Calls) /\ world \in Worlds
  BY <1>10 DEF KeysTypeOK, Managers
<1>3. m = [mk EXCEPT !.connecting = @ \ {sh}, !.grabber = sh]
  BY <1>10 DEF KeysTypeOK, Managers
<1>4. m.keys = mk.keys /\ m.keys_to_sync = mk.keys_to_sync
  BY DEF KeysTypeOK, Managers
<1>5. sh \in mk.connecting /\ RoomForKeys /\ Done(InitKbd(b))
  BY DEF KeyGrabberReady
<1> HIDE DEF b, m
<1>6. b \in States /\ b.m = m /\ b.c = calls /\ b.w = world
  BY <1>1, <1>2, StateFields
<1>7. Free(b) = Free(Here)
  BY <1>4, <1>6 DEF Free, Referenced, Here
<1>8. PICK new : Starts(b, new, InitKbd(b))
  BY <1>5, <1>6, <1>7, InitKbdOps DEF RoomForKeys
<1> QED
  BY <1>3, <1>5, <1>6, <1>8

LEMMA ShellStartsOps ==
  ASSUME KeysTypeOK, ShellStarts \/ ShellReplaced
  PROVE  LET sh == world.started + 1
         IN /\ sh \in Shells
            /\ "busy" \notin Happenings => NothingPending
            /\ \E b \in States :
                 /\ Moved(Here, b)
                 /\ b.w.owner = sh /\ b.w.started = sh /\ b.w.alive = world.alive \cup {sh}
                 /\ b.w.exported = world.exported /\ b.w.grabs = world.grabs
                 /\ Done(PresenceChanged(b))
<1> DEFINE sh == world.started + 1
           both == Here.w.alive \cup {sh}
           one == {sh}
<1>1. world \in Worlds
  BY DEF KeysTypeOK
<1>2. sh \in Shells /\ ("busy" \notin Happenings => NothingPending)
  BY DEF ShellStarts, ShellReplaced
<1>3. both = world.alive \cup {sh} /\ both \in SUBSET Shells /\ one \in SUBSET Shells
  BY <1>1, <1>2, HereFields DEF Worlds
<1>4. PICK n \in SUBSET Shells :
        n = world.alive \cup {sh} /\ Done(PresenceChanged(WithOwner(Here, sh, sh, n)))
  <2>1. CASE ShellStarts
    <3>1. one = world.alive \cup {sh}
      BY <2>1 DEF ShellStarts
    <3>2. Done(PresenceChanged(WithOwner(Here, sh, sh, one)))
      BY <2>1, Zenon DEF ShellStarts, WithOwner
    <3> HIDE DEF one, sh
    <3> QED
      BY <1>3, <3>1, <3>2
  <2>2. CASE ShellReplaced
    <3>1. Done(PresenceChanged(WithOwner(Here, sh, sh, both)))
      BY <2>2, Zenon DEF ShellReplaced, WithOwner
    <3> HIDE DEF both, sh
    <3> QED
      BY <1>3, <3>1
  <2> QED
    BY <2>1, <2>2
<1> DEFINE b == WithOwner(Here, sh, sh, n)
<1> HIDE DEF both, one, sh
<1>5. /\ Moved(Here, b)
      /\ b.w.owner = sh /\ b.w.started = sh /\ b.w.alive = n
      /\ b.w.exported = world.exported /\ b.w.grabs = world.grabs
  BY <1>2, HereFields, OwnerOps
<1> HIDE DEF b
<1>6. Done(PresenceChanged(b))
  BY <1>4 DEF b
<1>7. b \in States
  BY <1>5 DEF Moved
<1> QED
  BY <1>2, <1>4, <1>5, <1>6, <1>7 DEF sh

LEMMA ExitOps ==
  ASSUME KeysTypeOK, NEW sh \in Shells, ShellExits(sh)
  PROVE  /\ sh \in world.alive
         /\ \E b \in States :
              /\ Moved(Here, b)
              /\ b.w.owner = IF sh = world.owner THEN NoShell ELSE world.owner
              /\ b.w.started = world.started /\ b.w.alive = world.alive \ {sh}
              /\ b.w.exported = world.exported \ {sh}
              /\ b.w.grabs = {g \in world.grabs : g[1] # sh}
              /\ Done(IF sh = world.owner THEN PresenceChanged(b) ELSE b)
<1> DEFINE k == Here.w.alive \ {sh}
           l == Here.w.exported \ {sh}
           n == {g \in Here.w.grabs : g[1] # sh}
           gone == WithAlive(Here, k, l, n)
           lost == [gone EXCEPT !.w.owner = NoShell]
<1>1. world \in Worlds
  BY DEF KeysTypeOK
<1>2. sh \in world.alive /\ IF sh = world.owner THEN Done(PresenceChanged(lost)) ELSE Done(gone)
  BY Zenon DEF ShellExits, WithAlive
<1>3. k = world.alive \ {sh} /\ l = world.exported \ {sh} /\ n = {g \in world.grabs : g[1] # sh}
  BY HereFields
<1>4. k \in SUBSET Shells /\ l \in SUBSET Shells /\ n \in SUBSET (Shells \X Accels)
  BY <1>1, <1>3 DEF Worlds
<1> HIDE DEF k, l, n
<1>5. /\ Moved(Here, gone)
      /\ gone.w.alive = k /\ gone.w.exported = l /\ gone.w.grabs = n
      /\ gone.w.owner = world.owner /\ gone.w.started = world.started
  BY <1>4, HereFields, AliveOps
<1> HIDE DEF gone
<1>6. gone \in States
  BY <1>5 DEF Moved
<1>7. /\ Moved(gone, lost) /\ lost.w.owner = NoShell
      /\ lost.w.alive = gone.w.alive /\ lost.w.exported = gone.w.exported
      /\ lost.w.grabs = gone.w.grabs /\ lost.w.started = gone.w.started
  BY <1>6, LostOps
<1> HIDE DEF lost
<1>8. CASE sh = world.owner
  <2>1. Moved(Here, lost) /\ lost \in States
    BY <1>5, <1>7 DEF Moved
  <2>2. Done(PresenceChanged(lost))
    BY <1>2, <1>8
  <2> QED
    BY <1>2, <1>3, <1>5, <1>7, <1>8, <2>1, <2>2
<1>9. CASE sh # world.owner
  <2>1. Done(gone)
    BY <1>2, <1>9
  <2> QED
    BY <1>2, <1>3, <1>5, <1>6, <1>9, <2>1
<1> QED
  BY <1>8, <1>9

\* Other fields that change.
WithGrabs(s, n) == [s EXCEPT !.w.grabs = n]
WithListed(s, list) == [s EXCEPT !.w.listed = list]
WithBinding(s, n, b) == [s EXCEPT !.w.binding[n] = b]
WithCalls(s, c) == [s EXCEPT !.c = c]

LEMMA GrabsOps ==
  ASSUME NEW s \in States, NEW n \in SUBSET (Shells \X Accels)
  PROVE  LET t == WithGrabs(s, n)
         IN /\ t \in States /\ t.m = s.m /\ t.c = s.c
            /\ t.w.owner = s.w.owner /\ t.w.started = s.w.started /\ t.w.alive = s.w.alive
            /\ t.w.exported = s.w.exported /\ t.w.grabs = n /\ t.w.binding = s.w.binding
            /\ t.w.listed = s.w.listed
<1> DEFINE t == WithGrabs(s, n)
           w == [s.w EXCEPT !.grabs = n]
<1>1. s.m \in Managers /\ s.c \in Seq(Calls) /\ s.w \in Worlds
  BY DEF States
<1>2. t = [s EXCEPT !.w.grabs = n]
  BY Zenon DEF WithGrabs
<1> HIDE DEF t
<1>3. t = [m |-> s.m, c |-> s.c, w |-> w]
  BY <1>1, <1>2 DEF States, Worlds
<1>4. w \in Worlds
  BY <1>1 DEF Worlds
<1>5. /\ w.owner = s.w.owner /\ w.started = s.w.started /\ w.alive = s.w.alive
      /\ w.exported = s.w.exported /\ w.grabs = n /\ w.binding = s.w.binding
      /\ w.listed = s.w.listed
  BY <1>1 DEF Worlds
<1> HIDE DEF w
<1>6. t \in States /\ t.m = s.m /\ t.c = s.c /\ t.w = w
  BY <1>1, <1>3, <1>4, StateFields
<1> QED
  BY <1>5, <1>6 DEF t

LEMMA ListedOps ==
  ASSUME NEW s \in States, NEW list \in SUBSET Custom
  PROVE  LET t == WithListed(s, list)
         IN /\ t \in States /\ t.m = s.m /\ t.c = s.c
            /\ t.w.owner = s.w.owner /\ t.w.started = s.w.started /\ t.w.alive = s.w.alive
            /\ t.w.exported = s.w.exported /\ t.w.grabs = s.w.grabs /\ t.w.binding = s.w.binding
            /\ t.w.listed = list
<1> DEFINE t == WithListed(s, list)
           w == [s.w EXCEPT !.listed = list]
<1>1. s.m \in Managers /\ s.c \in Seq(Calls) /\ s.w \in Worlds
  BY DEF States
<1>2. t = [s EXCEPT !.w.listed = list]
  BY Zenon DEF WithListed
<1> HIDE DEF t
<1>3. t = [m |-> s.m, c |-> s.c, w |-> w]
  BY <1>1, <1>2 DEF States, Worlds
<1>4. w \in Worlds
  BY <1>1 DEF Worlds
<1>5. /\ w.owner = s.w.owner /\ w.started = s.w.started /\ w.alive = s.w.alive
      /\ w.exported = s.w.exported /\ w.grabs = s.w.grabs /\ w.binding = s.w.binding
      /\ w.listed = list
  BY <1>1 DEF Worlds
<1> HIDE DEF w
<1>6. t \in States /\ t.m = s.m /\ t.c = s.c /\ t.w = w
  BY <1>1, <1>3, <1>4, StateFields
<1> QED
  BY <1>5, <1>6 DEF t

LEMMA BindingOps ==
  ASSUME NEW s \in States, NEW n \in Names, NEW b \in 0 .. MaxBinding
  PROVE  LET t == WithBinding(s, n, b)
         IN /\ t \in States /\ t.m = s.m /\ t.c = s.c
            /\ t.w.binding[n] = b /\ \A k \in Names \ {n} : t.w.binding[k] = s.w.binding[k]
            /\ t.w.owner = s.w.owner /\ t.w.started = s.w.started /\ t.w.alive = s.w.alive
            /\ t.w.exported = s.w.exported /\ t.w.grabs = s.w.grabs /\ t.w.listed = s.w.listed
<1> DEFINE t == WithBinding(s, n, b)
           f == [s.w.binding EXCEPT ![n] = b]
           w == [s.w EXCEPT !.binding = f]
<1>1. s.m \in Managers /\ s.c \in Seq(Calls) /\ s.w \in Worlds
  BY DEF States
<1>2. t = [s EXCEPT !.w.binding = f]
  BY Zenon DEF WithBinding
<1>7. f \in [Names -> 0 .. MaxBinding] /\ f[n] = b /\ \A k \in Names \ {n} : f[k] = s.w.binding[k]
  BY <1>1 DEF Worlds
<1> HIDE DEF t, f
<1>3. t = [m |-> s.m, c |-> s.c, w |-> w]
  BY <1>1, <1>2 DEF States, Worlds
<1>4. w \in Worlds
  BY <1>1, <1>7 DEF Worlds
<1>5. /\ w.binding = f
      /\ w.owner = s.w.owner /\ w.started = s.w.started /\ w.alive = s.w.alive
      /\ w.exported = s.w.exported /\ w.grabs = s.w.grabs /\ w.listed = s.w.listed
  BY <1>1 DEF Worlds
<1> HIDE DEF w
<1>6. t \in States /\ t.m = s.m /\ t.c = s.c /\ t.w = w
  BY <1>1, <1>3, <1>4, StateFields
<1> QED
  BY <1>5, <1>6, <1>7 DEF t

\* The answered call is gone.
LEMMA RestOps ==
  ASSUME NEW s \in States, NEW i \in DOMAIN s.c
  PROVE  LET c == SubSeq(s.c, 1, i - 1) \o SubSeq(s.c, i + 1, Len(s.c))
             t == WithCalls(s, c)
         IN /\ s.c[i] \in Calls
            /\ t \in States /\ t.m = s.m /\ t.w = s.w
            /\ Len(s.c) = 1 => t.c = <<>>
<1> DEFINE p == SubSeq(s.c, 1, i - 1)
           q == SubSeq(s.c, i + 1, Len(s.c))
           c == p \o q
           t == WithCalls(s, c)
<1>1. s.m \in Managers /\ s.c \in Seq(Calls) /\ s.w \in Worlds
  BY DEF States
<1>2. i \in 1 .. Len(s.c) /\ s.c[i] \in Calls
  BY <1>1
<1>3. p \in Seq(Calls) /\ q \in Seq(Calls)
  BY <1>1, <1>2
<1>4. Len(s.c) = 1 => Len(p) = 0 /\ Len(q) = 0
  BY <1>1, <1>2
<1> HIDE DEF p, q
<1>5. c \in Seq(Calls) /\ (Len(s.c) = 1 => c = <<>>)
  BY <1>3, <1>4
<1> HIDE DEF c
<1>6. t = [m |-> s.m, c |-> c, w |-> s.w]
  BY DEF WithCalls, States
<1> HIDE DEF t
<1>7. t \in States /\ t.m = s.m /\ t.c = c /\ t.w = s.w
  BY <1>1, <1>5, <1>6, StateFields
<1> QED
  BY <1>2, <1>5, <1>7 DEF t, c, p, q

\* t is s but for the grabs, which are now gs.
Regrabbed(s, gs, t) ==
  /\ t \in States /\ t.m = s.m /\ t.c = s.c /\ t.w.grabs = gs
  /\ t.w.owner = s.w.owner /\ t.w.started = s.w.started /\ t.w.alive = s.w.alive
  /\ t.w.exported = s.w.exported /\ t.w.binding = s.w.binding /\ t.w.listed = s.w.listed

\* The four ways a reply arrives, b being without the call.
GrabDone(call, b) ==
  /\ call.kind = "grab" /\ Outcome(call) = "done"
  /\ \E g \in Grants(call), d \in States :
       /\ Regrabbed(b, world.grabs \cup AtShell(call.to, g), d)
       /\ Done(GrabComplete(d, call, "done", g))
GrabFailed(call, b) ==
  call.kind = "grab" /\ Outcome(call) # "done" /\ Done(GrabComplete(b, call, Outcome(call), {}))
UngrabDone(call, b) ==
  /\ call.kind # "grab" /\ Outcome(call) = "done"
  /\ \E d \in States :
       /\ Regrabbed(b, world.grabs \ AtShell(call.to, ToRelease(call)), d)
       /\ Done(UngrabComplete(d, call, "done"))
UngrabFailed(call, b) ==
  call.kind # "grab" /\ Outcome(call) # "done" /\ Done(UngrabComplete(b, call, Outcome(call)))

LEMMA ReplyOps ==
  ASSUME KeysTypeOK, NEW i, ReplyArrives(i)
  PROVE  \E b \in States :
           /\ i \in DOMAIN calls /\ calls[i] \in Calls
           /\ b.m = mk /\ b.w = world /\ (Len(calls) = 1 => b.c = <<>>)
           /\ \/ GrabDone(calls[i], b) \/ GrabFailed(calls[i], b)
              \/ UngrabDone(calls[i], b) \/ UngrabFailed(calls[i], b)
<1> DEFINE call == calls[i]
           c == SubSeq(calls, 1, i - 1) \o SubSeq(calls, i + 1, Len(calls))
           b == WithCalls(Here, c)
           plus(g) == b.w.grabs \cup AtShell(call.to, g)
           minus == b.w.grabs \ AtShell(call.to, ToRelease(call))
<1>1. i \in DOMAIN calls
  BY DEF ReplyArrives
<1>2. /\ call \in Calls /\ b \in States /\ b.m = mk /\ b.w = world
      /\ Len(calls) = 1 => b.c = <<>>
  BY <1>1, HereFields, RestOps
<1>3. \/ /\ call.kind = "grab" /\ Outcome(call) = "done"
         /\ \E g \in Grants(call) : Done(GrabComplete(WithGrabs(b, plus(g)), call, "done", g))
      \/ GrabFailed(call, b)
      \/ /\ call.kind # "grab" /\ Outcome(call) = "done"
         /\ Done(UngrabComplete(WithGrabs(b, minus), call, "done"))
      \/ UngrabFailed(call, b)
  BY Zenon DEF ReplyArrives, GrabFailed, UngrabFailed, WithGrabs, WithCalls
<1>4. /\ \A g \in Grants(call) : AtShell(call.to, g) \subseteq Shells \X Accels
      /\ AtShell(call.to, ToRelease(call)) \subseteq Shells \X Accels
  <2>1. /\ call.to \in Shells /\ call.items \subseteq Objects \X Accels
        /\ ToRelease(call) \subseteq Objects \X Accels
    BY <1>2 DEF Calls, ToRelease
  <2>2. \A g \in Grants(call) : g \subseteq call.items
    BY DEF Grants
  <2> HIDE DEF call
  <2>3. \A g \in SUBSET (Objects \X Accels) : AtShell(call.to, g) \subseteq Shells \X Accels
    BY <2>1 DEF AtShell
  <2> QED
    BY <2>1, <2>2, <2>3
<1>5. world.grabs \in SUBSET (Shells \X Accels)
  BY DEF KeysTypeOK, Worlds
<1> HIDE DEF b, c, call
<1>6. ASSUME NEW g \in Grants(call), Done(GrabComplete(WithGrabs(b, plus(g)), call, "done", g)),
             call.kind = "grab", Outcome(call) = "done"
      PROVE  GrabDone(call, b)
  <2> DEFINE gs == plus(g)
             d == WithGrabs(b, gs)
  <2>1. gs = world.grabs \cup AtShell(call.to, g) /\ gs \in SUBSET (Shells \X Accels)
    BY <1>2, <1>4, <1>5
  <2> HIDE DEF gs
  <2>2. Regrabbed(b, gs, d)
    BY <1>2, <2>1, GrabsOps DEF Regrabbed
  <2>3. Done(GrabComplete(d, call, "done", g))
    BY <1>6 DEF gs
  <2> HIDE DEF d
  <2>4. d \in States
    BY <2>2 DEF Regrabbed
  <2> QED
    BY <1>6, <2>1, <2>2, <2>3, <2>4 DEF GrabDone
<1>7. ASSUME Done(UngrabComplete(WithGrabs(b, minus), call, "done")),
             call.kind # "grab", Outcome(call) = "done"
      PROVE  UngrabDone(call, b)
  <2> DEFINE gs == minus
             d == WithGrabs(b, gs)
  <2>1. gs = world.grabs \ AtShell(call.to, ToRelease(call)) /\ gs \in SUBSET (Shells \X Accels)
    BY <1>2, <1>5
  <2> HIDE DEF gs
  <2>2. Regrabbed(b, gs, d)
    BY <1>2, <2>1, GrabsOps DEF Regrabbed
  <2>3. Done(UngrabComplete(d, call, "done"))
    BY <1>7 DEF gs
  <2> HIDE DEF d
  <2>4. d \in States
    BY <2>2 DEF Regrabbed
  <2> QED
    BY <1>7, <2>1, <2>2, <2>3, <2>4 DEF UngrabDone
<1> HIDE DEF plus, minus
<1>8. GrabDone(call, b) \/ GrabFailed(call, b) \/ UngrabDone(call, b) \/ UngrabFailed(call, b)
  BY <1>3, <1>6, <1>7
<1> QED
  BY <1>1, <1>2, <1>8 DEF call

\* A changed binding of the schema is to be synced again.
Touch(s, o) == KeysSyncQueue([s EXCEPT !.m.keys_to_sync = @ \cup {o}], FALSE)

LEMMA TouchOps ==
  ASSUME NEW s \in States, NEW o \in Objects
  PROVE  LET t == Touch(s, o)
         IN /\ t \in States /\ t.c = s.c /\ t.w = s.w
            /\ t.m.keys_to_sync = s.m.keys_to_sync \cup {o}
            /\ t.m.source = ~Syncing(s) /\ t.m.stuck = s.m.stuck /\ t.m.keys = s.m.keys
            /\ t.m.grabber = s.m.grabber /\ t.m.connecting = s.m.connecting
            /\ t.m.name = s.m.name /\ t.m.accel_ids = s.m.accel_ids
            /\ t.m.custom_settings = s.m.custom_settings
<1> DEFINE l == s.m.keys_to_sync \cup {o}
           a == [s EXCEPT !.m.keys_to_sync = l]
           m == [s.m EXCEPT !.keys_to_sync = l]
           t == KeysSyncQueue(a, FALSE)
<1>1. s.m \in Managers /\ s.c \in Seq(Calls) /\ s.w \in Worlds
  BY DEF States
<1>2. Touch(s, o) = t
  BY Zenon DEF Touch
<1>3. l \in SUBSET Objects
  BY <1>1 DEF Managers
<1> HIDE DEF l
<1>4. a = [m |-> m, c |-> s.c, w |-> s.w]
  BY <1>1 DEF States
<1>5. m \in Managers
  BY <1>1, <1>3 DEF Managers
<1>6. /\ m.keys_to_sync = l
      /\ m.stuck = s.m.stuck /\ m.keys = s.m.keys
      /\ m.grabber = s.m.grabber /\ m.connecting = s.m.connecting
      /\ m.name = s.m.name /\ m.accel_ids = s.m.accel_ids
      /\ m.custom_settings = s.m.custom_settings
  BY <1>1 DEF Managers
<1> HIDE DEF a, m
<1>7. a \in States /\ a.m = m /\ a.c = s.c /\ a.w = s.w
  BY <1>1, <1>4, <1>5, StateFields
<1>8. /\ t \in States /\ t.c = a.c /\ t.w = a.w
      /\ t.m = [a.m EXCEPT !.source = ~Syncing(a)]
  BY <1>7, QueueOps
<1>9. Syncing(a) = Syncing(s)
  BY <1>6, <1>7 DEF Syncing
<1> DEFINE b == ~Syncing(a)
<1>10. t.m = [m EXCEPT !.source = b]
  BY <1>7, <1>8
<1>11. b = ~Syncing(s) /\ b \in BOOLEAN
  BY <1>9
<1> HIDE DEF b, t
<1>12. /\ t.m.source = b
       /\ t.m.keys_to_sync = m.keys_to_sync
       /\ t.m.stuck = m.stuck /\ t.m.keys = m.keys
       /\ t.m.grabber = m.grabber /\ t.m.connecting = m.connecting
       /\ t.m.name = m.name /\ t.m.accel_ids = m.accel_ids
       /\ t.m.custom_settings = m.custom_settings
  BY <1>5, <1>10 DEF Managers
<1> QED
  BY <1>2, <1>6, <1>7, <1>8, <1>11, <1>12 DEF l

\* b is the state with another binding of n.
Rebound(n, b) ==
  /\ b \in States /\ b.m = mk /\ b.c = calls
  /\ \A k \in Names \ {n} : b.w.binding[k] = world.binding[k]
  /\ b.w.owner = world.owner /\ b.w.started = world.started /\ b.w.alive = world.alive
  /\ b.w.exported = world.exported /\ b.w.grabs = world.grabs /\ b.w.listed = world.listed

LEMMA FixedOps ==
  ASSUME KeysTypeOK, NEW n \in Fixed, NEW v \in 0 .. MaxBinding, FixedChanged(n, v)
  PROVE  \E b :
           /\ Rebound(n, b)
           /\ \/ (mk.grabber = NoShell \/ KeysNamed(Here, n) = {}) /\ Done(b)
              \/ \E o \in KeysNamed(Here, n) : mk.grabber # NoShell /\ Done(Touch(b, o))
<1> DEFINE b == WithBinding(Here, n, v)
<1>1. n \in Names
  BY DEF Names
<1>2. Rebound(n, b)
  BY <1>1, HereFields, BindingOps DEF Rebound
<1>3. IF mk.grabber = NoShell \/ KeysNamed(Here, n) = {} THEN Done(b)
      ELSE \E o \in KeysNamed(Here, n) : Done(Touch(b, o))
  BY Zenon DEF FixedChanged, WithBinding, Touch
<1> HIDE DEF b
<1> QED
  BY <1>2, <1>3

LEMMA CustomOps ==
  ASSUME KeysTypeOK, NEW n \in Custom, NEW v \in 0 .. MaxBinding, CustomBindingChanged(n, v)
  PROVE  /\ CustomMayChange /\ (n \in world.listed \/ "unlisted" \in Happenings)
         /\ \E b :
              /\ Rebound(n, b)
              /\ \/ n \notin mk.custom_settings /\ Done(b)
                 \/ \E old, new, t :
                      n \in mk.custom_settings /\ Updates(b, {n}, old, new, t) /\ Done(t)
<1> DEFINE b == WithBinding(Here, n, v)
<1>1. n \in Names
  BY DEF Names
<1>2. Rebound(n, b)
  BY <1>1, HereFields, BindingOps DEF Rebound
<1>3. /\ CustomMayChange /\ (n \in world.listed \/ "unlisted" \in Happenings) /\ RoomToChange
      /\ IF n \in mk.custom_settings THEN Done(UpdateCustomBindings(b, {n})) ELSE Done(b)
  BY Zenon DEF CustomBindingChanged, WithBinding
<1> HIDE DEF b
<1>4. CASE n \in mk.custom_settings
  <2>1. b \in States /\ Free(b) = Free(Here)
    BY <1>2, HereFields DEF Rebound, Free, Referenced
  <2>2. PICK old, new : Updates(b, {n}, old, new, UpdateCustomBindings(b, {n}))
    BY <1>3, <2>1, UpdateOps DEF RoomToChange
  <2> QED
    BY <1>2, <1>3, <1>4, <2>2
<1> QED
  BY <1>2, <1>3, <1>4

\* gsettings_custom_changed_cb: the new paths, then the ones that went.
ListSteps(list, b, old, new, t, r, q) ==
  /\ list \in SUBSET Custom
  /\ b \in States /\ b.m = mk /\ b.c = calls
  /\ b.w.owner = world.owner /\ b.w.started = world.started
  /\ b.w.alive = world.alive /\ b.w.exported = world.exported
  /\ b.w.grabs = world.grabs /\ b.w.binding = world.binding /\ b.w.listed = list
  /\ Updates(b, list \ mk.custom_settings, old, new, t)
  /\ r = RemoveCustom(t, list)
  /\ q = KeysSyncQueue(r, FALSE)

LEMMA ListOps ==
  ASSUME KeysTypeOK, NEW n \in Custom, CustomListChanged(n)
  PROVE  /\ CustomMayChange
         /\ \E list, b, old, new, t, r, q : ListSteps(list, b, old, new, t, r, q) /\ Done(q)
<1> DEFINE list == IF n \in world.listed THEN world.listed \ {n} ELSE world.listed \cup {n}
           b == WithListed(Here, list)
           t == UpdateCustomBindings(b, list \ mk.custom_settings)
           r == RemoveCustom(t, list)
           q == KeysSyncQueue(r, FALSE)
<1>1. CustomMayChange /\ RoomToChange /\ Done(q)
  BY Zenon DEF CustomListChanged, WithListed
<1>2. list \in SUBSET Custom
  BY DEF KeysTypeOK, Worlds
<1> HIDE DEF list
<1>3. /\ b \in States /\ b.m = mk /\ b.c = calls
      /\ b.w.owner = world.owner /\ b.w.started = world.started
      /\ b.w.alive = world.alive /\ b.w.exported = world.exported
      /\ b.w.grabs = world.grabs /\ b.w.binding = world.binding /\ b.w.listed = list
  BY <1>2, HereFields, ListedOps
<1>4. list \ mk.custom_settings \in SUBSET Custom
  BY <1>2
<1> HIDE DEF b
<1>5. Free(b) = Free(Here)
  BY <1>3, HereFields DEF Free, Referenced
<1>6. PICK old, new : Updates(b, list \ mk.custom_settings, old, new, t)
  BY <1>1, <1>3, <1>4, <1>5, UpdateOps DEF RoomToChange
<1> HIDE DEF t
<1>7. ListSteps(list, b, old, new, t, r, q)
  BY <1>2, <1>3, <1>6 DEF ListSteps
<1> HIDE DEF q, r
<1> QED
  BY <1>1, <1>7

-------------------------------------------------------------------------------
(* The type of the state.                                                  *)

LEMMA TypeInit ==
  ASSUME KeysInit
  PROVE  KeysTypeOK
<1>1. (CHOOSE n \in Names : TRUE) \in Names
  BY KeySyncAssumption DEF Names
<1>2. mk \in Managers
  BY <1>1 DEF KeysInit, Managers
<1>3. calls \in Seq(Calls)
  BY DEF KeysInit
<1>4. world \in Worlds
  <2>1. PICK b \in [Names -> 0 .. 1], l \in SUBSET Custom :
          world = [owner |-> NoShell, started |-> NoShell, alive |-> {}, exported |-> {},
                   grabs |-> {}, binding |-> b, listed |-> l]
    BY DEF KeysInit
  <2>2. b \in [Names -> 0 .. MaxBinding]
    BY KeySyncAssumption
  <2> QED
    BY <2>1, <2>2 DEF Worlds
<1> QED
  BY <1>2, <1>3, <1>4 DEF KeysTypeOK

LEMMA TypeStep ==
  ASSUME KeysTypeOK, [KeysNext]_kvars
  PROVE  KeysTypeOK'
<1>1. CASE KeysSyncStart
  BY <1>1, SyncStartOps, ContinueTyped, DoneOps
<1>2. ASSUME NEW sh \in Shells, KeyGrabberReady(sh)
      PROVE  KeysTypeOK'
  BY <1>2, ReadyOps, DoneOps DEF Starts
<1>3. ASSUME NEW sh \in Shells, ShellExports(sh)
      PROVE  KeysTypeOK'
  BY <1>3 DEF ShellExports, KeysTypeOK, Worlds
<1>4. ASSUME NEW sh \in Shells, ShellExits(sh)
      PROVE  KeysTypeOK'
  <2>1. PICK b \in States : Done(IF sh = world.owner THEN PresenceChanged(b) ELSE b)
    BY <1>4, ExitOps
  <2>2. PresenceChanged(b) \in States
    BY PresenceOps
  <2> QED
    BY <2>1, <2>2, DoneOps
<1>5. ASSUME NEW i \in 1 .. Len(calls), ReplyArrives(i)
      PROVE  KeysTypeOK'
  <2> DEFINE call == calls[i]
  <2>1. PICK b \in States :
          /\ call \in Calls
          /\ GrabDone(call, b) \/ GrabFailed(call, b) \/ UngrabDone(call, b) \/ UngrabFailed(call, b)
    BY <1>5, ReplyOps
  <2> HIDE DEF call
  <2>2. CASE GrabDone(call, b)
    <3>1. PICK g \in Grants(call), d \in States : Done(GrabComplete(d, call, "done", g))
      BY <2>2 DEF GrabDone
    <3>2. g \in SUBSET call.items
      BY DEF Grants
    <3>3. GrabComplete(d, call, "done", g) \in States
      BY <2>1, <3>2, GrabOps
    <3> QED
      BY <3>1, <3>3, DoneOps
  <2>3. CASE GrabFailed(call, b)
    <3>1. {} \in SUBSET call.items
      OBVIOUS
    <3>2. GrabComplete(b, call, Outcome(call), {}) \in States
      BY <2>1, <3>1, GrabOps
    <3> QED
      BY <2>3, <3>2, DoneOps DEF GrabFailed
  <2>4. CASE UngrabDone(call, b)
    BY <2>4, UngrabOps, DoneOps DEF UngrabDone
  <2>5. CASE UngrabFailed(call, b)
    BY <2>5, UngrabOps, DoneOps DEF UngrabFailed
  <2> QED
    BY <2>1, <2>2, <2>3, <2>4, <2>5
<1>6. CASE ShellStarts \/ ShellReplaced
  <2>1. PICK b \in States : Done(PresenceChanged(b))
    BY <1>6, ShellStartsOps
  <2> QED
    BY <2>1, PresenceOps, DoneOps
<1>7. ASSUME NEW n \in Fixed, NEW b \in 0 .. MaxBinding, FixedChanged(n, b)
      PROVE  KeysTypeOK'
  <2>1. PICK s \in States : Done(s) \/ \E o \in KeysNamed(Here, n) : Done(Touch(s, o))
    BY <1>7, FixedOps DEF Rebound
  <2>2. KeysNamed(Here, n) \subseteq Objects
    BY DEF KeysNamed, Here, KeysTypeOK, Managers
  <2>3. \A o \in KeysNamed(Here, n) : Touch(s, o) \in States
    BY <2>2, TouchOps
  <2> QED
    BY <2>1, <2>3, DoneOps
<1>8. ASSUME NEW n \in Custom, CustomListChanged(n)
      PROVE  KeysTypeOK'
  <2>1. PICK list, b, old, new, t, r, q : ListSteps(list, b, old, new, t, r, q) /\ Done(q)
    BY <1>8, ListOps
  <2>4. t \in States
    BY <2>1 DEF ListSteps, Updates
  <2>2. r \in States
    BY <2>1, <2>4, RemoveOps DEF ListSteps
  <2>3. q \in States
    BY <2>1, <2>2, QueueOps DEF ListSteps
  <2> QED
    BY <2>1, <2>3, DoneOps
<1>9. ASSUME NEW n \in Custom, NEW b \in 0 .. MaxBinding, CustomBindingChanged(n, b)
      PROVE  KeysTypeOK'
  <2>1. PICK s :
          /\ Rebound(n, s)
          /\ Done(s) \/ \E old, new, t : Updates(s, {n}, old, new, t) /\ Done(t)
    BY <1>9, CustomOps
  <2>2. CASE Done(s)
    BY <2>1, <2>2, DoneOps DEF Rebound
  <2>3. ASSUME NEW old, NEW new, NEW t, Updates(s, {n}, old, new, t), Done(t)
        PROVE  KeysTypeOK'
    BY <2>3, DoneOps DEF Updates
  <2> QED
    BY <2>1, <2>2, <2>3
<1>10. CASE UNCHANGED kvars
  BY <1>10 DEF kvars, KeysTypeOK
<1> QED
  BY <1>1, <1>2, <1>3, <1>4, <1>5, <1>6, <1>7, <1>8, <1>9, <1>10 DEF KeysNext

\* The state is of its type, whatever happens around the daemon.
THEOREM KeysTypeCorrect == KeysSpec => []KeysTypeOK
BY TypeInit, TypeStep, PTL DEF KeysSpec

-------------------------------------------------------------------------------
(* One operation at a time.  Unless a shell is replaced while it owes an    *)
(* answer, the daemon deals with the newest shell only, and at most one     *)
(* call is under way.                                                       *)

\* The name belongs to the newest shell as long as that runs.
ShellsInOrder(s) ==
  /\ s.w.owner = IF s.w.started \in s.w.alive THEN s.w.started ELSE NoShell
  /\ s.w.exported \subseteq s.w.alive
  /\ \A sh \in s.w.alive : sh <= s.w.started
  /\ \A g \in s.w.grabs : g[1] \in s.w.exported

OneGrabber(s) ==
  /\ s.m.grabber \in {NoShell, s.w.started}
  /\ s.m.connecting \subseteq {s.w.started}
  /\ s.m.connecting # {} => s.m.grabber = NoShell /\ Len(s.c) = 0

OneOperation(s) ==
  /\ Len(s.c) \in {0, 1}
  /\ s.m.source => ~s.m.stuck /\ Len(s.c) = 0
  /\ s.m.stuck => Len(s.c) = 0 /\ s.m.grabber = NoShell
  /\ Len(s.c) = 1 =>
       /\ s.c[1].current /\ ~s.c[1].cancelled /\ s.c[1].kind \in {"grab", "ungrab"}
       /\ s.c[1].to = s.w.started
       /\ s.w.owner # NoShell => s.m.grabber = s.w.owner

One(s) == ShellsInOrder(s) /\ OneGrabber(s) /\ OneOperation(s)

\* The operation's call is for keys that are still known: what is grabbed has
\* no id, what is ungrabbed gives up all its ids.
CallInStep(s) ==
  Len(s.c) = 1 =>
    /\ s.c[1].kind = "grab" =>
         \A o \in ObjectsOf(s.c[1].items) :
           /\ s.m.accel_ids[o] = {}
           /\ s.w.owner # NoShell => o \in s.m.keys \cup s.m.keys_to_sync
    /\ s.c[1].kind = "ungrab" =>
         \A o \in ObjectsOf(s.c[1].items) :
           o \in s.m.keys_to_sync /\ \A a \in s.m.accel_ids[o] : <<o, a>> \in s.c[1].items

SettingsKnown(s) == \A o \in CustomKeys(s) : s.m.name[o] \in s.m.custom_settings

GrabsKnown(s) ==
  \A g \in s.w.grabs : g[1] = s.w.owner =>
    \E o \in s.m.keys \cup s.m.keys_to_sync : g[2] \in s.m.accel_ids[o]

Kept(s) == CallInStep(s) /\ SettingsKnown(s) /\ GrabsKnown(s)

SyncInv == KeysTypeOK /\ One(Here) /\ Kept(Here)

\* h is s at the end of a callback.
Ended(s, h) ==
  /\ h \in States /\ h.c = s.c /\ h.w = s.w
  /\ h.m.keys = s.m.keys /\ h.m.keys_to_sync = s.m.keys_to_sync
  /\ h.m.grabber = s.m.grabber /\ h.m.connecting = s.m.connecting
  /\ h.m.custom_settings = s.m.custom_settings
  /\ h.m.source = s.m.source /\ h.m.stuck = s.m.stuck
  /\ \A o \in Objects :
       IF o \in Free(s) THEN h.m.accel_ids[o] = {}
       ELSE h.m.accel_ids[o] = s.m.accel_ids[o] /\ h.m.name[o] = s.m.name[o]

LEMMA EndOps ==
  ASSUME NEW s \in States, Done(s)
  PROVE  Ended(s, Here')
<1>1. /\ KeysTypeOK' /\ Here'.w = s.w /\ Here'.c = s.c
      /\ Here'.m = [s.m EXCEPT !.name = mk'.name, !.accel_ids = mk'.accel_ids]
      /\ \A o \in Objects :
           IF o \in Free(s) THEN mk'.accel_ids[o] = {}
           ELSE mk'.accel_ids[o] = s.m.accel_ids[o] /\ mk'.name[o] = s.m.name[o]
  BY DoneOps
<1>2. Here' \in States
  BY <1>1 DEF KeysTypeOK, Here, States
<1>3. Here'.m = mk'
  BY DEF Here
<1>4. s.m \in Managers
  BY DEF States
<1>5. /\ mk'.keys = s.m.keys /\ mk'.keys_to_sync = s.m.keys_to_sync
      /\ mk'.grabber = s.m.grabber /\ mk'.connecting = s.m.connecting
      /\ mk'.custom_settings = s.m.custom_settings
      /\ mk'.source = s.m.source /\ mk'.stuck = s.m.stuck
  BY <1>1, <1>3, <1>4 DEF Managers
<1> QED
  BY <1>1, <1>2, <1>3, <1>5 DEF Ended

\* What the keys, the list and the call refer to is not free.
LEMMA InUse ==
  ASSUME NEW s \in States
  PROVE  /\ \A o \in s.m.keys \cup s.m.keys_to_sync : o \in Objects \ Free(s)
         /\ \A i \in 1 .. Len(s.c) : \A o \in ObjectsOf(s.c[i].items) : o \in Objects \ Free(s)
<1>1. s.m \in Managers /\ s.c \in Seq(Calls)
  BY DEF States
<1>2. s.m.keys \subseteq Objects /\ s.m.keys_to_sync \subseteq Objects
  BY <1>1 DEF Managers
<1>3. DOMAIN s.c = 1 .. Len(s.c) /\ \A i \in 1 .. Len(s.c) : s.c[i].items \subseteq Objects \X Accels
  <2>1. \A i \in 1 .. Len(s.c) : s.c[i] \in Calls
    BY <1>1
  <2>2. \A c \in Calls : c.items \subseteq Objects \X Accels
    BY DEF Calls
  <2> QED
    BY <1>1, <2>1, <2>2
<1>4. \A i \in 1 .. Len(s.c) : ObjectsOf(s.c[i].items) \subseteq Objects
  BY <1>3 DEF ObjectsOf
<1> QED
  BY <1>2, <1>3, <1>4 DEF Free, Referenced

LEMMA EndKeeps ==
  ASSUME NEW s \in States, NEW h, Ended(s, h)
  PROVE  (One(s) => One(h)) /\ (Kept(s) => Kept(h))
<1>1. One(s) => One(h)
  BY DEF Ended, One, ShellsInOrder, OneGrabber, OneOperation
<1>2. /\ \A o \in s.m.keys \cup s.m.keys_to_sync :
           h.m.accel_ids[o] = s.m.accel_ids[o] /\ h.m.name[o] = s.m.name[o]
      /\ \A i \in 1 .. Len(s.c) : \A o \in ObjectsOf(s.c[i].items) :
           h.m.accel_ids[o] = s.m.accel_ids[o]
  BY InUse DEF Ended
<1>3. CallInStep(s) => CallInStep(h)
  BY <1>2 DEF Ended, CallInStep
<1>4. SettingsKnown(s) => SettingsKnown(h)
  BY <1>2 DEF Ended, SettingsKnown, CustomKeys
<1>5. GrabsKnown(s) => GrabsKnown(h)
  BY <1>2 DEF Ended, GrabsKnown
<1> QED
  BY <1>1, <1>3, <1>4, <1>5 DEF Kept

\* The call of a new operation, or the operation that nobody finishes.
Sends(s, t, kind, items) ==
  /\ s.m.grabber = NoShell => t.m.stuck /\ Len(t.c) = 0
  /\ s.m.grabber # NoShell =>
       /\ ~t.m.stuck /\ Len(t.c) = 1
       /\ t.c[1].kind = kind /\ t.c[1].to = s.m.grabber /\ t.c[1].items = items
       /\ ~t.c[1].cancelled /\ t.c[1].current

\* keys_sync_continue, when no operation is active.
Continues(s, t) ==
  /\ t \in States /\ t.w = s.w
  /\ t.m.grabber = s.m.grabber /\ t.m.connecting = s.m.connecting /\ t.m.keys = s.m.keys
  /\ t.m.name = s.m.name /\ t.m.accel_ids = s.m.accel_ids
  /\ t.m.custom_settings = s.m.custom_settings /\ t.m.source = s.m.source
  /\ \/ s.m.keys_to_sync = {} /\ t = s
     \/ /\ ToUngrab(s) # {} /\ t.m.keys_to_sync = s.m.keys_to_sync
        /\ Sends(s, t, "ungrab", ToUngrab(s))
     \/ /\ ToUngrab(s) = {} /\ t.m.keys_to_sync = {}
        /\ Sends(s, t, "grab", ToGrab(s))

LEMMA SendOps ==
  ASSUME NEW s \in States, NEW kind \in Kinds, NEW items \in SUBSET (Objects \X Accels),
         Len(s.c) = 0
  PROVE  LET t == Call(s, kind, items)
         IN /\ t \in States /\ t.w = s.w
            /\ t.m.grabber = s.m.grabber /\ t.m.connecting = s.m.connecting
            /\ t.m.keys = s.m.keys /\ t.m.keys_to_sync = s.m.keys_to_sync
            /\ t.m.name = s.m.name /\ t.m.accel_ids = s.m.accel_ids
            /\ t.m.custom_settings = s.m.custom_settings /\ t.m.source = s.m.source
            /\ Sends(s, t, kind, items)
<1> DEFINE t == Call(s, kind, items)
           call == [kind |-> kind, to |-> s.m.grabber, items |-> items,
                    granted |-> {}, cancelled |-> FALSE, current |-> TRUE]
<1>1. /\ t \in States /\ t.w = s.w
      /\ s.m.grabber = NoShell => t.m = [s.m EXCEPT !.stuck = TRUE] /\ Len(t.c) = Len(s.c)
      /\ s.m.grabber # NoShell =>
           /\ t.m = [s.m EXCEPT !.stuck = FALSE]
           /\ Len(t.c) = Len(s.c) + 1 /\ t.c[Len(s.c) + 1] = call
  BY CallOps
<1>2. s.m \in Managers
  BY DEF States
<1>3. /\ call.kind = kind /\ call.to = s.m.grabber /\ call.items = items
      /\ ~call.cancelled /\ call.current
  OBVIOUS
<1> HIDE DEF t, call
<1>4. /\ t.m.grabber = s.m.grabber /\ t.m.connecting = s.m.connecting
      /\ t.m.keys = s.m.keys /\ t.m.keys_to_sync = s.m.keys_to_sync
      /\ t.m.name = s.m.name /\ t.m.accel_ids = s.m.accel_ids
      /\ t.m.custom_settings = s.m.custom_settings /\ t.m.source = s.m.source
      /\ s.m.grabber = NoShell => t.m.stuck
      /\ s.m.grabber # NoShell => ~t.m.stuck
  BY <1>1, <1>2 DEF Managers
<1>5. Sends(s, t, kind, items)
  BY <1>1, <1>3, <1>4 DEF Sends
<1> QED
  BY <1>1, <1>4, <1>5 DEF t

LEMMA ContinueOps ==
  ASSUME NEW s \in States, Len(s.c) = 0
  PROVE  Continues(s, KeysSyncContinue(s))
<1> DEFINE bare == [s EXCEPT !.m.keys_to_sync = {}]
           m == [s.m EXCEPT !.keys_to_sync = {}]
           u == Call(s, "ungrab", ToUngrab(s))
           g == Call(bare, "grab", ToGrab(s))
           t == KeysSyncContinue(s)
<1>1. s.m \in Managers /\ s.c \in Seq(Calls) /\ s.w \in Worlds
  BY DEF States
<1>15. bare = [s EXCEPT !.m.keys_to_sync = {}]
  OBVIOUS
<1> HIDE DEF bare
<1>2. bare = [m |-> m, c |-> s.c, w |-> s.w]
  BY <1>1, <1>15 DEF States, Managers
<1>3. m \in Managers
  BY <1>1 DEF Managers
<1>4. /\ m.keys_to_sync = {}
      /\ m.grabber = s.m.grabber /\ m.connecting = s.m.connecting /\ m.keys = s.m.keys
      /\ m.name = s.m.name /\ m.accel_ids = s.m.accel_ids
      /\ m.custom_settings = s.m.custom_settings /\ m.source = s.m.source
  BY <1>1 DEF Managers
<1> HIDE DEF m
<1>5. bare \in States /\ bare.m = m /\ bare.c = s.c /\ bare.w = s.w
  BY <1>1, <1>2, <1>3, StateFields
<1>6. "ungrab" \in Kinds /\ "grab" \in Kinds
  BY DEF Kinds
<1>7. ToUngrab(s) \in SUBSET (Objects \X Accels) /\ ToGrab(s) \in SUBSET (Objects \X Accels)
  BY ToUngrabTyped, ToGrabTyped
<1>8. t = IF s.m.keys_to_sync = {} THEN s ELSE IF ToUngrab(s) # {} THEN u ELSE g
  BY Zenon DEF KeysSyncContinue, bare
<1>9. /\ u \in States /\ u.w = s.w
      /\ u.m.grabber = s.m.grabber /\ u.m.connecting = s.m.connecting
      /\ u.m.keys = s.m.keys /\ u.m.keys_to_sync = s.m.keys_to_sync
      /\ u.m.name = s.m.name /\ u.m.accel_ids = s.m.accel_ids
      /\ u.m.custom_settings = s.m.custom_settings /\ u.m.source = s.m.source
      /\ Sends(s, u, "ungrab", ToUngrab(s))
  BY <1>6, <1>7, SendOps
<1>10. /\ g \in States /\ g.w = bare.w
       /\ g.m.grabber = bare.m.grabber /\ g.m.connecting = bare.m.connecting
       /\ g.m.keys = bare.m.keys /\ g.m.keys_to_sync = bare.m.keys_to_sync
       /\ g.m.name = bare.m.name /\ g.m.accel_ids = bare.m.accel_ids
       /\ g.m.custom_settings = bare.m.custom_settings /\ g.m.source = bare.m.source
       /\ Sends(bare, g, "grab", ToGrab(s))
  BY <1>5, <1>6, <1>7, SendOps
<1> HIDE DEF u, g, t
<1>11. Sends(s, g, "grab", ToGrab(s))
  BY <1>4, <1>5, <1>10 DEF Sends
<1>12. CASE s.m.keys_to_sync = {}
  BY <1>8, <1>12 DEF Continues, t
<1>13. CASE s.m.keys_to_sync # {} /\ ToUngrab(s) # {}
  BY <1>8, <1>9, <1>13 DEF Continues, t
<1>14. CASE s.m.keys_to_sync # {} /\ ToUngrab(s) = {}
  BY <1>4, <1>5, <1>8, <1>10, <1>11, <1>14 DEF Continues, t
<1> QED
  BY <1>12, <1>13, <1>14

\* Continuing keeps the invariant.
LEMMA ContinueKeeps ==
  ASSUME NEW s \in States, One(s), Kept(s), Len(s.c) = 0, ~s.m.source, ~s.m.stuck
  PROVE  LET t == KeysSyncContinue(s) IN t \in States /\ One(t) /\ Kept(t)
<1> DEFINE t == KeysSyncContinue(s)
<1>1. Continues(s, t)
  BY ContinueOps
<1> HIDE DEF t
<1>2. One(t)
  BY <1>1 DEF Continues, Sends, One, ShellsInOrder, OneGrabber, OneOperation
<1>3. SettingsKnown(t)
  BY <1>1 DEF Continues, Kept, SettingsKnown, CustomKeys
<1>4. ToUngrab(s) # {} => t.m.keys_to_sync = s.m.keys_to_sync
  BY <1>1 DEF Continues, ToUngrab
<1>5. s.m.keys_to_sync \subseteq Objects /\ \A o \in Objects : s.m.accel_ids[o] \subseteq Accels
  BY DEF States, Managers
<1>6. ToUngrab(s) = {} => \A o \in s.m.keys_to_sync : s.m.accel_ids[o] = {}
  <2>1. ASSUME NEW o \in s.m.keys_to_sync, NEW a \in s.m.accel_ids[o]
        PROVE  <<o, a>> \in ToUngrab(s)
    BY <1>5, <2>1 DEF ToUngrab
  <2> QED
    BY <2>1
<1>7. GrabsKnown(t)
  <2>1. ASSUME NEW g \in t.w.grabs, g[1] = t.w.owner
        PROVE  \E o \in t.m.keys \cup t.m.keys_to_sync : g[2] \in t.m.accel_ids[o]
    <3>1. PICK o \in s.m.keys \cup s.m.keys_to_sync : g[2] \in s.m.accel_ids[o]
      BY <1>1, <2>1 DEF Continues, Kept, GrabsKnown
    <3>2. o \in t.m.keys \cup t.m.keys_to_sync
      BY <1>1, <1>4, <1>6, <3>1 DEF Continues
    <3> QED
      BY <1>1, <3>1, <3>2 DEF Continues
  <2> QED
    BY <2>1 DEF GrabsKnown
<1>8. CallInStep(t)
  <2>1. CASE s.m.keys_to_sync = {} /\ t = s
    BY <2>1 DEF CallInStep
  <2>2. CASE ToUngrab(s) # {} /\ Sends(s, t, "ungrab", ToUngrab(s))
    <3>1. \A o \in ObjectsOf(ToUngrab(s)) :
            o \in s.m.keys_to_sync /\ \A a \in s.m.accel_ids[o] : <<o, a>> \in ToUngrab(s)
      BY <1>5 DEF ObjectsOf, ToUngrab
    <3>2. /\ t.m.keys_to_sync = s.m.keys_to_sync /\ t.m.accel_ids = s.m.accel_ids
      BY <1>1, <1>4, <2>2 DEF Continues
    <3> QED
      BY <2>2, <3>1, <3>2 DEF CallInStep, Sends
  <2>3. CASE ToUngrab(s) = {} /\ Sends(s, t, "grab", ToGrab(s))
    <3>1. \A o \in ObjectsOf(ToGrab(s)) : o \in s.m.keys_to_sync /\ o \in s.m.keys
      BY DEF ObjectsOf, ToGrab
    <3>2. t.m.keys = s.m.keys /\ t.m.accel_ids = s.m.accel_ids
      BY <1>1 DEF Continues
    <3> QED
      BY <1>6, <2>3, <3>1, <3>2 DEF CallInStep, Sends
  <2> QED
    BY <1>1, <2>1, <2>2, <2>3 DEF Continues
<1> QED
  BY <1>1, <1>2, <1>3, <1>7, <1>8 DEF Continues, Kept, t

\* No operation is active: there is no call, and none that was never sent.
LEMMA SyncingOps ==
  ASSUME NEW s \in States, One(s)
  PROVE  Syncing(s) <=> s.m.stuck \/ Len(s.c) = 1
<1>1. DOMAIN s.c = 1 .. Len(s.c) /\ Len(s.c) \in {0, 1}
  BY DEF States, One, OneOperation
<1>2. Len(s.c) = 1 => s.c[1].current
  BY DEF One, OneOperation
<1> QED
  BY <1>1, <1>2 DEF Syncing

\* A step that leaves the shells and the call alone, and queues a sync.
Queues(s, t) ==
  /\ t \in States /\ t.c = s.c
  /\ t.w.owner = s.w.owner /\ t.w.started = s.w.started /\ t.w.alive = s.w.alive
  /\ t.w.exported = s.w.exported /\ t.w.grabs = s.w.grabs
  /\ t.m.grabber = s.m.grabber /\ t.m.connecting = s.m.connecting /\ t.m.stuck = s.m.stuck
  /\ t.m.source = ~Syncing(s) \/ t.m.source = s.m.source
  /\ t.m.accel_ids = s.m.accel_ids
  /\ s.m.keys_to_sync \subseteq t.m.keys_to_sync
  /\ s.m.keys \subseteq t.m.keys \cup t.m.keys_to_sync

LEMMA QueuesKeeps ==
  ASSUME NEW s \in States, NEW t, One(s), Kept(s), Queues(s, t), SettingsKnown(t)
  PROVE  One(t) /\ Kept(t)
<1>1. t.m.source => s.m.source \/ ~Syncing(s)
  BY DEF Queues
<1>2. t.m.source => ~s.m.stuck /\ Len(s.c) = 0
  BY <1>1, SyncingOps DEF One, OneOperation
<1>3. One(t)
  BY <1>2 DEF Queues, One, ShellsInOrder, OneGrabber, OneOperation
<1>4. CallInStep(t)
  BY DEF Queues, Kept, CallInStep
<1>5. GrabsKnown(t)
  BY DEF Queues, Kept, GrabsKnown
<1> QED
  BY <1>3, <1>4, <1>5 DEF Kept

\* "Unknown method": everything is queued again.
LEMMA RetryKeeps ==
  ASSUME NEW s \in States, One(s), Kept(s), Len(s.c) = 0
  PROVE  LET t == KeysSyncQueue(s, TRUE) IN t \in States /\ One(t) /\ Kept(t)
<1> DEFINE t == KeysSyncQueue(s, TRUE)
           l == s.m.keys_to_sync \cup s.m.keys
<1>1. /\ t \in States /\ t.w = s.w
      /\ t.m = [s.m EXCEPT !.stuck = FALSE, !.source = TRUE, !.keys_to_sync = l]
      /\ Len(t.c) = Len(s.c)
  BY RetryOps
<1>2. s.m \in Managers
  BY DEF States
<1> HIDE DEF l, t
<1>3. /\ t.m.keys_to_sync = l /\ ~t.m.stuck /\ t.m.source /\ t.m.keys = s.m.keys
      /\ t.m.grabber = s.m.grabber /\ t.m.connecting = s.m.connecting
      /\ t.m.name = s.m.name /\ t.m.accel_ids = s.m.accel_ids
      /\ t.m.custom_settings = s.m.custom_settings
  BY <1>1, <1>2 DEF Managers
<1>4. One(t)
  BY <1>1, <1>3 DEF One, ShellsInOrder, OneGrabber, OneOperation
<1>5. CallInStep(t)
  BY <1>1 DEF CallInStep
<1>6. SettingsKnown(t)
  BY <1>3 DEF Kept, SettingsKnown, CustomKeys
<1>7. GrabsKnown(t)
  BY <1>1, <1>3 DEF Kept, GrabsKnown, l
<1> QED
  BY <1>1, <1>4, <1>5, <1>6, <1>7 DEF Kept, t

\* The ids are written.
Relabelled(s, ids, t) ==
  /\ t \in States /\ t.c = s.c /\ t.w = s.w /\ t.m.accel_ids = ids
  /\ t.m.keys = s.m.keys /\ t.m.keys_to_sync = s.m.keys_to_sync /\ t.m.name = s.m.name
  /\ t.m.grabber = s.m.grabber /\ t.m.connecting = s.m.connecting
  /\ t.m.custom_settings = s.m.custom_settings
  /\ t.m.source = s.m.source /\ t.m.stuck = s.m.stuck

LEMMA RelabelOps ==
  ASSUME NEW s \in States, NEW ids \in [Objects -> SUBSET Accels]
  PROVE  Relabelled(s, ids, WithIds(s, ids))
<1> DEFINE t == WithIds(s, ids)
<1>1. t \in States /\ t.c = s.c /\ t.w = s.w /\ t.m = [s.m EXCEPT !.accel_ids = ids]
  BY IdsOps
<1>2. s.m \in Managers
  BY DEF States
<1> HIDE DEF t
<1>3. Relabelled(s, ids, t)
  BY <1>1, <1>2 DEF Relabelled, Managers
<1> QED
  BY <1>3 DEF t

\* The end of a callback ends the step.
LEMMA Closes ==
  ASSUME NEW t \in States, Done(t), One(t), Kept(t)
  PROVE  SyncInv'
<1>1. Ended(t, Here')
  BY EndOps
<1>2. One(Here') /\ Kept(Here')
  BY <1>1, EndKeeps
<1>3. KeysTypeOK'
  BY DoneOps
<1> QED
  BY <1>2, <1>3 DEF SyncInv

LEMMA SyncStartKeeps ==
  ASSUME SyncInv, KeysSyncStart
  PROVE  SyncInv'
<1>1. KeysTypeOK /\ One(Here) /\ Kept(Here)
  BY DEF SyncInv
<1>2. PICK b \in States :
        /\ b.c = calls /\ b.w = world /\ b.m = [mk EXCEPT !.source = FALSE]
        /\ mk.source /\ Done(KeysSyncContinue(b))
  BY <1>1, SyncStartOps
<1>3. Here.m = mk /\ Here.c = calls /\ Here.w = world /\ mk \in Managers
  BY <1>1, HereFields DEF KeysTypeOK
<1>4. /\ ~b.m.source /\ b.m.stuck = mk.stuck /\ b.m.keys = mk.keys
      /\ b.m.keys_to_sync = mk.keys_to_sync /\ b.m.name = mk.name
      /\ b.m.grabber = mk.grabber /\ b.m.connecting = mk.connecting
      /\ b.m.accel_ids = mk.accel_ids /\ b.m.custom_settings = mk.custom_settings
  BY <1>2, <1>3 DEF Managers
<1>5. Len(b.c) = 0 /\ ~b.m.stuck
  BY <1>1, <1>2, <1>3, <1>4 DEF One, OneOperation
<1>6. One(b)
  BY <1>1, <1>2, <1>3, <1>4 DEF One, ShellsInOrder, OneGrabber, OneOperation
<1>7. Kept(b)
  BY <1>1, <1>2, <1>3, <1>4 DEF Kept, CallInStep, SettingsKnown, GrabsKnown, CustomKeys
<1>8. KeysSyncContinue(b) \in States /\ One(KeysSyncContinue(b)) /\ Kept(KeysSyncContinue(b))
  BY <1>4, <1>5, <1>6, <1>7, ContinueKeeps
<1> QED
  BY <1>2, <1>8, Closes

LEMMA ReadyKeeps ==
  ASSUME SyncInv, NEW sh \in Shells, KeyGrabberReady(sh)
  PROVE  SyncInv'
<1>1. KeysTypeOK /\ One(Here) /\ Kept(Here)
  BY DEF SyncInv
<1>2. PICK b \in States : \E new :
        /\ b.c = calls /\ b.w = world
        /\ b.m = [mk EXCEPT !.connecting = @ \ {sh}, !.grabber = sh]
        /\ Starts(b, new, InitKbd(b)) /\ Done(InitKbd(b))
  BY <1>1, ReadyOps
<1>3. Here.m = mk /\ Here.c = calls /\ Here.w = world /\ mk \in Managers
  BY <1>1, HereFields DEF KeysTypeOK
<1>4. /\ b.m.connecting = mk.connecting \ {sh} /\ b.m.grabber = sh
      /\ b.m.keys = mk.keys /\ b.m.keys_to_sync = mk.keys_to_sync /\ b.m.name = mk.name
      /\ b.m.accel_ids = mk.accel_ids /\ b.m.custom_settings = mk.custom_settings
  BY <1>2, <1>3 DEF Managers
<1>5. sh \in mk.connecting
  BY <1>1, ReadyOps
<1>6. sh = world.started /\ b.m.connecting = {} /\ Len(b.c) = 0
  BY <1>1, <1>2, <1>3, <1>4, <1>5 DEF One, OneGrabber
<1> DEFINE t == InitKbd(b)
<1> HIDE DEF t
<1>7. PICK new : Starts(b, new, t) /\ Done(t)
  BY <1>2 DEF t
<1>8. One(t)
  BY <1>1, <1>2, <1>3, <1>4, <1>6, <1>7
     DEF Starts, One, ShellsInOrder, OneGrabber, OneOperation
<1>9. SettingsKnown(t)
  <2>1. ASSUME NEW o \in t.m.keys, t.m.name[o] \in Custom
        PROVE  t.m.name[o] \in t.m.custom_settings
    <3>1. CASE o \in new
      <4>1. t.m.name[o] \in Fixed \cup b.w.listed
        BY <1>7, <3>1 DEF Starts
      <4>2. t.m.name[o] \in b.w.listed
        BY <2>1, <4>1, KeySyncAssumption
      <4> QED
        BY <1>7, <4>2 DEF Starts
    <3>2. CASE o \notin new
      <4>1. o \in b.m.keys /\ o \in Objects
        BY <1>7, <3>2 DEF Starts, States, Managers
      <4>2. t.m.name[o] = mk.name[o]
        BY <1>4, <1>7, <3>2, <4>1 DEF Starts
      <4>3. mk.name[o] \in mk.custom_settings
        BY <1>1, <1>3, <1>4, <2>1, <4>1, <4>2 DEF Kept, SettingsKnown, CustomKeys
      <4> QED
        BY <1>4, <1>7, <4>2, <4>3 DEF Starts
    <3> QED
      BY <3>1, <3>2
  <2> QED
    BY <2>1 DEF SettingsKnown, CustomKeys
<1>10. CallInStep(t)
  BY <1>6, <1>7 DEF Starts, CallInStep
<1>11. GrabsKnown(t)
  BY <1>1, <1>2, <1>3, <1>4, <1>7 DEF Starts, Kept, GrabsKnown
<1>12. t \in States
  BY <1>7 DEF Starts
<1> QED
  BY <1>7, <1>8, <1>9, <1>10, <1>11, <1>12, Closes DEF Kept

LEMMA ExportsKeeps ==
  ASSUME SyncInv, NEW sh \in Shells, ShellExports(sh)
  PROVE  SyncInv'
<1>1. KeysTypeOK /\ One(Here) /\ Kept(Here) /\ world \in Worlds
  BY DEF SyncInv, KeysTypeOK
<1>2. KeysTypeOK'
  BY <1>1 DEF ShellExports, KeysTypeOK, Worlds
<1>3. Here.m = mk /\ Here.c = calls /\ Here.w = world
  BY <1>1, HereFields
<1>4. /\ Here'.m = mk /\ Here'.c = calls
      /\ Here'.w.exported = world.exported \cup {sh} /\ sh \in world.alive
      /\ Here'.w.owner = world.owner /\ Here'.w.started = world.started
      /\ Here'.w.alive = world.alive /\ Here'.w.grabs = world.grabs
  BY <1>1 DEF ShellExports, Here, Worlds
<1> DEFINE h == Here'
<1> HIDE DEF h
<1>5. /\ h.m = mk /\ h.c = calls
      /\ h.w.exported = world.exported \cup {sh} /\ sh \in world.alive
      /\ h.w.owner = world.owner /\ h.w.started = world.started
      /\ h.w.alive = world.alive /\ h.w.grabs = world.grabs
  BY <1>4 DEF h
<1>6. One(h)
  BY <1>1, <1>3, <1>5 DEF One, ShellsInOrder, OneGrabber, OneOperation
<1>7. Kept(h)
  BY <1>1, <1>3, <1>5 DEF Kept, CallInStep, SettingsKnown, GrabsKnown, CustomKeys
<1> QED
  BY <1>2, <1>6, <1>7 DEF SyncInv, h

\* shell_presence_changed keeps what is known of an owner that has no grabs.
LEMMA PresenceKeeps ==
  ASSUME NEW s \in States, Kept(s),
         s.w.owner = NoShell \/ Len(s.c) = 0,
         \A g \in s.w.grabs : g[1] # s.w.owner
  PROVE  Kept(PresenceChanged(s))
<1> DEFINE t == PresenceChanged(s)
<1>1. /\ t \in States /\ t.c = s.c /\ t.w = s.w /\ t.m.keys = {}
      /\ t.m.keys_to_sync = s.m.keys_to_sync /\ t.m.accel_ids = s.m.accel_ids
  BY PresenceOps
<1> HIDE DEF t
<1>2. CallInStep(t)
  BY <1>1 DEF Kept, CallInStep
<1>3. SettingsKnown(t) /\ GrabsKnown(t)
  BY <1>1 DEF SettingsKnown, CustomKeys, GrabsKnown
<1> QED
  BY <1>2, <1>3 DEF Kept, t

LEMMA ExitsKeeps ==
  ASSUME SyncInv, NEW sh \in Shells, ShellExits(sh)
  PROVE  SyncInv'
<1>1. KeysTypeOK /\ One(Here) /\ Kept(Here)
  BY DEF SyncInv
<1>2. PICK b \in States :
        /\ Moved(Here, b)
        /\ b.w.owner = IF sh = world.owner THEN NoShell ELSE world.owner
        /\ b.w.started = world.started /\ b.w.alive = world.alive \ {sh}
        /\ b.w.exported = world.exported \ {sh}
        /\ b.w.grabs = {g \in world.grabs : g[1] # sh}
        /\ Done(IF sh = world.owner THEN PresenceChanged(b) ELSE b)
  BY <1>1, ExitOps
<1>3. /\ Here.m = mk /\ Here.c = calls /\ Here.w = world /\ sh \in world.alive
      /\ sh # NoShell /\ \A g \in world.grabs : g[1] # NoShell
  BY <1>1, HereFields, ExitOps DEF KeysTypeOK, Worlds, Shells, NoShell
<1>4. b.m = mk /\ b.c = calls
  BY <1>2, <1>3 DEF Moved
<1>5. ShellsInOrder(b)
  <2>1. b.w.owner = IF b.w.started \in b.w.alive THEN b.w.started ELSE NoShell
    BY <1>1, <1>2, <1>3 DEF One, ShellsInOrder
  <2>2. /\ b.w.exported \subseteq b.w.alive
        /\ \A k \in b.w.alive : k <= b.w.started
        /\ \A g \in b.w.grabs : g[1] \in b.w.exported
    BY <1>1, <1>2, <1>3 DEF One, ShellsInOrder
  <2> QED
    BY <2>1, <2>2 DEF ShellsInOrder
<1>6. One(b)
  <2>1. OneGrabber(b)
    BY <1>1, <1>2, <1>3, <1>4 DEF One, OneGrabber
  <2>2. OneOperation(b)
    BY <1>1, <1>2, <1>3, <1>4 DEF One, OneOperation
  <2> QED
    BY <1>5, <2>1, <2>2 DEF One
<1>7. Kept(b)
  <2>1. CallInStep(b)
    BY <1>1, <1>2, <1>3, <1>4 DEF Kept, CallInStep
  <2>2. SettingsKnown(b)
    BY <1>1, <1>3, <1>4 DEF Kept, SettingsKnown, CustomKeys
  <2>3. GrabsKnown(b)
    BY <1>1, <1>2, <1>3, <1>4 DEF Kept, GrabsKnown
  <2> QED
    BY <2>1, <2>2, <2>3 DEF Kept
<1>8. CASE sh # world.owner
  BY <1>2, <1>6, <1>7, <1>8, Closes
<1>9. CASE sh = world.owner
  <2> DEFINE t == PresenceChanged(b)
  <2>1. /\ t \in States /\ t.c = b.c /\ t.w = b.w
        /\ t.m.keys = {} /\ t.m.grabber = NoShell
        /\ t.m.connecting = b.m.connecting \cup ({b.w.owner} \ {NoShell})
        /\ t.m.source = b.m.source /\ t.m.stuck = b.m.stuck
    BY PresenceOps
  <2>2. b.w.owner = NoShell
    BY <1>2, <1>9
  <2>3. Kept(t)
    BY <1>2, <1>3, <1>7, <2>2, PresenceKeeps
  <2>4. Done(t)
    BY <1>2, <1>9
  <2> HIDE DEF t
  <2>5. t.m.connecting = b.m.connecting
    BY <2>1, <2>2
  <2>6. One(t)
    BY <1>6, <2>1, <2>2, <2>5 DEF One, ShellsInOrder, OneGrabber, OneOperation
  <2> QED
    BY <2>1, <2>3, <2>4, <2>6, Closes
<1> QED
  BY <1>8, <1>9

LEMMA StartsKeeps ==
  ASSUME SyncInv, "busy" \notin Happenings, ShellStarts \/ ShellReplaced
  PROVE  SyncInv'
<1> DEFINE sh == world.started + 1
<1>1. KeysTypeOK /\ One(Here) /\ Kept(Here) /\ world \in Worlds
  BY DEF SyncInv, KeysTypeOK
<1>2. PICK b \in States :
        /\ Moved(Here, b)
        /\ b.w.owner = sh /\ b.w.started = sh /\ b.w.alive = world.alive \cup {sh}
        /\ b.w.exported = world.exported /\ b.w.grabs = world.grabs
        /\ Done(PresenceChanged(b))
  BY <1>1, ShellStartsOps
<1>3. sh \in Shells /\ NothingPending
  BY <1>1, ShellStartsOps
<1>4. Here.m = mk /\ Here.c = calls /\ Here.w = world
  BY <1>1, HereFields
<1>5. /\ b.m = mk /\ b.c = calls /\ Len(calls) = 0 /\ mk.connecting = {}
  BY <1>2, <1>3, <1>4 DEF Moved, NothingPending
<1>6. world.started \in Nat /\ world.alive \subseteq Shells /\ world.grabs \subseteq Shells \X Accels
  BY <1>1 DEF Worlds, Shells, NoShell
<1>7. \A k \in world.alive : k <= world.started /\ k \in Nat
  BY <1>1, <1>4, <1>6 DEF One, ShellsInOrder, Shells
<1>8. \A g \in b.w.grabs : g[1] # b.w.owner
  BY <1>1, <1>2, <1>4, <1>6, <1>7 DEF One, ShellsInOrder
<1>9. Kept(b)
  <2>1. CallInStep(b)
    BY <1>5 DEF CallInStep
  <2>2. SettingsKnown(b)
    BY <1>1, <1>4, <1>5 DEF Kept, SettingsKnown, CustomKeys
  <2>3. GrabsKnown(b)
    BY <1>8 DEF GrabsKnown
  <2> QED
    BY <2>1, <2>2, <2>3 DEF Kept
<1> DEFINE t == PresenceChanged(b)
<1>10. /\ t \in States /\ t.c = b.c /\ t.w = b.w
       /\ t.m.keys = {} /\ t.m.grabber = NoShell
       /\ t.m.connecting = b.m.connecting \cup ({b.w.owner} \ {NoShell})
       /\ t.m.source = b.m.source /\ t.m.stuck = b.m.stuck
  BY PresenceOps
<1>11. Kept(t)
  BY <1>5, <1>8, <1>9, PresenceKeeps
<1>12. Done(t)
  BY <1>2
<1> HIDE DEF t
<1>13. ShellsInOrder(t)
  <2>1. \A k \in t.w.alive : k <= t.w.started
    BY <1>2, <1>6, <1>7, <1>10
  <2> QED
    BY <1>1, <1>2, <1>4, <1>10, <2>1 DEF One, ShellsInOrder
<1>14. OneGrabber(t) /\ OneOperation(t)
  BY <1>1, <1>2, <1>4, <1>5, <1>10 DEF One, OneGrabber, OneOperation
<1> QED
  BY <1>10, <1>11, <1>12, <1>13, <1>14, Closes DEF One

\* The settings handlers queue what they change.
LEMMA UpdatesKeep ==
  ASSUME NEW s \in States, NEW paths, NEW old, NEW new, NEW t,
         Updates(s, paths, old, new, t), One(s), Kept(s)
  PROVE  t \in States /\ One(t) /\ Kept(t)
<1>1. s.m.keys \subseteq Objects
  BY DEF States, Managers
<1>2. Queues(s, t)
  BY DEF Updates, Queues
<1>3. SettingsKnown(t)
  <2>1. ASSUME NEW o \in t.m.keys, t.m.name[o] \in Custom
        PROVE  t.m.name[o] \in t.m.custom_settings
    <3>1. CASE o \in new
      BY <3>1 DEF Updates
    <3>2. CASE o \notin new
      <4>1. o \in s.m.keys /\ t.m.name[o] = s.m.name[o]
        BY <1>1, <3>2 DEF Updates
      <4> QED
        BY <2>1, <4>1 DEF Updates, Kept, SettingsKnown, CustomKeys
    <3> QED
      BY <3>1, <3>2
  <2> QED
    BY <2>1 DEF SettingsKnown, CustomKeys
<1> QED
  BY <1>2, <1>3, QueuesKeeps DEF Updates

LEMMA RemoveKeeps ==
  ASSUME NEW s \in States, NEW list, One(s), Kept(s)
  PROVE  LET t == RemoveCustom(s, list) IN t \in States /\ One(t) /\ Kept(t)
<1> DEFINE t == RemoveCustom(s, list)
           gone == {o \in CustomKeys(s) : s.m.name[o] \notin list}
<1>1. /\ t \in States /\ t.c = s.c /\ t.w = s.w
      /\ t.m.keys = s.m.keys \ gone
      /\ t.m.keys_to_sync = s.m.keys_to_sync \cup gone
      /\ t.m.custom_settings = s.m.custom_settings \ {s.m.name[o] : o \in gone}
      /\ t.m.name = s.m.name /\ t.m.accel_ids = s.m.accel_ids
      /\ t.m.source = s.m.source /\ t.m.stuck = s.m.stuck
      /\ t.m.grabber = s.m.grabber /\ t.m.connecting = s.m.connecting
  BY RemoveOps
<1> HIDE DEF t
<1>2. Queues(s, t)
  BY <1>1 DEF Queues
<1>3. SettingsKnown(t)
  <2>1. ASSUME NEW o \in t.m.keys, t.m.name[o] \in Custom
        PROVE  t.m.name[o] \in t.m.custom_settings
    <3>1. o \in CustomKeys(s) /\ o \notin gone
      BY <1>1, <2>1 DEF CustomKeys
    <3>2. s.m.name[o] \in list /\ s.m.name[o] \in s.m.custom_settings
      BY <3>1 DEF Kept, SettingsKnown
    <3>3. s.m.name[o] \notin {s.m.name[p] : p \in gone}
      BY <3>2
    <3> QED
      BY <1>1, <3>2, <3>3
  <2> QED
    BY <2>1 DEF SettingsKnown, CustomKeys
<1>4. One(t) /\ Kept(t)
  BY <1>2, <1>3, QueuesKeeps
<1> QED
  BY <1>1, <1>4 DEF t

LEMMA QueueKeeps ==
  ASSUME NEW s \in States, One(s), Kept(s)
  PROVE  LET t == KeysSyncQueue(s, FALSE) IN t \in States /\ One(t) /\ Kept(t)
<1> DEFINE t == KeysSyncQueue(s, FALSE)
           b == ~Syncing(s)
<1>1. t \in States /\ t.c = s.c /\ t.w = s.w /\ t.m = [s.m EXCEPT !.source = b]
  BY QueueOps
<1>2. s.m \in Managers /\ b \in BOOLEAN
  BY DEF States
<1>3. b = ~Syncing(s)
  OBVIOUS
<1> HIDE DEF b, t
<1>4. /\ t.m.source = b /\ t.m.stuck = s.m.stuck
      /\ t.m.keys = s.m.keys /\ t.m.keys_to_sync = s.m.keys_to_sync
      /\ t.m.name = s.m.name /\ t.m.accel_ids = s.m.accel_ids
      /\ t.m.grabber = s.m.grabber /\ t.m.connecting = s.m.connecting
      /\ t.m.custom_settings = s.m.custom_settings
  BY <1>1, <1>2 DEF Managers
<1>5. Queues(s, t)
  BY <1>1, <1>3, <1>4 DEF Queues
<1>6. SettingsKnown(t)
  BY <1>4 DEF Kept, SettingsKnown, CustomKeys
<1>7. One(t) /\ Kept(t)
  BY <1>5, <1>6, QueuesKeeps
<1> QED
  BY <1>1, <1>7 DEF t

\* Neither part says what the settings are.
LEMMA WorldKeeps ==
  ASSUME NEW b, b \in States, SyncInv, b.m = mk, b.c = calls,
         b.w.owner = world.owner, b.w.started = world.started, b.w.alive = world.alive,
         b.w.exported = world.exported, b.w.grabs = world.grabs
  PROVE  One(b) /\ Kept(b)
<1>1. One(Here) /\ Kept(Here) /\ Here.m = mk /\ Here.c = calls /\ Here.w = world
  BY HereFields DEF SyncInv
<1>2. One(b)
  BY <1>1 DEF One, ShellsInOrder, OneGrabber, OneOperation
<1>3. Kept(b)
  BY <1>1 DEF Kept, CallInStep, SettingsKnown, GrabsKnown, CustomKeys
<1> QED
  BY <1>2, <1>3

LEMMA FixedKeeps ==
  ASSUME SyncInv, NEW n \in Fixed, NEW v \in 0 .. MaxBinding, FixedChanged(n, v)
  PROVE  SyncInv'
<1>1. KeysTypeOK
  BY DEF SyncInv
<1>2. PICK b :
        /\ Rebound(n, b)
        /\ Done(b) \/ \E o \in KeysNamed(Here, n) : Done(Touch(b, o))
  BY <1>1, FixedOps
<1>3. b \in States /\ One(b) /\ Kept(b)
  BY <1>2, WorldKeeps DEF Rebound
<1>4. CASE Done(b)
  BY <1>3, <1>4, Closes
<1>5. ASSUME NEW o \in KeysNamed(Here, n), Done(Touch(b, o))
      PROVE  SyncInv'
  <2> DEFINE t == Touch(b, o)
  <2>1. o \in Objects
    BY <1>1 DEF KeysNamed, Here, KeysTypeOK, Managers
  <2>2. /\ t \in States /\ t.c = b.c /\ t.w = b.w
        /\ t.m.keys_to_sync = b.m.keys_to_sync \cup {o}
        /\ t.m.source = ~Syncing(b) /\ t.m.stuck = b.m.stuck /\ t.m.keys = b.m.keys
        /\ t.m.grabber = b.m.grabber /\ t.m.connecting = b.m.connecting
        /\ t.m.name = b.m.name /\ t.m.accel_ids = b.m.accel_ids
        /\ t.m.custom_settings = b.m.custom_settings
    BY <1>3, <2>1, TouchOps
  <2>3. Done(t)
    BY <1>5
  <2> HIDE DEF t
  <2>4. Queues(b, t)
    BY <2>2 DEF Queues
  <2>5. SettingsKnown(t)
    BY <1>3, <2>2 DEF Kept, SettingsKnown, CustomKeys
  <2>6. One(t) /\ Kept(t)
    BY <1>3, <2>4, <2>5, QueuesKeeps
  <2> QED
    BY <2>2, <2>3, <2>6, Closes
<1> QED
  BY <1>2, <1>4, <1>5

LEMMA CustomKeeps ==
  ASSUME SyncInv, NEW n \in Custom, NEW v \in 0 .. MaxBinding, CustomBindingChanged(n, v)
  PROVE  SyncInv'
<1>1. KeysTypeOK
  BY DEF SyncInv
<1>2. PICK b :
        /\ Rebound(n, b)
        /\ Done(b) \/ \E old, new, t : Updates(b, {n}, old, new, t) /\ Done(t)
  BY <1>1, CustomOps
<1>3. b \in States /\ One(b) /\ Kept(b)
  BY <1>2, WorldKeeps DEF Rebound
<1>4. CASE Done(b)
  BY <1>3, <1>4, Closes
<1>5. ASSUME NEW old, NEW new, NEW t, Updates(b, {n}, old, new, t), Done(t)
      PROVE  SyncInv'
  BY <1>3, <1>5, UpdatesKeep, Closes
<1> QED
  BY <1>2, <1>4, <1>5

LEMMA ListKeeps ==
  ASSUME SyncInv, NEW n \in Custom, CustomListChanged(n)
  PROVE  SyncInv'
<1>1. KeysTypeOK
  BY DEF SyncInv
<1>2. PICK list, b, old, new, t, r, q : ListSteps(list, b, old, new, t, r, q) /\ Done(q)
  BY <1>1, ListOps
<1>3. b \in States /\ One(b) /\ Kept(b)
  BY <1>2, WorldKeeps DEF ListSteps
<1>4. t \in States /\ One(t) /\ Kept(t)
  BY <1>2, <1>3, UpdatesKeep DEF ListSteps
<1>5. r \in States /\ One(r) /\ Kept(r)
  BY <1>2, <1>4, RemoveKeeps DEF ListSteps
<1>6. q \in States /\ One(q) /\ Kept(q)
  BY <1>2, <1>5, QueueKeeps DEF ListSteps
<1> QED
  BY <1>2, <1>6, Closes

\* The state without the call that was answered.
Answered(call, b) ==
  /\ b \in States /\ call \in Calls /\ b.m = mk /\ b.w = world /\ Len(b.c) = 0
  /\ Len(calls) = 1 /\ call = calls[1]

LEMMA AnsweredOps ==
  ASSUME SyncInv, NEW i, ReplyArrives(i)
  PROVE  \E call, b :
           /\ Answered(call, b)
           /\ \/ GrabDone(call, b) \/ GrabFailed(call, b)
              \/ UngrabDone(call, b) \/ UngrabFailed(call, b)
<1>1. KeysTypeOK /\ One(Here) /\ Here.c = calls /\ calls \in Seq(Calls)
  BY HereFields DEF SyncInv, KeysTypeOK
<1>2. PICK b \in States :
        /\ i \in DOMAIN calls /\ calls[i] \in Calls
        /\ b.m = mk /\ b.w = world /\ (Len(calls) = 1 => b.c = <<>>)
        /\ \/ GrabDone(calls[i], b) \/ GrabFailed(calls[i], b)
           \/ UngrabDone(calls[i], b) \/ UngrabFailed(calls[i], b)
  BY <1>1, ReplyOps
<1>3. i = 1 /\ Len(calls) = 1
  BY <1>1, <1>2 DEF One, OneOperation
<1>4. Len(b.c) = 0
  BY <1>2, <1>3
<1>5. Answered(calls[1], b)
  BY <1>2, <1>3, <1>4 DEF Answered
<1> QED
  BY <1>2, <1>3, <1>5

\* What is known of the call and of the state without it.
LEMMA AnsweredKeeps ==
  ASSUME SyncInv, NEW call, NEW b, Answered(call, b)
  PROVE  /\ One(b) /\ Kept(b) /\ ~b.m.source /\ ~b.m.stuck
         /\ ~call.cancelled /\ call.kind \in {"grab", "ungrab"} /\ call.to = world.started
         /\ call.to \in Shells /\ call.items \subseteq Objects \X Accels
         /\ call.kind = "grab" =>
              \A o \in ObjectsOf(call.items) :
                world.owner # NoShell => o \in mk.keys \cup mk.keys_to_sync
         /\ call.kind # "grab" =>
              \A o \in ObjectsOf(call.items) : \A a \in mk.accel_ids[o] : <<o, a>> \in call.items
         /\ Outcome(call) \in {"failed", "unknown method", "done"}
         /\ Outcome(call) = "failed" => world.owner = NoShell
         /\ Outcome(call) = "done" => call.to \in world.exported /\ world.owner = call.to
<1>1. KeysTypeOK /\ One(Here) /\ Kept(Here)
  BY DEF SyncInv
<1>2. Here.m = mk /\ Here.c = calls /\ Here.w = world
  BY <1>1, HereFields
<1>3. /\ b.m = mk /\ b.w = world /\ Len(b.c) = 0 /\ Len(calls) = 1 /\ call = calls[1]
      /\ call \in Calls
  BY DEF Answered
<1>4. ~b.m.source /\ ~b.m.stuck
  BY <1>1, <1>2, <1>3 DEF One, OneOperation
<1>5. One(b)
  BY <1>1, <1>2, <1>3 DEF One, ShellsInOrder, OneGrabber, OneOperation
<1>6. Kept(b)
  BY <1>1, <1>2, <1>3 DEF Kept, CallInStep, SettingsKnown, GrabsKnown, CustomKeys
<1>7. ~call.cancelled /\ call.kind \in {"grab", "ungrab"} /\ call.to = world.started
  BY <1>1, <1>2, <1>3 DEF One, OneOperation
<1>8. call.to \in Shells /\ call.items \subseteq Objects \X Accels
  BY <1>3 DEF Calls
<1>9. /\ call.kind = "grab" =>
           \A o \in ObjectsOf(call.items) :
             world.owner # NoShell => o \in mk.keys \cup mk.keys_to_sync
      /\ call.kind # "grab" =>
           \A o \in ObjectsOf(call.items) : \A a \in mk.accel_ids[o] : <<o, a>> \in call.items
  BY <1>1, <1>2, <1>3, <1>7 DEF Kept, CallInStep
<1>10. /\ Outcome(call) \in {"failed", "unknown method", "done"}
       /\ Outcome(call) = "failed" => world.owner = NoShell
       /\ Outcome(call) = "done" => call.to \in world.exported /\ world.owner = call.to
  BY <1>1, <1>2, <1>7 DEF Outcome, One, ShellsInOrder
<1> QED
  BY <1>4, <1>5, <1>6, <1>7, <1>8, <1>9, <1>10

\* Other grabs and other ids, of a state without calls.
LEMMA RegrabKeeps ==
  ASSUME NEW s \in States, One(s), Kept(s), Len(s.c) = 0,
         NEW gs, NEW d, Regrabbed(s, gs, d), NEW ids, NEW t, Relabelled(d, ids, t),
         \A g \in gs : g[1] \in s.w.exported,
         \A g \in gs : g[1] = s.w.owner =>
           \E o \in s.m.keys \cup s.m.keys_to_sync : g[2] \in ids[o]
  PROVE  One(t) /\ Kept(t) /\ Len(t.c) = 0 /\ t.m.source = s.m.source /\ t.m.stuck = s.m.stuck
<1>1. One(t)
  BY DEF Regrabbed, Relabelled, One, ShellsInOrder, OneGrabber, OneOperation
<1>2. CallInStep(t)
  BY DEF Regrabbed, Relabelled, CallInStep
<1>3. SettingsKnown(t)
  BY DEF Regrabbed, Relabelled, Kept, SettingsKnown, CustomKeys
<1>4. GrabsKnown(t)
  BY DEF Regrabbed, Relabelled, GrabsKnown
<1> QED
  BY <1>1, <1>2, <1>3, <1>4 DEF Kept, Regrabbed, Relabelled

\* No operation is active any more, and the sync goes on from d.
Onward(d) ==
  /\ d \in States /\ One(d) /\ Kept(d) /\ Len(d.c) = 0 /\ ~d.m.source /\ ~d.m.stuck
  /\ Done(KeysSyncContinue(d))

LEMMA OnwardKeeps ==
  ASSUME NEW d, Onward(d)
  PROVE  SyncInv'
<1> DEFINE t == KeysSyncContinue(d)
<1>1. t \in States /\ One(t) /\ Kept(t)
  BY ContinueKeeps DEF Onward
<1>2. Done(t)
  BY DEF Onward
<1> HIDE DEF t
<1> QED
  BY <1>1, <1>2, Closes

\* The ids of what was granted.
LEMMA GrabDoneOps ==
  ASSUME SyncInv, NEW call, NEW b, Answered(call, b), GrabDone(call, b)
  PROVE  \E g \in Grants(call) : \E d, given :
           /\ Regrabbed(b, world.grabs \cup AtShell(call.to, g), d)
           /\ Relabelled(d, Given(d, g), given) /\ Onward(given)
<1>1. /\ One(b) /\ Kept(b) /\ ~b.m.source /\ ~b.m.stuck /\ ~call.cancelled
      /\ call.to \in Shells /\ call.items \subseteq Objects \X Accels
      /\ \A o \in ObjectsOf(call.items) :
           world.owner # NoShell => o \in mk.keys \cup mk.keys_to_sync
      /\ call.to \in world.exported /\ world.owner = call.to
  BY AnsweredKeeps DEF GrabDone
<1>2. b \in States /\ b.m = mk /\ b.w = world /\ Len(b.c) = 0 /\ call \in Calls
  BY DEF Answered
<1>3. PICK g \in Grants(call), d \in States :
        /\ Regrabbed(b, world.grabs \cup AtShell(call.to, g), d)
        /\ Done(GrabComplete(d, call, "done", g))
  BY DEF GrabDone
<1>4. g \in SUBSET call.items /\ g \in SUBSET (Objects \X Accels)
  BY <1>1 DEF Grants
<1> DEFINE ids == Given(d, g)
           given == WithIds(d, ids)
           gs == world.grabs \cup AtShell(call.to, g)
<1>5. ids \in [Objects -> SUBSET Accels]
  BY <1>4, IdsTyped
<1>6. Relabelled(d, ids, given)
  BY <1>5, RelabelOps
<1>7. GrabComplete(d, call, "done", g) = KeysSyncContinue(given)
  BY <1>1, GivenOps
<1>8. d.m = mk
  BY <1>2, <1>3 DEF Regrabbed
<1>9. \A k \in gs : k[1] \in b.w.exported
  BY <1>1, <1>2 DEF One, ShellsInOrder, AtShell
<1>10. /\ \A o \in Objects : mk.accel_ids[o] \subseteq ids[o]
       /\ \A i \in g : i[2] \in ids[i[1]]
  BY <1>4, <1>8 DEF Given
<1>11. NoShell \notin Shells
  BY DEF NoShell, Shells
<1>12. mk.keys \cup mk.keys_to_sync \subseteq Objects
  BY <1>2 DEF States, Managers
<1>13. ASSUME NEW k \in gs, k[1] = b.w.owner
       PROVE  \E o \in b.m.keys \cup b.m.keys_to_sync : k[2] \in ids[o]
  <2>1. CASE k \in world.grabs
    <3>1. PICK o \in mk.keys \cup mk.keys_to_sync : k[2] \in mk.accel_ids[o]
      BY <1>1, <1>2, <1>13, <2>1 DEF Kept, GrabsKnown
    <3> QED
      BY <1>2, <1>10, <1>12, <3>1
  <2>2. CASE k \in AtShell(call.to, g)
    <3>1. PICK i \in g : k = <<call.to, i[2]>>
      BY <2>2 DEF AtShell
    <3>2. i[1] \in ObjectsOf(call.items)
      BY <1>4 DEF ObjectsOf
    <3>3. i[1] \in mk.keys \cup mk.keys_to_sync
      BY <1>1, <1>11, <3>2
    <3> QED
      BY <1>2, <1>10, <3>1, <3>3
  <2> QED
    BY <2>1, <2>2
<1> HIDE DEF ids, given, gs
<1>14. Regrabbed(b, gs, d)
  BY <1>3 DEF gs
<1>15. /\ One(given) /\ Kept(given) /\ Len(given.c) = 0
       /\ given.m.source = b.m.source /\ given.m.stuck = b.m.stuck
  BY <1>1, <1>2, <1>6, <1>9, <1>13, <1>14, RegrabKeeps
<1>16. given \in States
  BY <1>6 DEF Relabelled
<1>17. Done(KeysSyncContinue(given))
  BY <1>3, <1>7
<1>18. Onward(given)
  BY <1>1, <1>15, <1>16, <1>17 DEF Onward
<1> QED
  BY <1>3, <1>6, <1>18 DEF ids

LEMMA GrabDoneKeeps ==
  ASSUME SyncInv, NEW call, NEW b, Answered(call, b), GrabDone(call, b)
  PROVE  SyncInv'
<1>1. PICK given : Onward(given)
  BY GrabDoneOps
<1> QED
  BY <1>1, OnwardKeeps

\* A failure: the keys are queued again, or the shell is gone and the sync goes on.
LEMMA GrabFailedOps ==
  ASSUME SyncInv, NEW call, NEW b, Answered(call, b), GrabFailed(call, b)
  PROVE  Done(KeysSyncQueue(b, TRUE)) \/ (world.owner = NoShell /\ Onward(b))
<1>1. /\ One(b) /\ Kept(b) /\ ~b.m.source /\ ~b.m.stuck
      /\ Outcome(call) \in {"failed", "unknown method"}
      /\ Outcome(call) = "failed" => world.owner = NoShell
  BY AnsweredKeeps DEF GrabFailed
<1>2. b \in States /\ Len(b.c) = 0
  BY DEF Answered
<1>3. Done(GrabComplete(b, call, Outcome(call), {}))
  BY DEF GrabFailed
<1>4. CASE Outcome(call) = "unknown method"
  BY <1>3, <1>4, MissedOps
<1>5. CASE Outcome(call) = "failed"
  <2>1. Done(KeysSyncContinue(b))
    BY <1>3, <1>5, MissedOps
  <2> QED
    BY <1>1, <1>2, <1>5, <2>1 DEF Onward
<1> QED
  BY <1>1, <1>4, <1>5

LEMMA RetriesKeep ==
  ASSUME SyncInv, NEW call, NEW b, Answered(call, b), Done(KeysSyncQueue(b, TRUE))
  PROVE  SyncInv'
<1>1. One(b) /\ Kept(b) /\ b \in States /\ Len(b.c) = 0
  BY AnsweredKeeps DEF Answered
<1> DEFINE t == KeysSyncQueue(b, TRUE)
<1>2. t \in States /\ One(t) /\ Kept(t)
  BY <1>1, RetryKeeps
<1> HIDE DEF t
<1> QED
  BY <1>2, Closes DEF t

LEMMA GrabFailedKeeps ==
  ASSUME SyncInv, NEW call, NEW b, Answered(call, b), GrabFailed(call, b)
  PROVE  SyncInv'
BY GrabFailedOps, RetriesKeep, OnwardKeeps

LEMMA UngrabDoneOps ==
  ASSUME SyncInv, NEW call, NEW b, Answered(call, b), UngrabDone(call, b)
  PROVE  \E d, cleared :
           /\ Regrabbed(b, world.grabs \ AtShell(call.to, call.items), d)
           /\ Relabelled(d, Cleared(d, call), cleared) /\ Onward(cleared)
<1>1. /\ One(b) /\ Kept(b) /\ ~b.m.source /\ ~b.m.stuck /\ ~call.cancelled
      /\ call.to \in Shells /\ call.items \subseteq Objects \X Accels
      /\ \A o \in ObjectsOf(call.items) : \A a \in mk.accel_ids[o] : <<o, a>> \in call.items
      /\ call.to \in world.exported /\ world.owner = call.to
  BY AnsweredKeeps DEF UngrabDone
<1>0. ToRelease(call) = call.items
  BY AnsweredKeeps DEF UngrabDone, ToRelease
<1>2. b \in States /\ b.m = mk /\ b.w = world /\ Len(b.c) = 0
  BY DEF Answered
<1>3. PICK d \in States :
        /\ Regrabbed(b, world.grabs \ AtShell(call.to, call.items), d)
        /\ Done(UngrabComplete(d, call, "done"))
  BY <1>0 DEF UngrabDone
<1> DEFINE ids == Cleared(d, call)
           cleared == WithIds(d, ids)
           gs == world.grabs \ AtShell(call.to, call.items)
<1>4. ids \in [Objects -> SUBSET Accels]
  BY IdsTyped
<1>5. Relabelled(d, ids, cleared)
  BY <1>4, RelabelOps
<1>6. UngrabComplete(d, call, "done") = KeysSyncContinue(cleared)
  BY <1>1, UngrabOps
<1>7. d.m = mk
  BY <1>2, <1>3 DEF Regrabbed
<1>8. \A k \in gs : k[1] \in b.w.exported
  BY <1>1, <1>2 DEF One, ShellsInOrder
<1>9. mk.keys \cup mk.keys_to_sync \subseteq Objects /\ world.grabs \subseteq Shells \X Accels
  BY <1>2 DEF States, Managers, Worlds
<1>10. ASSUME NEW k \in gs, k[1] = b.w.owner
       PROVE  \E o \in b.m.keys \cup b.m.keys_to_sync : k[2] \in ids[o]
  <2>1. PICK o \in mk.keys \cup mk.keys_to_sync : k[2] \in mk.accel_ids[o]
    BY <1>1, <1>2, <1>10 DEF Kept, GrabsKnown
  <2>2. k = <<call.to, k[2]>>
    BY <1>1, <1>2, <1>9, <1>10
  <2>3. o \notin ObjectsOf(call.items)
    <3>1. ASSUME o \in ObjectsOf(call.items)
          PROVE  FALSE
      <4>1. <<o, k[2]>> \in call.items
        BY <1>1, <2>1, <3>1
      <4>2. <<call.to, k[2]>> \in AtShell(call.to, call.items)
        BY <4>1 DEF AtShell
      <4> QED
        BY <2>2, <4>2
    <3> QED
      BY <3>1
  <2>4. ids[o] = mk.accel_ids[o]
    BY <1>7, <1>9, <2>3 DEF Cleared
  <2> QED
    BY <1>2, <2>1, <2>4
<1> HIDE DEF ids, cleared, gs
<1>11. Regrabbed(b, gs, d)
  BY <1>3 DEF gs
<1>12. /\ One(cleared) /\ Kept(cleared) /\ Len(cleared.c) = 0
       /\ cleared.m.source = b.m.source /\ cleared.m.stuck = b.m.stuck
  BY <1>1, <1>2, <1>5, <1>8, <1>10, <1>11, RegrabKeeps
<1>13. cleared \in States
  BY <1>5 DEF Relabelled
<1>14. Done(KeysSyncContinue(cleared))
  BY <1>3, <1>6
<1>15. Onward(cleared)
  BY <1>1, <1>12, <1>13, <1>14 DEF Onward
<1> QED
  BY <1>3, <1>5, <1>15 DEF ids

LEMMA UngrabDoneKeeps ==
  ASSUME SyncInv, NEW call, NEW b, Answered(call, b), UngrabDone(call, b)
  PROVE  SyncInv'
<1>1. PICK cleared : Onward(cleared)
  BY UngrabDoneOps
<1> QED
  BY <1>1, OnwardKeeps

LEMMA UngrabFailedOps ==
  ASSUME SyncInv, NEW call, NEW b, Answered(call, b), UngrabFailed(call, b)
  PROVE  \/ Done(KeysSyncQueue(b, TRUE))
         \/ /\ world.owner = NoShell
            /\ \E cleared : Relabelled(b, Cleared(b, call), cleared) /\ Onward(cleared)
<1>1. /\ One(b) /\ Kept(b) /\ ~b.m.source /\ ~b.m.stuck /\ ~call.cancelled
      /\ Outcome(call) \in {"failed", "unknown method"}
      /\ Outcome(call) = "failed" => world.owner = NoShell
  BY AnsweredKeeps DEF UngrabFailed
<1>2. b \in States /\ b.m = mk /\ b.w = world /\ Len(b.c) = 0
  BY DEF Answered
<1> DEFINE t == UngrabComplete(b, call, Outcome(call))
           ids == Cleared(b, call)
           cleared == WithIds(b, ids)
<1>3. t = IF Outcome(call) = "unknown method" THEN KeysSyncQueue(b, TRUE)
          ELSE IF call.cancelled THEN cleared ELSE KeysSyncContinue(cleared)
  BY <1>2, UngrabOps
<1>4. ids \in [Objects -> SUBSET Accels]
  BY <1>2, IdsTyped
<1>5. Relabelled(b, ids, cleared)
  BY <1>2, <1>4, RelabelOps
<1>6. Done(t)
  BY DEF UngrabFailed
<1> HIDE DEF t, cleared
<1>7. CASE Outcome(call) = "unknown method"
  BY <1>3, <1>6, <1>7
<1>8. CASE Outcome(call) = "failed"
  <2> HIDE DEF ids
  <2>1. Done(KeysSyncContinue(cleared))
    BY <1>1, <1>3, <1>6, <1>8
  <2>2. \A k \in world.grabs : k[1] # b.w.owner
    BY <1>1, <1>2, <1>8 DEF States, Worlds, Shells, NoShell
  <2>3. One(cleared)
    BY <1>1, <1>5 DEF Relabelled, One, ShellsInOrder, OneGrabber, OneOperation
  <2>4. CallInStep(cleared) /\ GrabsKnown(cleared)
    BY <1>2, <1>5, <2>2 DEF Relabelled, CallInStep, GrabsKnown
  <2>5. SettingsKnown(cleared)
    BY <1>1, <1>5 DEF Relabelled, Kept, SettingsKnown, CustomKeys
  <2>6. cleared \in States /\ Len(cleared.c) = 0 /\ ~cleared.m.source /\ ~cleared.m.stuck
    BY <1>1, <1>2, <1>5 DEF Relabelled
  <2>7. Onward(cleared)
    BY <2>1, <2>3, <2>4, <2>5, <2>6 DEF Onward, Kept
  <2> QED
    BY <1>1, <1>5, <1>8, <2>7 DEF ids
<1> QED
  BY <1>1, <1>7, <1>8

LEMMA UngrabFailedKeeps ==
  ASSUME SyncInv, NEW call, NEW b, Answered(call, b), UngrabFailed(call, b)
  PROVE  SyncInv'
BY UngrabFailedOps, RetriesKeep, OnwardKeeps

LEMMA SyncInit ==
  ASSUME KeysInit
  PROVE  SyncInv
<1>1. KeysTypeOK
  BY TypeInit
<1>2. Here.m = mk /\ Here.c = calls /\ Here.w = world
  BY <1>1, HereFields
<1>3. /\ mk.grabber = NoShell /\ mk.connecting = {} /\ mk.keys = {}
      /\ ~mk.source /\ ~mk.stuck /\ Len(calls) = 0
  BY DEF KeysInit
<1>4. /\ world.owner = NoShell /\ world.started = NoShell /\ world.alive = {}
      /\ world.exported = {} /\ world.grabs = {}
  BY DEF KeysInit
<1>5. One(Here)
  BY <1>2, <1>3, <1>4 DEF One, ShellsInOrder, OneGrabber, OneOperation
<1>6. Kept(Here)
  BY <1>2, <1>3, <1>4 DEF Kept, CallInStep, SettingsKnown, GrabsKnown, CustomKeys
<1> QED
  BY <1>1, <1>5, <1>6 DEF SyncInv

LEMMA ReplyKeeps ==
  ASSUME SyncInv, NEW i, ReplyArrives(i)
  PROVE  SyncInv'
<1>1. PICK call, b :
        /\ Answered(call, b)
        /\ \/ GrabDone(call, b) \/ GrabFailed(call, b)
           \/ UngrabDone(call, b) \/ UngrabFailed(call, b)
  BY AnsweredOps
<1> QED
  BY <1>1, GrabDoneKeeps, GrabFailedKeeps, UngrabDoneKeeps, UngrabFailedKeeps

LEMMA SyncStep ==
  ASSUME SyncInv, "busy" \notin Happenings, [KeysNext]_kvars
  PROVE  SyncInv'
<1>1. CASE UNCHANGED kvars
  <2>1. Here' = Here /\ KeysTypeOK'
    BY <1>1 DEF kvars, Here, SyncInv, KeysTypeOK
  <2> QED
    BY <2>1 DEF SyncInv
<1>2. CASE KeysNext
  BY <1>2, SyncStartKeeps, ReadyKeeps, ExportsKeeps, ExitsKeeps, StartsKeeps,
     ReplyKeeps, FixedKeeps, ListKeeps, CustomKeeps DEF KeysNext
<1> QED
  BY <1>1, <1>2

LEMMA SyncAlways ==
  ASSUME "busy" \notin Happenings
  PROVE  KeysSpec => []SyncInv
<1>1. KeysInit => SyncInv
  BY SyncInit
<1>2. SyncInv /\ [KeysNext]_kvars => SyncInv'
  BY SyncStep
<1> QED
  BY <1>1, <1>2, PTL DEF KeysSpec

\* As long as no shell is replaced while it owes an answer, a queued sync
\* starts alone, keys are bare when the ids of a grab come, and each custom key
\* has the settings get_bindings looks up.
THEOREM AssertionsCorrect ==
  ASSUME "busy" \notin Happenings
  PROVE  KeysSpec => []AssertionsHold
<1>1. SyncInv => AssertionsHold
  <2> SUFFICES ASSUME SyncInv PROVE AssertionsHold
    OBVIOUS
  <2>1. One(Here) /\ Kept(Here) /\ Here.m = mk /\ Here.c = calls /\ Here \in States
    BY HereFields DEF SyncInv
  <2>2. GrabsForBareKeys
    <3>1. DOMAIN calls = 1 .. Len(calls) /\ Len(calls) \in {0, 1}
      BY <2>1 DEF One, OneOperation, States
    <3> QED
      BY <2>1, <3>1 DEF GrabsForBareKeys, Kept, CallInStep
  <2>3. SyncStartsAlone
    BY <2>1, SyncingOps DEF SyncStartsAlone, One, OneOperation
  <2>4. CustomKeysHaveSettings
    BY <2>1 DEF CustomKeysHaveSettings, Kept, SettingsKnown
  <2> QED
    BY <2>2, <2>3, <2>4 DEF AssertionsHold
<1> QED
  BY <1>1, SyncAlways, PTL

\* Under the same condition no accelerator stays grabbed at the shell in use
\* without a key that knows its id.
THEOREM NoLostGrabCorrect ==
  ASSUME "busy" \notin Happenings
  PROVE  KeysSpec => []NoLostGrab
<1>1. SyncInv => NoLostGrab
  <2> SUFFICES ASSUME SyncInv PROVE NoLostGrab
    OBVIOUS
  <2>1. Kept(Here) /\ Here.m = mk /\ Here.w = world
    BY HereFields DEF SyncInv
  <2> QED
    BY <2>1 DEF NoLostGrab, Kept, GrabsKnown, Referenced
<1> QED
  BY <1>1, SyncAlways, PTL

-------------------------------------------------------------------------------
(* What is grabbed.  If the custom bindings also change only where the      *)
(* daemon hears of it, every key of the settings has one object, an object  *)
(* has ids of its own binding only, and what is not queued and not under    *)
(* way is grabbed.                                                          *)

IdsNamed(s) == \A o \in Objects : \A a \in s.m.accel_ids[o] : a[1] = s.m.name[o]
IdsApart(s) == \A o, p \in Objects : \A a : a \in s.m.accel_ids[o] /\ a \in s.m.accel_ids[p] => o = p
Freed(s)    == \A o \in Free(s) : s.m.accel_ids[o] = {}

\* One key for each name of the settings that can have one; what is in
\* custom_settings and not in the list is incomplete.
OneKeyEach(s) ==
  /\ \A o, p \in s.m.keys : s.m.name[o] = s.m.name[p] => o = p
  /\ \A o \in s.m.keys : s.m.name[o] \in Fixed \cup s.w.listed
  /\ s.m.grabber = NoShell => s.m.keys = {}
  /\ s.m.grabber # NoShell =>
       /\ s.w.listed \subseteq s.m.custom_settings
       /\ \A n \in Fixed \cup s.w.listed :
            Complete(s, n) => \E o \in s.m.keys : s.m.name[o] = n
  /\ \A n \in s.m.custom_settings \ s.w.listed : ~Complete(s, n)

Active(s) == s.m.grabber # NoShell /\ s.m.grabber = s.w.owner

\* What a grab under way asks for.
Asked(s, o) == {a \in Accels : Len(s.c) = 1 /\ s.c[1].kind = "grab" /\ <<o, a>> \in s.c[1].items}

QueueSeen(s) == s.m.keys_to_sync = {} \/ s.m.source \/ Len(s.c) = 1

\* Keys that are not queued are grabbed, or about to be; what keys hold is grabbed.
KeysInStep(s) ==
  /\ \A o \in s.m.keys \ s.m.keys_to_sync :
       s.m.accel_ids[o] \cup Asked(s, o) = GetBindings(s, o)
  /\ \A o \in s.m.keys : \A a \in s.m.accel_ids[o] : <<s.w.owner, a>> \in s.w.grabs

\* A grab asks for accelerators of its keys that nobody holds; an ungrab gives
\* up what its keys hold.
ItemsInStep(s) ==
  Len(s.c) = 1 =>
    /\ s.c[1].kind = "grab" =>
         \A i \in s.c[1].items :
           /\ i[2][1] = s.m.name[i[1]]
           /\ <<s.w.owner, i[2]>> \notin s.w.grabs
           /\ \A j \in s.c[1].items : i[2] = j[2] => i = j
           /\ \A o \in Objects : i[2] \notin s.m.accel_ids[o]
    /\ s.c[1].kind = "ungrab" => \A i \in s.c[1].items : i[2] \in s.m.accel_ids[i[1]]

InStep(s) == QueueSeen(s) /\ KeysInStep(s) /\ ItemsInStep(s)

\* Between the steps of a callback, objects that are not used any more may
\* still have their ids.
Between(s) == IdsNamed(s) /\ IdsApart(s) /\ OneKeyEach(s) /\ (Active(s) => InStep(s))

GrabInv == SyncInv /\ Between(Here) /\ Freed(Here)

LEMMA SameFree ==
  ASSUME NEW s, NEW t, t.c = s.c, t.m.keys = s.m.keys, t.m.keys_to_sync = s.m.keys_to_sync
  PROVE  Free(t) = Free(s)
BY DEF Free, Referenced

LEMMA EndGrabs ==
  ASSUME NEW s \in States, NEW h, Ended(s, h), Between(s)
  PROVE  Between(h) /\ Freed(h)
<1>1. /\ \A o \in s.m.keys \cup s.m.keys_to_sync :
           h.m.accel_ids[o] = s.m.accel_ids[o] /\ h.m.name[o] = s.m.name[o]
      /\ \A i \in 1 .. Len(s.c) : \A o \in ObjectsOf(s.c[i].items) :
           h.m.accel_ids[o] = s.m.accel_ids[o] /\ h.m.name[o] = s.m.name[o]
      /\ \A o \in Objects :
           h.m.accel_ids[o] = {} \/ (h.m.accel_ids[o] = s.m.accel_ids[o] /\ h.m.name[o] = s.m.name[o])
  BY InUse DEF Ended
<1>2. h.c = s.c /\ h.w = s.w
  BY DEF Ended
<1>3. IdsNamed(h) /\ IdsApart(h)
  <2>1. IdsNamed(h)
    BY <1>1 DEF Between, IdsNamed
  <2>2. IdsApart(h)
    BY <1>1 DEF Between, IdsApart
  <2> QED
    BY <2>1, <2>2
<1>4. Freed(h)
  <2>1. Free(h) = Free(s)
    BY SameFree DEF Ended
  <2> QED
    BY <2>1, FreeTyped DEF Ended, Freed
<1>5. OneKeyEach(h)
  <2>1. \A n : Complete(h, n) <=> Complete(s, n)
    BY <1>2 DEF Complete
  <2>2. OneKeyEach(s)
    BY DEF Between
  <2>3. \A o \in s.m.keys : h.m.name[o] = s.m.name[o]
    BY <1>1
  <2> QED
    BY <1>2, <2>1, <2>2, <2>3 DEF Ended, OneKeyEach
<1>6. ASSUME Active(h)
      PROVE  InStep(h)
  <2>1. InStep(s)
    BY <1>6 DEF Ended, Between, Active
  <2>2. QueueSeen(h)
    BY <2>1 DEF Ended, InStep, QueueSeen
  <2>3. KeysInStep(h)
    <3>1. \A o \in s.m.keys : Asked(h, o) = Asked(s, o) /\ GetBindings(h, o) = GetBindings(s, o)
      BY <1>1, <1>2 DEF Asked, GetBindings
    <3> QED
      BY <1>1, <2>1, <3>1 DEF Ended, InStep, KeysInStep
  <2>4. ItemsInStep(h)
    <3>1. ASSUME Len(s.c) = 1
          PROVE  \A i \in s.c[1].items : h.m.name[i[1]] = s.m.name[i[1]] /\ h.m.accel_ids[i[1]] = s.m.accel_ids[i[1]]
      BY <1>1, <3>1 DEF ObjectsOf
    <3>2. \A o \in Objects : h.m.accel_ids[o] \subseteq s.m.accel_ids[o]
      BY <1>1
    <3> QED
      BY <1>2, <2>1, <3>1, <3>2 DEF InStep, ItemsInStep
  <2> QED
    BY <2>2, <2>3, <2>4 DEF InStep
<1> QED
  BY <1>3, <1>4, <1>5, <1>6 DEF Between

\* The end of a callback ends the step.
LEMMA GrabsClose ==
  ASSUME NEW t \in States, Done(t), Between(t), SyncInv'
  PROVE  GrabInv'
<1>1. Ended(t, Here')
  BY EndOps
<1>2. Between(Here') /\ Freed(Here')
  BY <1>1, EndGrabs
<1> QED
  BY <1>2 DEF GrabInv

\* keys_sync_continue puts the keys in step.
LEMMA ContinueGrabs ==
  ASSUME NEW s \in States, One(s), Kept(s), Len(s.c) = 0, ~s.m.source, ~s.m.stuck,
         IdsNamed(s), IdsApart(s), OneKeyEach(s), Active(s) => KeysInStep(s) /\ Freed(s)
  PROVE  Between(KeysSyncContinue(s))
<1> DEFINE t == KeysSyncContinue(s)
<1>1. Continues(s, t)
  BY ContinueOps
<1> HIDE DEF t
<1>2. /\ t.m.name = s.m.name /\ t.m.accel_ids = s.m.accel_ids /\ t.m.keys = s.m.keys
      /\ t.m.custom_settings = s.m.custom_settings /\ t.m.grabber = s.m.grabber
      /\ t.w = s.w /\ t.m.source = s.m.source
  BY <1>1 DEF Continues
<1>3. IdsNamed(t) /\ IdsApart(t)
  BY <1>2 DEF IdsNamed, IdsApart
<1>4. OneKeyEach(t)
  <2>1. \A n : Complete(t, n) <=> Complete(s, n)
    BY <1>2 DEF Complete
  <2> QED
    BY <1>2, <2>1 DEF OneKeyEach
<1>5. ASSUME Active(t)
      PROVE  InStep(t)
  <2>1. Active(s) /\ s.m.grabber # NoShell
    BY <1>2, <1>5 DEF Active
  <2>2. /\ \A o \in s.m.keys \ s.m.keys_to_sync : s.m.accel_ids[o] = GetBindings(s, o)
        /\ \A o \in s.m.keys : \A a \in s.m.accel_ids[o] : <<s.w.owner, a>> \in s.w.grabs
        /\ Freed(s)
    <3>1. \A o : Asked(s, o) = {}
      BY DEF Asked
    <3> QED
      BY <2>1, <3>1 DEF KeysInStep
  <2>3. \A o : GetBindings(t, o) = GetBindings(s, o)
    BY <1>2 DEF GetBindings
  <2>4. /\ s.m.keys \subseteq Objects /\ s.m.keys_to_sync \subseteq Objects
        /\ \A o \in Objects : s.m.accel_ids[o] \subseteq Accels
    BY DEF States, Managers
  <2>5. CASE s.m.keys_to_sync = {} /\ t = s
    <3>1. QueueSeen(s) /\ ItemsInStep(s)
      BY <2>5 DEF QueueSeen, ItemsInStep
    <3>2. KeysInStep(s)
      BY <2>1
    <3> QED
      BY <2>5, <3>1, <3>2 DEF InStep
  <2>6. CASE /\ ToUngrab(s) # {} /\ t.m.keys_to_sync = s.m.keys_to_sync
             /\ Sends(s, t, "ungrab", ToUngrab(s))
    <3>1. Len(t.c) = 1 /\ t.c[1].kind = "ungrab" /\ t.c[1].items = ToUngrab(s)
      BY <2>1, <2>6 DEF Sends
    <3>2. \A o : Asked(t, o) = {}
      BY <3>1 DEF Asked
    <3>3. KeysInStep(t)
      BY <1>2, <2>2, <2>3, <2>6, <3>2 DEF KeysInStep
    <3>4. \A i \in ToUngrab(s) : i[2] \in s.m.accel_ids[i[1]]
      BY DEF ToUngrab
    <3> QED
      BY <1>2, <3>1, <3>3, <3>4 DEF InStep, QueueSeen, ItemsInStep
  <2>7. CASE /\ ToUngrab(s) = {} /\ t.m.keys_to_sync = {}
             /\ Sends(s, t, "grab", ToGrab(s))
    <3>1. Len(t.c) = 1 /\ t.c[1].kind = "grab" /\ t.c[1].items = ToGrab(s)
      BY <2>1, <2>7 DEF Sends
    <3>2. \A o \in s.m.keys_to_sync : s.m.accel_ids[o] = {}
      <4>1. ASSUME NEW o \in s.m.keys_to_sync, NEW a \in s.m.accel_ids[o]
            PROVE  <<o, a>> \in ToUngrab(s)
        BY <2>4, <4>1 DEF ToUngrab
      <4> QED
        BY <2>7, <4>1
    <3>3. ASSUME NEW o \in s.m.keys
          PROVE  GetBindings(s, o) \subseteq Accels /\ \A a \in GetBindings(s, o) : a[1] = s.m.name[o]
      <4>1. s.m.name[o] \in Names /\ s.w.binding \in [Names -> 0 .. MaxBinding]
        BY <2>4 DEF States, Managers, Worlds
      <4>2. s.w.binding[s.m.name[o]] # 0 => s.w.binding[s.m.name[o]] \in 1 .. MaxBinding
        BY <4>1, KeySyncAssumption
      <4> QED
        BY <4>1, <4>2 DEF GetBindings, Accels
    <3>4. \A i \in ToGrab(s) :
            /\ i = <<i[1], i[2]>> /\ i[1] \in s.m.keys /\ i[1] \in s.m.keys_to_sync
            /\ i[2] \in GetBindings(s, i[1])
      BY DEF ToGrab
    <3>5. ASSUME NEW o \in s.m.keys
          PROVE  s.m.accel_ids[o] \cup Asked(t, o) = GetBindings(s, o)
      <4>1. CASE o \in s.m.keys_to_sync
        <5>1. \A a \in Accels : <<o, a>> \in ToGrab(s) <=> a \in GetBindings(s, o)
          BY <4>1 DEF ToGrab
        <5>2. Asked(t, o) = GetBindings(s, o)
          BY <3>1, <3>3, <5>1 DEF Asked
        <5> QED
          BY <3>2, <4>1, <5>2
      <4>2. CASE o \notin s.m.keys_to_sync
        <5>1. \A a : <<o, a>> \notin ToGrab(s)
          BY <4>2 DEF ToGrab
        <5>2. Asked(t, o) = {}
          BY <3>1, <5>1 DEF Asked
        <5> QED
          BY <2>2, <4>2, <5>2
      <4> QED
        BY <4>1, <4>2
    <3>6. KeysInStep(t)
      BY <1>2, <2>2, <2>3, <3>5 DEF KeysInStep
    <3>7. ASSUME NEW i \in ToGrab(s), NEW o \in Objects
          PROVE  i[2] \notin s.m.accel_ids[o]
      <4>1. ASSUME i[2] \in s.m.accel_ids[o]
            PROVE  FALSE
        <5>1. o \notin s.m.keys_to_sync
          BY <3>2, <4>1
        <5>2. i[2][1] = s.m.name[o] /\ i[2][1] = s.m.name[i[1]]
          BY <3>3, <3>4, <4>1 DEF IdsNamed
        <5>3. o \notin s.m.keys
          <6>1. i[1] \in s.m.keys /\ i[1] \in s.m.keys_to_sync
            BY <3>4
          <6>2. \A p, q \in s.m.keys : s.m.name[p] = s.m.name[q] => p = q
            BY DEF OneKeyEach
          <6>3. s.m.name[o] = s.m.name[i[1]]
            BY <5>2
          <6>4. o \in s.m.keys => o = i[1]
            BY <6>1, <6>2, <6>3
          <6> QED
            BY <5>1, <6>1, <6>4
        <5>4. o \in Free(s)
          <6>1. DOMAIN s.c = {}
            BY DEF States
          <6> QED
            BY <5>1, <5>3, <6>1 DEF Free, Referenced
        <5> QED
          BY <2>2, <4>1, <5>4 DEF Freed
      <4> QED
        BY <4>1
    <3>8. ASSUME NEW i \in ToGrab(s)
          PROVE  <<s.w.owner, i[2]>> \notin s.w.grabs
      <4>1. ASSUME <<s.w.owner, i[2]>> \in s.w.grabs
            PROVE  FALSE
        <5> DEFINE g == <<s.w.owner, i[2]>>
        <5>1. g \in s.w.grabs /\ g[1] = s.w.owner /\ g[2] = i[2]
          BY <4>1
        <5> HIDE DEF g
        <5>2. PICK o \in s.m.keys \cup s.m.keys_to_sync : g[2] \in s.m.accel_ids[o]
          BY <5>1 DEF Kept, GrabsKnown
        <5> QED
          BY <2>4, <3>7, <5>1, <5>2
      <4> QED
        BY <4>1
    <3>9. ASSUME NEW i \in ToGrab(s), NEW j \in ToGrab(s), i[2] = j[2]
          PROVE  i = j
      <4>1. s.m.name[i[1]] = s.m.name[j[1]]
        BY <3>3, <3>4, <3>9
      <4>2. i[1] = j[1]
        BY <3>4, <4>1 DEF OneKeyEach
      <4> QED
        BY <3>4, <3>9, <4>2
    <3>10. \A i \in ToGrab(s) : i[2][1] = s.m.name[i[1]]
      BY <3>3, <3>4
    <3>11. ItemsInStep(t)
      BY <1>2, <3>1, <3>7, <3>8, <3>9, <3>10 DEF ItemsInStep
    <3> QED
      BY <3>1, <3>6, <3>11 DEF InStep, QueueSeen
  <2> QED
    BY <1>1, <2>5, <2>6, <2>7 DEF Continues
<1>6. Between(t)
  BY <1>3, <1>4, <1>5 DEF Between
<1> QED
  BY <1>6 DEF t

\* t is s with fewer grabs and other ids, or the same: what is known of names.
LEMMA RenamedSame ==
  ASSUME NEW s, NEW t, OneKeyEach(s),
         t.m.name = s.m.name, t.m.keys = s.m.keys, t.m.custom_settings = s.m.custom_settings,
         t.m.grabber = s.m.grabber, t.w.listed = s.w.listed, t.w.binding = s.w.binding
  PROVE  OneKeyEach(t)
<1>1. \A n : Complete(t, n) <=> Complete(s, n)
  BY DEF Complete
<1> QED
  BY <1>1 DEF OneKeyEach

\* shell_presence_changed: no grabber, no keys.
LEMMA PresenceGrabs ==
  ASSUME NEW s \in States, IdsNamed(s), IdsApart(s), OneKeyEach(s)
  PROVE  Between(PresenceChanged(s))
<1> DEFINE t == PresenceChanged(s)
<1>1. /\ t \in States /\ t.c = s.c /\ t.w = s.w
      /\ t.m.keys = {} /\ t.m.grabber = NoShell
      /\ t.m.keys_to_sync = s.m.keys_to_sync /\ t.m.name = s.m.name
      /\ t.m.custom_settings = s.m.custom_settings /\ t.m.accel_ids = s.m.accel_ids
  BY PresenceOps
<1> HIDE DEF t
<1>2. IdsNamed(t) /\ IdsApart(t)
  BY <1>1 DEF IdsNamed, IdsApart
<1>3. \A n : Complete(t, n) <=> Complete(s, n)
  BY <1>1 DEF Complete
<1>4. OneKeyEach(t)
  BY <1>1, <1>3 DEF OneKeyEach
<1>5. ~Active(t)
  BY <1>1 DEF Active
<1>6. Between(t)
  BY <1>2, <1>4, <1>5 DEF Between
<1> QED
  BY <1>6 DEF t

LEMMA SyncStartGrabs ==
  ASSUME GrabInv, KeysSyncStart
  PROVE  GrabInv'
<1>1. KeysTypeOK /\ One(Here) /\ Kept(Here) /\ Between(Here) /\ Freed(Here) /\ SyncInv
  BY DEF GrabInv, SyncInv
<1>2. PICK b \in States :
        /\ b.c = calls /\ b.w = world /\ b.m = [mk EXCEPT !.source = FALSE]
        /\ mk.source /\ Done(KeysSyncContinue(b))
  BY <1>1, SyncStartOps
<1>3. Here.m = mk /\ Here.c = calls /\ Here.w = world /\ mk \in Managers
  BY <1>1, HereFields DEF KeysTypeOK
<1>4. /\ ~b.m.source /\ b.m.stuck = mk.stuck /\ b.m.keys = mk.keys
      /\ b.m.keys_to_sync = mk.keys_to_sync /\ b.m.name = mk.name
      /\ b.m.grabber = mk.grabber /\ b.m.connecting = mk.connecting
      /\ b.m.accel_ids = mk.accel_ids /\ b.m.custom_settings = mk.custom_settings
  BY <1>2, <1>3 DEF Managers
<1>5. Len(b.c) = 0 /\ ~b.m.stuck
  BY <1>1, <1>2, <1>3, <1>4 DEF One, OneOperation
<1>6. One(b)
  BY <1>1, <1>2, <1>3, <1>4 DEF One, ShellsInOrder, OneGrabber, OneOperation
<1>7. Kept(b)
  BY <1>1, <1>2, <1>3, <1>4 DEF Kept, CallInStep, SettingsKnown, GrabsKnown, CustomKeys
<1>8. IdsNamed(b) /\ IdsApart(b)
  BY <1>1, <1>3, <1>4 DEF Between, IdsNamed, IdsApart
<1>9. OneKeyEach(b)
  BY <1>1, <1>2, <1>3, <1>4, RenamedSame DEF Between
<1>10. Free(b) = Free(Here)
  BY <1>2, <1>3, <1>4, SameFree
<1>11. Freed(b)
  BY <1>1, <1>3, <1>4, <1>10 DEF Freed
<1>12. Active(b) => KeysInStep(b)
  <2>1. \A o : Asked(b, o) = Asked(Here, o) /\ GetBindings(b, o) = GetBindings(Here, o)
    BY <1>2, <1>3, <1>4 DEF Asked, GetBindings
  <2>2. Active(b) => Active(Here)
    BY <1>2, <1>3, <1>4 DEF Active
  <2> QED
    BY <1>1, <1>2, <1>3, <1>4, <2>1, <2>2 DEF Between, InStep, KeysInStep
<1> DEFINE t == KeysSyncContinue(b)
<1>13. t \in States /\ One(t) /\ Kept(t)
  BY <1>4, <1>5, <1>6, <1>7, ContinueKeeps
<1>14. Between(t)
  BY <1>4, <1>5, <1>6, <1>7, <1>8, <1>9, <1>11, <1>12, ContinueGrabs
<1>15. Done(t) /\ SyncInv'
  BY <1>1, <1>2, SyncStartKeeps
<1> HIDE DEF t
<1> QED
  BY <1>13, <1>14, <1>15, GrabsClose

\* init_kbd makes the keys, of objects nobody used.
LEMMA ReadyGrabs ==
  ASSUME GrabInv, NEW sh \in Shells, KeyGrabberReady(sh)
  PROVE  GrabInv'
<1>1. KeysTypeOK /\ One(Here) /\ Between(Here) /\ Freed(Here) /\ SyncInv
  BY DEF GrabInv, SyncInv
<1>2. PICK b \in States : \E new :
        /\ b.c = calls /\ b.w = world
        /\ b.m = [mk EXCEPT !.connecting = @ \ {sh}, !.grabber = sh]
        /\ Starts(b, new, InitKbd(b)) /\ Done(InitKbd(b))
  BY <1>1, ReadyOps
<1>3. Here.m = mk /\ Here.c = calls /\ Here.w = world /\ mk \in Managers
  BY <1>1, HereFields DEF KeysTypeOK
<1>4. /\ b.m.grabber = sh /\ b.m.connecting = mk.connecting \ {sh}
      /\ b.m.keys = mk.keys /\ b.m.keys_to_sync = mk.keys_to_sync /\ b.m.name = mk.name
      /\ b.m.accel_ids = mk.accel_ids /\ b.m.custom_settings = mk.custom_settings
  BY <1>2, <1>3 DEF Managers
<1>5. sh \in mk.connecting
  BY <1>1, ReadyOps
<1>6. mk.grabber = NoShell /\ mk.keys = {} /\ Len(b.c) = 0 /\ sh # NoShell
      /\ sh = world.started /\ b.m.connecting = {}
  BY <1>1, <1>2, <1>3, <1>4, <1>5 DEF One, OneGrabber, Between, OneKeyEach, Shells, NoShell
<1>7. Free(b) = Free(Here)
  BY <1>2, <1>3, <1>4, SameFree
<1> DEFINE t == InitKbd(b)
<1> HIDE DEF t
<1>8. PICK new : Starts(b, new, t) /\ Done(t)
  BY <1>2 DEF t
<1>9. /\ t \in States /\ t.w = world /\ Len(t.c) = 0 /\ t.m.keys = new
      /\ t.m.keys_to_sync = mk.keys_to_sync \cup new
      /\ t.m.custom_settings = mk.custom_settings \cup world.listed
      /\ t.m.source /\ ~t.m.stuck /\ t.m.grabber = sh /\ t.m.connecting = {}
      /\ t.m.accel_ids = mk.accel_ids
      /\ \A o \in Objects \ new : t.m.name[o] = mk.name[o]
      /\ \A o \in new : t.m.name[o] \in Fixed \cup world.listed
      /\ \A o, p \in new : t.m.name[o] = t.m.name[p] => o = p
      /\ \A n \in Fixed \cup world.listed :
           n \in Fixed \/ Complete(b, n) => \E o \in new : t.m.name[o] = n
  BY <1>2, <1>4, <1>6, <1>8 DEF Starts
<1>10. \A o \in new : o \in Objects /\ mk.accel_ids[o] = {}
  BY <1>1, <1>3, <1>7, <1>8, FreeTyped DEF Starts, Freed
<1>11. IdsNamed(t) /\ IdsApart(t)
  BY <1>1, <1>3, <1>9, <1>10 DEF Between, IdsNamed, IdsApart
<1>12. OneKeyEach(t)
  <2>1. \A n : (Complete(t, n) <=> Complete(Here, n)) /\ (Complete(t, n) <=> Complete(b, n))
    BY <1>2, <1>3, <1>9 DEF Complete
  <2> QED
    BY <1>1, <1>3, <1>6, <1>9, <2>1 DEF Between, OneKeyEach
<1>13. InStep(t)
  <2>1. QueueSeen(t) /\ ItemsInStep(t)
    BY <1>9 DEF QueueSeen, ItemsInStep
  <2>2. KeysInStep(t)
    BY <1>9, <1>10 DEF KeysInStep
  <2> QED
    BY <2>1, <2>2 DEF InStep
<1>14. One(t)
  BY <1>1, <1>3, <1>6, <1>9 DEF One, ShellsInOrder, OneGrabber, OneOperation
<1>15. SyncInv'
  BY <1>1, ReadyKeeps
<1> QED
  BY <1>8, <1>9, <1>11, <1>12, <1>13, <1>14, <1>15, GrabsClose DEF Between

LEMMA ExportsGrabs ==
  ASSUME GrabInv, NEW sh \in Shells, ShellExports(sh)
  PROVE  GrabInv'
<1>1. KeysTypeOK /\ Between(Here) /\ Freed(Here) /\ SyncInv /\ world \in Worlds
  BY DEF GrabInv, SyncInv, KeysTypeOK
<1>2. Here.m = mk /\ Here.c = calls /\ Here.w = world
  BY <1>1, HereFields
<1>3. /\ Here'.m = mk /\ Here'.c = calls
      /\ Here'.w.owner = world.owner /\ Here'.w.grabs = world.grabs
      /\ Here'.w.binding = world.binding /\ Here'.w.listed = world.listed
  BY <1>1 DEF ShellExports, Here, Worlds
<1> DEFINE h == Here'
<1> HIDE DEF h
<1>4. /\ h.m = mk /\ h.c = calls
      /\ h.w.owner = world.owner /\ h.w.grabs = world.grabs
      /\ h.w.binding = world.binding /\ h.w.listed = world.listed
  BY <1>3 DEF h
<1>5. Freed(h)
  BY <1>1, <1>2, <1>4, SameFree DEF Freed
<1>6. IdsNamed(h) /\ IdsApart(h) /\ OneKeyEach(h)
  BY <1>1, <1>2, <1>4, RenamedSame DEF Between, IdsNamed, IdsApart
<1>7. Active(h) => InStep(h)
  <2>1. \A o : Asked(h, o) = Asked(Here, o) /\ GetBindings(h, o) = GetBindings(Here, o)
    BY <1>2, <1>4 DEF Asked, GetBindings
  <2> QED
    BY <1>1, <1>2, <1>4, <2>1 DEF Between, Active, InStep, QueueSeen, KeysInStep, ItemsInStep
<1>8. SyncInv'
  BY <1>1, ExportsKeeps
<1> QED
  BY <1>5, <1>6, <1>7, <1>8 DEF GrabInv, Between, h

\* A shell that exits, or that is replaced, takes its keys with it.
LEMMA ExitsGrabs ==
  ASSUME GrabInv, NEW sh \in Shells, ShellExits(sh)
  PROVE  GrabInv'
<1>1. KeysTypeOK /\ Between(Here) /\ SyncInv
  BY DEF GrabInv, SyncInv
<1>2. PICK b \in States :
        /\ Moved(Here, b)
        /\ b.w.owner = IF sh = world.owner THEN NoShell ELSE world.owner
        /\ b.w.grabs = {g \in world.grabs : g[1] # sh}
        /\ Done(IF sh = world.owner THEN PresenceChanged(b) ELSE b)
  BY <1>1, ExitOps
<1>3. Here.m = mk /\ Here.c = calls /\ Here.w = world
  BY <1>1, HereFields
<1>4. /\ b.m = mk /\ b.c = calls
      /\ b.w.binding = world.binding /\ b.w.listed = world.listed
  BY <1>2, <1>3 DEF Moved
<1>5. IdsNamed(b) /\ IdsApart(b) /\ OneKeyEach(b)
  BY <1>1, <1>3, <1>4, RenamedSame DEF Between, IdsNamed, IdsApart
<1>6. SyncInv'
  BY <1>1, ExitsKeeps
<1>7. CASE sh = world.owner
  <2>1. PresenceChanged(b) \in States /\ Done(PresenceChanged(b))
    BY <1>2, <1>7, PresenceOps
  <2>2. Between(PresenceChanged(b))
    BY <1>5, PresenceGrabs
  <2> QED
    BY <1>6, <2>1, <2>2, GrabsClose
<1>8. CASE sh # world.owner
  <2>1. Done(b) /\ b.w.owner = world.owner
    BY <1>2, <1>8
  <2>2. ASSUME Active(b)
        PROVE  InStep(b)
    <3>1. InStep(Here)
      BY <1>1, <1>3, <1>4, <2>1, <2>2 DEF Between, Active
    <3>2. \A o : Asked(b, o) = Asked(Here, o) /\ GetBindings(b, o) = GetBindings(Here, o)
      BY <1>3, <1>4 DEF Asked, GetBindings
    <3>3. QueueSeen(b)
      BY <1>3, <1>4, <3>1 DEF InStep, QueueSeen
    <3>4. KeysInStep(b)
      <4>1. \A a : <<world.owner, a>> \in world.grabs => <<world.owner, a>> \in b.w.grabs
        BY <1>2, <1>8
      <4> QED
        BY <1>3, <1>4, <2>1, <3>1, <3>2, <4>1 DEF InStep, KeysInStep
    <3>5. ItemsInStep(b)
      <4>1. b.w.grabs \subseteq world.grabs
        BY <1>2
      <4> QED
        BY <1>3, <1>4, <2>1, <3>1, <4>1 DEF InStep, ItemsInStep
    <3> QED
      BY <3>3, <3>4, <3>5 DEF InStep
  <2>3. Between(b)
    BY <1>5, <2>2 DEF Between
  <2> QED
    BY <1>6, <2>1, <2>3, GrabsClose
<1> QED
  BY <1>7, <1>8

LEMMA StartsGrabs ==
  ASSUME GrabInv, "busy" \notin Happenings, ShellStarts \/ ShellReplaced
  PROVE  GrabInv'
<1>1. KeysTypeOK /\ Between(Here) /\ SyncInv
  BY DEF GrabInv, SyncInv
<1>2. PICK b \in States : Moved(Here, b) /\ Done(PresenceChanged(b))
  BY <1>1, ShellStartsOps
<1>3. IdsNamed(b) /\ IdsApart(b) /\ OneKeyEach(b)
  BY <1>1, <1>2, RenamedSame DEF Moved, Between, IdsNamed, IdsApart
<1>4. Between(PresenceChanged(b)) /\ PresenceChanged(b) \in States
  BY <1>3, PresenceGrabs, PresenceOps
<1>5. SyncInv'
  BY <1>1, StartsKeeps
<1> QED
  BY <1>2, <1>4, <1>5, GrabsClose

\* Touching a setting changes what its own key is to have only.
LEMMA ReboundSame ==
  ASSUME KeysTypeOK, NEW n \in Names, NEW b, Rebound(n, b), Between(Here)
  PROVE  /\ IdsNamed(b) /\ IdsApart(b)
         /\ \A k \in Names \ {n} : Complete(b, k) <=> Complete(Here, k)
         /\ n \in Fixed => (Complete(b, n) <=> Complete(Here, n)) /\ OneKeyEach(b)
         /\ \A o : Asked(b, o) = Asked(Here, o)
         /\ \A o \in Objects : mk.name[o] # n => GetBindings(b, o) = GetBindings(Here, o)
<1>1. Here.m = mk /\ Here.c = calls /\ Here.w = world /\ mk \in Managers /\ world \in Worlds
  BY HereFields DEF KeysTypeOK
<1>2. IdsNamed(b) /\ IdsApart(b)
  BY <1>1 DEF Rebound, Between, IdsNamed, IdsApart
<1>3. \A k \in Names \ {n} : Complete(b, k) <=> Complete(Here, k)
  BY <1>1 DEF Rebound, Complete
<1>4. ASSUME n \in Fixed
      PROVE  (Complete(b, n) <=> Complete(Here, n)) /\ OneKeyEach(b)
  <2>1. n \notin Incomplete
    BY <1>4, KeySyncAssumption
  <2>2. Complete(b, n) /\ Complete(Here, n)
    BY <2>1 DEF Complete
  <2>3. \A k \in Names : Complete(b, k) <=> Complete(Here, k)
    BY <1>3, <2>2
  <2>4. Fixed \subseteq Names /\ world.listed \subseteq Names /\ mk.custom_settings \subseteq Names
    BY <1>1 DEF Managers, Worlds, Names
  <2>5. OneKeyEach(Here)
    BY DEF Between
  <2> DEFINE h == Here
  <2> HIDE DEF h
  <2>6. /\ OneKeyEach(h) /\ b.m = h.m /\ b.w.listed = h.w.listed
        /\ \A k \in Names : Complete(b, k) <=> Complete(h, k)
        /\ h.w.listed \subseteq Names /\ h.m.custom_settings \subseteq Names
    BY <1>1, <2>3, <2>4, <2>5 DEF Rebound, h
  <2>7. OneKeyEach(b)
    BY <2>4, <2>6 DEF OneKeyEach
  <2> QED
    BY <2>2, <2>7
<1>5. \A o : Asked(b, o) = Asked(Here, o)
  BY <1>1 DEF Rebound, Asked
<1>6. \A o \in Objects : mk.name[o] \in Names
  BY <1>1 DEF Managers
<1>7. \A o \in Objects : mk.name[o] # n => GetBindings(b, o) = GetBindings(Here, o)
  BY <1>1, <1>6 DEF Rebound, GetBindings
<1> QED
  BY <1>2, <1>3, <1>4, <1>5, <1>7

\* Where the daemon has a shell in use, no operation is one that was never sent.
LEMMA ActiveSyncs ==
  ASSUME NEW s \in States, One(s), Active(s)
  PROVE  Syncing(s) <=> Len(s.c) = 1
<1>1. ~s.m.stuck
  BY DEF One, OneOperation, Active
<1> QED
  BY <1>1, SyncingOps

LEMMA FixedGrabs ==
  ASSUME GrabInv, NEW n \in Fixed, NEW v \in 0 .. MaxBinding, FixedChanged(n, v)
  PROVE  GrabInv'
<1>1. KeysTypeOK /\ One(Here) /\ Between(Here) /\ SyncInv /\ n \in Names
  BY DEF GrabInv, SyncInv, Names
<1>2. PICK b :
        /\ Rebound(n, b)
        /\ \/ (mk.grabber = NoShell \/ KeysNamed(Here, n) = {}) /\ Done(b)
           \/ \E o \in KeysNamed(Here, n) : mk.grabber # NoShell /\ Done(Touch(b, o))
  BY <1>1, FixedOps
<1>3. /\ Here.m = mk /\ Here.c = calls /\ Here.w = world
      /\ mk.keys \subseteq Objects
  BY <1>1, HereFields DEF KeysTypeOK, Managers
<1>4. /\ b \in States /\ b.m = mk /\ b.c = calls
      /\ b.w.owner = world.owner /\ b.w.grabs = world.grabs /\ b.w.listed = world.listed
  BY <1>2 DEF Rebound
<1>5. /\ IdsNamed(b) /\ IdsApart(b) /\ OneKeyEach(b)
      /\ \A o : Asked(b, o) = Asked(Here, o)
      /\ \A o \in Objects : mk.name[o] # n => GetBindings(b, o) = GetBindings(Here, o)
  BY <1>1, <1>2, ReboundSame
<1>6. SyncInv'
  BY <1>1, FixedKeeps
<1>7. CASE (mk.grabber = NoShell \/ KeysNamed(Here, n) = {}) /\ Done(b)
  <2>1. ~Active(b)
    <3>1. n \notin Incomplete
      BY KeySyncAssumption
    <3>2. mk.grabber # NoShell => \E o \in mk.keys : mk.name[o] = n
      BY <1>4, <1>5, <3>1 DEF OneKeyEach, Complete
    <3>3. KeysNamed(Here, n) = {} => mk.grabber = NoShell
      BY <1>3, <3>2 DEF KeysNamed
    <3> QED
      BY <1>4, <1>7, <3>3 DEF Active
  <2>2. Between(b)
    BY <1>5, <2>1 DEF Between
  <2> QED
    BY <1>4, <1>6, <1>7, <2>2, GrabsClose
<1>8. ASSUME NEW o \in KeysNamed(Here, n), Done(Touch(b, o))
      PROVE  GrabInv'
  <2> DEFINE t == Touch(b, o)
  <2>1. o \in Objects /\ o \in mk.keys /\ mk.name[o] = n
    BY <1>3 DEF KeysNamed
  <2>2. /\ t \in States /\ t.c = b.c /\ t.w = b.w
        /\ t.m.keys_to_sync = b.m.keys_to_sync \cup {o}
        /\ t.m.source = ~Syncing(b) /\ t.m.stuck = b.m.stuck /\ t.m.keys = b.m.keys
        /\ t.m.grabber = b.m.grabber
        /\ t.m.name = b.m.name /\ t.m.accel_ids = b.m.accel_ids
        /\ t.m.custom_settings = b.m.custom_settings
    BY <1>4, <2>1, TouchOps
  <2>3. Done(t)
    BY <1>8
  <2> HIDE DEF t
  <2>4. IdsNamed(t) /\ IdsApart(t) /\ OneKeyEach(t)
    BY <1>5, <2>2, RenamedSame DEF IdsNamed, IdsApart
  <2>5. ASSUME Active(t)
        PROVE  InStep(t)
    <3>1. Active(Here) /\ Active(b)
      BY <1>3, <1>4, <2>2, <2>5 DEF Active
    <3>2. InStep(Here)
      BY <1>1, <3>1 DEF Between
    <3>3. One(b)
      BY <1>1, <1>4, <1>2, WorldKeeps DEF Rebound
    <3>4. QueueSeen(t)
      BY <1>4, <2>2, <3>1, <3>3, ActiveSyncs DEF QueueSeen
    <3>5. \A p \in mk.keys \ {o} : mk.name[p] # n
      BY <1>1, <1>3, <2>1 DEF Between, OneKeyEach
    <3>6. \A p \in mk.keys \ {o} :
            Asked(t, p) = Asked(Here, p) /\ GetBindings(t, p) = GetBindings(Here, p)
      <4>1. \A p : Asked(t, p) = Asked(b, p) /\ GetBindings(t, p) = GetBindings(b, p)
        BY <2>2 DEF Asked, GetBindings
      <4> QED
        BY <1>3, <1>5, <3>5, <4>1
    <3>7. KeysInStep(t)
      BY <1>3, <1>4, <2>2, <3>2, <3>6 DEF InStep, KeysInStep
    <3>8. ItemsInStep(t)
      BY <1>3, <1>4, <2>2, <3>2 DEF InStep, ItemsInStep
    <3> QED
      BY <3>4, <3>7, <3>8 DEF InStep
  <2>6. Between(t)
    BY <2>4, <2>5 DEF Between
  <2> QED
    BY <1>6, <2>2, <2>3, <2>6, GrabsClose
<1> QED
  BY <1>2, <1>7, <1>8

\* In step, but for what is said of the keys of paths.
NearlyInStep(s, paths) ==
  /\ \A o \in s.m.keys \ s.m.keys_to_sync :
       s.m.name[o] \notin paths => s.m.accel_ids[o] \cup Asked(s, o) = GetBindings(s, o)
  /\ \A o \in s.m.keys : \A a \in s.m.accel_ids[o] : <<s.w.owner, a>> \in s.w.grabs
  /\ ItemsInStep(s)

\* update_custom_binding: the old keys are queued, the new ones have no ids yet.
LEMMA UpdatesGrab ==
  ASSUME NEW s \in States, NEW paths, NEW old, NEW new, NEW t,
         Updates(s, paths, old, new, t), One(s), IdsNamed(s), IdsApart(s), Freed(s),
         \A o, p \in s.m.keys : s.m.name[o] = s.m.name[p] => o = p,
         Active(s) => NearlyInStep(s, paths)
  PROVE  /\ IdsNamed(t) /\ IdsApart(t)
         /\ \A o \in s.m.keys : o \in old <=> s.m.name[o] \in paths
         /\ \A o \in s.m.keys : t.m.name[o] = s.m.name[o] /\ o \notin new
         /\ Active(t) => InStep(t)
<1>1. /\ s.m.keys \subseteq Objects /\ new \subseteq Objects /\ old \subseteq s.m.keys
      /\ \A o \in new : s.m.accel_ids[o] = {} /\ o \in Free(s)
  BY FreeTyped DEF States, Managers, Updates, Freed
<1>2. /\ t.m.accel_ids = s.m.accel_ids /\ t.c = s.c /\ t.w = s.w /\ t.m.grabber = s.m.grabber
      /\ t.m.stuck = s.m.stuck /\ t.m.source = ~Syncing(s)
      /\ t.m.keys = (s.m.keys \ old) \cup new
      /\ t.m.keys_to_sync = s.m.keys_to_sync \cup old \cup new
      /\ \A o \in Objects \ new : t.m.name[o] = s.m.name[o]
  BY DEF Updates
<1>3. IdsNamed(t) /\ IdsApart(t)
  BY <1>1, <1>2 DEF IdsNamed, IdsApart
<1>4. \A o \in s.m.keys : t.m.name[o] = s.m.name[o] /\ o \notin new
  BY <1>1, <1>2, InUse
<1>5. \A o \in s.m.keys : o \in old <=> s.m.name[o] \in paths
  BY <1>1 DEF Updates
<1>6. ASSUME Active(t)
      PROVE  InStep(t)
  <2>1. Active(s) /\ NearlyInStep(s, paths)
    BY <1>2, <1>6 DEF Active
  <2>2. QueueSeen(t)
    BY <1>2, <2>1, ActiveSyncs DEF QueueSeen
  <2>3. KeysInStep(t)
    <3>1. \A o : Asked(t, o) = Asked(s, o)
      BY <1>2 DEF Asked
    <3>2. \A o \in s.m.keys : GetBindings(t, o) = GetBindings(s, o)
      BY <1>2, <1>4 DEF GetBindings
    <3>3. \A o \in t.m.keys \ t.m.keys_to_sync :
            o \in s.m.keys \ s.m.keys_to_sync /\ s.m.name[o] \notin paths
      BY <1>2, <1>5
    <3>4. \A o \in t.m.keys : o \in s.m.keys \/ s.m.accel_ids[o] = {}
      BY <1>1, <1>2
    <3> QED
      BY <1>2, <2>1, <3>1, <3>2, <3>3, <3>4 DEF NearlyInStep, KeysInStep
  <2>4. ItemsInStep(t)
    <3>1. ASSUME Len(s.c) = 1
          PROVE  \A i \in s.c[1].items : t.m.name[i[1]] = s.m.name[i[1]]
      <4>1. \A o \in ObjectsOf(s.c[1].items) : o \in Objects \ Free(s)
        BY <3>1, InUse
      <4> QED
        BY <1>1, <1>2, <4>1 DEF ObjectsOf
    <3> QED
      BY <1>2, <2>1, <3>1 DEF NearlyInStep, ItemsInStep
  <2> QED
    BY <2>2, <2>3, <2>4 DEF InStep
<1> QED
  BY <1>3, <1>4, <1>5, <1>6

\* custom_binding_changed
LEMMA CustomGrabs ==
  ASSUME GrabInv, Happenings \cap {"busy", "away", "unlisted"} = {},
         NEW n \in Custom, NEW v \in 0 .. MaxBinding, CustomBindingChanged(n, v)
  PROVE  GrabInv'
<1>1. KeysTypeOK /\ One(Here) /\ Between(Here) /\ Freed(Here) /\ SyncInv /\ n \in Names
  BY DEF GrabInv, SyncInv, Names
<1>2. /\ Here.m = mk /\ Here.c = calls /\ Here.w = world
      /\ mk.keys \subseteq Objects /\ mk.custom_settings \subseteq Names /\ world.listed \subseteq Names
  BY <1>1, HereFields DEF KeysTypeOK, Managers, Worlds, Names
<1>3. mk.grabber # NoShell /\ n \in world.listed
  BY <1>1, CustomOps DEF CustomMayChange
<1>4. n \in mk.custom_settings
  BY <1>1, <1>2, <1>3 DEF Between, OneKeyEach
<1>5. PICK b :
        /\ Rebound(n, b)
        /\ \E old, new, t : Updates(b, {n}, old, new, t) /\ Done(t)
  BY <1>1, <1>4, CustomOps
<1>6. PICK old, new, t : Updates(b, {n}, old, new, t) /\ Done(t)
  BY <1>5
<1>7. /\ b \in States /\ b.m = mk /\ b.c = calls
      /\ b.w.owner = world.owner /\ b.w.grabs = world.grabs /\ b.w.listed = world.listed
  BY <1>5 DEF Rebound
<1>8. /\ IdsNamed(b) /\ IdsApart(b)
      /\ \A k \in Names \ {n} : Complete(b, k) <=> Complete(Here, k)
      /\ \A o : Asked(b, o) = Asked(Here, o)
      /\ \A o \in Objects : mk.name[o] # n => GetBindings(b, o) = GetBindings(Here, o)
  BY <1>1, <1>5, ReboundSame
<1>9. One(b)
  BY <1>1, <1>5, WorldKeeps DEF Rebound
<1>10. Freed(b)
  <2>1. Free(b) = Free(Here)
    BY <1>2, <1>7, SameFree
  <2> QED
    BY <1>1, <1>2, <1>7, <2>1 DEF Freed
<1>11. \A o, p \in b.m.keys : b.m.name[o] = b.m.name[p] => o = p
  BY <1>1, <1>2, <1>7 DEF Between, OneKeyEach
<1>12. Active(b) => NearlyInStep(b, {n})
  <2>1. Active(b) => InStep(Here)
    BY <1>1, <1>2, <1>7 DEF Active, Between
  <2> QED
    BY <1>2, <1>7, <1>8, <2>1 DEF InStep, KeysInStep, ItemsInStep, NearlyInStep
<1>13. /\ IdsNamed(t) /\ IdsApart(t)
       /\ \A o \in mk.keys : o \in old <=> mk.name[o] = n
       /\ \A o \in mk.keys : t.m.name[o] = mk.name[o] /\ o \notin new
       /\ Active(t) => InStep(t)
  BY <1>6, <1>7, <1>8, <1>9, <1>10, <1>11, <1>12, UpdatesGrab
<1>14. /\ t \in States /\ t.w = b.w /\ t.m.grabber = mk.grabber
       /\ t.m.keys = (mk.keys \ old) \cup new
       /\ t.m.custom_settings = mk.custom_settings \cup {n}
       /\ \A o \in new : t.m.name[o] = n
       /\ \A o, p \in new : t.m.name[o] = t.m.name[p] => o = p
       /\ Complete(b, n) => \E o \in new : t.m.name[o] = n
  BY <1>6, <1>7 DEF Updates
<1>15. OneKeyEach(t)
  <2>1. \A o, p \in t.m.keys : t.m.name[o] = t.m.name[p] => o = p
    BY <1>7, <1>11, <1>13, <1>14
  <2>2. \A o \in t.m.keys : t.m.name[o] \in Fixed \cup t.w.listed
    BY <1>1, <1>2, <1>3, <1>7, <1>13, <1>14 DEF Between, OneKeyEach
  <2>3. t.w.listed \subseteq t.m.custom_settings
    BY <1>1, <1>2, <1>3, <1>7, <1>14 DEF Between, OneKeyEach
  <2>4. \A k : Complete(t, k) <=> Complete(b, k)
    BY <1>14 DEF Complete
  <2>5. ASSUME NEW k \in Fixed \cup world.listed, Complete(t, k)
        PROVE  \E o \in t.m.keys : t.m.name[o] = k
    <3>1. CASE k = n
      BY <1>14, <2>4, <2>5, <3>1
    <3>2. CASE k # n
      <4>1. Complete(Here, k)
        BY <1>2, <1>8, <2>4, <2>5, <3>2 DEF Names
      <4>2. PICK o \in mk.keys : mk.name[o] = k
        BY <1>1, <1>2, <1>3, <2>5, <4>1 DEF Between, OneKeyEach
      <4> QED
        BY <1>13, <1>14, <3>2, <4>2
    <3> QED
      BY <3>1, <3>2
  <2>6. \A k \in t.m.custom_settings \ t.w.listed : ~Complete(t, k)
    <3>1. \A k \in mk.custom_settings \ world.listed : ~Complete(Here, k)
      BY <1>1, <1>2 DEF Between, OneKeyEach
    <3> QED
      BY <1>2, <1>3, <1>7, <1>8, <1>14, <2>4, <3>1
  <2> QED
    BY <1>3, <1>7, <1>14, <2>1, <2>2, <2>3, <2>5, <2>6 DEF OneKeyEach
<1>16. Between(t)
  BY <1>13, <1>15 DEF Between
<1>17. SyncInv'
  BY <1>1, CustomKeeps
<1> QED
  BY <1>6, <1>14, <1>16, <1>17, GrabsClose

\* The paths that are new get a key, those that went lose theirs.
LEMMA ListGrabs ==
  ASSUME GrabInv, Happenings \cap {"busy", "away"} = {}, NEW n \in Custom, CustomListChanged(n)
  PROVE  GrabInv'
<1>1. KeysTypeOK /\ One(Here) /\ Kept(Here) /\ Between(Here) /\ Freed(Here) /\ SyncInv
  BY DEF GrabInv, SyncInv
<1>2. /\ Here.m = mk /\ Here.c = calls /\ Here.w = world
      /\ mk.keys \subseteq Objects /\ \A o \in Objects : mk.name[o] \in Fixed \cup Custom
      /\ mk.custom_settings \subseteq Custom /\ world.listed \subseteq Custom
  BY <1>1, HereFields DEF KeysTypeOK, Managers, Worlds, Names
<1>3. mk.grabber # NoShell
  BY <1>1, ListOps DEF CustomMayChange
<1>4. /\ \A o, p \in mk.keys : mk.name[o] = mk.name[p] => o = p
      /\ \A o \in mk.keys : mk.name[o] \in Fixed \cup world.listed
      /\ world.listed \subseteq mk.custom_settings
      /\ \A k \in Fixed \cup world.listed :
           Complete(Here, k) => \E o \in mk.keys : mk.name[o] = k
      /\ \A k \in mk.custom_settings \ world.listed : ~Complete(Here, k)
  BY <1>1, <1>2, <1>3 DEF Between, OneKeyEach
<1>5. PICK list, b, old, new, t, r, q : ListSteps(list, b, old, new, t, r, q) /\ Done(q)
  BY <1>1, ListOps
<1> DEFINE paths == list \ mk.custom_settings
<1> HIDE DEF paths
<1>6. /\ list \in SUBSET Custom /\ b \in States /\ b.m = mk /\ b.c = calls
      /\ b.w.owner = world.owner /\ b.w.grabs = world.grabs
      /\ b.w.binding = world.binding /\ b.w.listed = list
      /\ Updates(b, paths, old, new, t)
      /\ r = RemoveCustom(t, list) /\ q = KeysSyncQueue(r, FALSE)
  BY <1>5 DEF ListSteps, paths
<1>7. One(b) /\ Kept(b)
  BY <1>1, <1>5, WorldKeeps DEF ListSteps
<1>8. IdsNamed(b) /\ IdsApart(b)
  BY <1>1, <1>2, <1>6 DEF Between, IdsNamed, IdsApart
<1>9. Freed(b)
  <2>1. Free(b) = Free(Here)
    BY <1>2, <1>6, SameFree
  <2> QED
    BY <1>1, <1>2, <1>6, <2>1 DEF Freed
<1>10. Active(b) => NearlyInStep(b, paths)
  <2>1. Active(b) => InStep(Here)
    BY <1>1, <1>2, <1>6 DEF Active, Between
  <2>2. \A o : Asked(b, o) = Asked(Here, o) /\ GetBindings(b, o) = GetBindings(Here, o)
    BY <1>2, <1>6 DEF Asked, GetBindings
  <2> QED
    BY <1>2, <1>6, <2>1, <2>2 DEF InStep, KeysInStep, ItemsInStep, NearlyInStep
<1>11. /\ IdsNamed(t) /\ IdsApart(t)
       /\ \A o \in mk.keys : o \in old <=> mk.name[o] \in paths
       /\ \A o \in mk.keys : t.m.name[o] = mk.name[o] /\ o \notin new
       /\ Active(t) => InStep(t)
  BY <1>4, <1>6, <1>7, <1>8, <1>9, <1>10, UpdatesGrab
<1>12. old = {}
  <2>1. old \subseteq mk.keys
    BY <1>6 DEF Updates
  <2>2. \A o \in mk.keys : mk.name[o] \notin paths
    BY <1>4, <1>6, KeySyncAssumption DEF paths
  <2> QED
    BY <1>11, <2>1, <2>2
<1>13. /\ t \in States /\ t.w = b.w /\ t.m.grabber = mk.grabber
       /\ t.m.keys = mk.keys \cup new
       /\ t.m.custom_settings = mk.custom_settings \cup list
       /\ \A o \in new : t.m.name[o] \in paths
       /\ \A o, p \in new : t.m.name[o] = t.m.name[p] => o = p
       /\ \A k \in paths : Complete(b, k) => \E o \in new : t.m.name[o] = k
  BY <1>6, <1>12 DEF Updates, paths
<1> DEFINE gone == {o \in CustomKeys(t) : t.m.name[o] \notin list}
<1>14. \A o : o \in gone <=> o \in t.m.keys /\ t.m.name[o] \in Custom /\ t.m.name[o] \notin list
  BY DEF CustomKeys
<1>15. /\ r \in States /\ r.c = t.c /\ r.w = t.w
       /\ r.m.keys = t.m.keys \ gone /\ r.m.keys_to_sync = t.m.keys_to_sync \cup gone
       /\ r.m.custom_settings = t.m.custom_settings \ {t.m.name[o] : o \in gone}
       /\ r.m.name = t.m.name /\ r.m.accel_ids = t.m.accel_ids /\ r.m.grabber = t.m.grabber
  BY <1>6, <1>13, RemoveOps
<1>16. One(r)
  <2>1. One(t) /\ Kept(t)
    BY <1>6, <1>7, UpdatesKeep
  <2> QED
    BY <1>6, <1>13, <2>1, RemoveKeeps
<1> HIDE DEF gone
<1>17. /\ q \in States /\ q.c = r.c /\ q.w = r.w /\ q.m.source = ~Syncing(r)
       /\ q.m.keys = r.m.keys /\ q.m.keys_to_sync = r.m.keys_to_sync
       /\ q.m.name = r.m.name /\ q.m.accel_ids = r.m.accel_ids
       /\ q.m.grabber = r.m.grabber /\ q.m.custom_settings = r.m.custom_settings
  <2> DEFINE v == ~Syncing(r)
  <2>1. q \in States /\ q.c = r.c /\ q.w = r.w /\ q.m = [r.m EXCEPT !.source = v]
    BY <1>6, <1>15, QueueOps
  <2>2. r.m \in Managers
    BY <1>15 DEF States
  <2> HIDE DEF v
  <2>3. /\ q.m.source = v /\ q.m.keys = r.m.keys /\ q.m.keys_to_sync = r.m.keys_to_sync
        /\ q.m.name = r.m.name /\ q.m.accel_ids = r.m.accel_ids
        /\ q.m.grabber = r.m.grabber /\ q.m.custom_settings = r.m.custom_settings
    BY <2>1, <2>2 DEF Managers
  <2> QED
    BY <2>1, <2>3 DEF v
<1>18. IdsNamed(q) /\ IdsApart(q)
  BY <1>11, <1>15, <1>17 DEF IdsNamed, IdsApart
<1>19. \A k : (Complete(q, k) <=> Complete(Here, k)) /\ (Complete(b, k) <=> Complete(Here, k))
  <2>1. q.w.binding = world.binding /\ b.w.binding = world.binding /\ Here.w.binding = world.binding
    BY <1>2, <1>6, <1>13, <1>15, <1>17
  <2> QED
    BY <2>1 DEF Complete
<1>20. OneKeyEach(q)
  <2>6. q.w.listed = list /\ q.m.grabber = mk.grabber /\ q.m.keys \subseteq t.m.keys /\ q.m.name = t.m.name
    <3>1. q.w = b.w
      BY <1>13, <1>15, <1>17
    <3> QED
      BY <1>6, <1>13, <1>15, <1>17, <3>1
  <2>1. \A o, p \in t.m.keys : t.m.name[o] = t.m.name[p] => o = p
    <3>1. \A o \in mk.keys : t.m.name[o] \notin paths
      BY <1>6, <1>11, <1>12
    <3> QED
      BY <1>4, <1>11, <1>13, <3>1
  <2>2. \A o \in q.m.keys : q.m.name[o] \in Fixed \cup q.w.listed
    <3>1. \A o \in t.m.keys : t.m.name[o] \in Fixed \cup Custom
      BY <1>13 DEF States, Managers, Names
    <3> QED
      BY <1>14, <1>15, <1>17, <2>6, <3>1
  <2>3. q.w.listed \subseteq q.m.custom_settings
    BY <1>13, <1>14, <1>15, <1>17, <2>6
  <2>4. ASSUME NEW k \in Fixed \cup list, Complete(q, k)
        PROVE  \E o \in q.m.keys : q.m.name[o] = k
    <3>1. \E o \in t.m.keys : t.m.name[o] = k
      <4>1. CASE k \in Fixed \cup world.listed
        BY <1>4, <1>11, <1>13, <1>19, <2>4, <4>1
      <4>2. CASE k \in paths
        BY <1>13, <1>19, <2>4, <4>2
      <4> QED
        BY <1>4, <1>19, <2>4, <4>1, <4>2 DEF paths
    <3> QED
      BY <1>14, <1>15, <1>17, <2>4, <3>1, KeySyncAssumption
  <2>5. ASSUME NEW k \in q.m.custom_settings \ list
        PROVE  ~Complete(q, k)
    <3>1. k \in mk.custom_settings /\ k \notin {t.m.name[o] : o \in gone} /\ k \in Custom
      BY <1>2, <1>13, <1>15, <1>17, <2>5
    <3>2. \A o \in mk.keys : mk.name[o] # k
      BY <1>11, <1>13, <1>14, <2>5, <3>1
    <3> QED
      BY <1>4, <1>19, <3>1, <3>2
  <2> QED
    BY <1>3, <2>1, <2>2, <2>3, <2>4, <2>5, <2>6 DEF OneKeyEach
<1>21. ASSUME Active(q)
       PROVE  InStep(q)
  <2>1. Active(t) /\ Active(r) /\ InStep(t)
    BY <1>11, <1>15, <1>17, <1>21 DEF Active
  <2>2. QueueSeen(q)
    BY <1>15, <1>16, <1>17, <2>1, ActiveSyncs DEF QueueSeen
  <2>3. \A o : Asked(q, o) = Asked(t, o) /\ GetBindings(q, o) = GetBindings(t, o)
    BY <1>15, <1>17 DEF Asked, GetBindings
  <2>4. KeysInStep(q)
    BY <1>15, <1>17, <2>1, <2>3 DEF InStep, KeysInStep
  <2>5. ItemsInStep(q)
    BY <1>15, <1>17, <2>1 DEF InStep, ItemsInStep
  <2> QED
    BY <2>2, <2>4, <2>5 DEF InStep
<1>22. Between(q)
  BY <1>18, <1>20, <1>21 DEF Between
<1>23. SyncInv'
  BY <1>1, ListKeeps
<1> QED
  BY <1>5, <1>17, <1>22, <1>23, GrabsClose

\* Where no operation is active any more, the sync goes on.
LEMMA OnwardGrabs ==
  ASSUME NEW d, Onward(d), SyncInv', IdsNamed(d), IdsApart(d), OneKeyEach(d),
         Active(d) => KeysInStep(d) /\ Freed(d)
  PROVE  GrabInv'
<1> DEFINE t == KeysSyncContinue(d)
<1>1. t \in States /\ Done(t)
  BY ContinueKeeps DEF Onward
<1>2. Between(t)
  BY ContinueGrabs DEF Onward
<1> HIDE DEF t
<1> QED
  BY <1>1, <1>2, GrabsClose

\* What is known of the state without the call that was answered.
LEMMA AnsweredGrabs ==
  ASSUME GrabInv, NEW call, NEW b, Answered(call, b)
  PROVE  /\ SyncInv /\ IdsNamed(b) /\ IdsApart(b) /\ OneKeyEach(b)
         /\ Active(b) <=> Active(Here)
         /\ call.to = world.owner => Active(Here)
         /\ Active(Here) =>
              /\ \A o \in mk.keys \ mk.keys_to_sync :
                   mk.accel_ids[o] \cup Asked(Here, o) = GetBindings(b, o)
              /\ \A o \in mk.keys : \A a \in mk.accel_ids[o] : <<world.owner, a>> \in world.grabs
              /\ ItemsInStep(Here) /\ Freed(b)
<1>1. KeysTypeOK /\ One(Here) /\ Kept(Here) /\ Between(Here) /\ Freed(Here) /\ SyncInv
  BY DEF GrabInv, SyncInv
<1>2. /\ Here.m = mk /\ Here.c = calls /\ Here.w = world
      /\ DOMAIN calls = 1 .. Len(calls)
  BY <1>1, HereFields DEF KeysTypeOK
<1>3. /\ b \in States /\ b.m = mk /\ b.w = world /\ Len(b.c) = 0
      /\ call \in Calls /\ Len(calls) = 1 /\ call = calls[1]
  BY DEF Answered
<1>4. IdsNamed(b) /\ IdsApart(b) /\ OneKeyEach(b)
  BY <1>1, <1>2, <1>3, RenamedSame DEF Between, IdsNamed, IdsApart
<1>5. (Active(b) <=> Active(Here)) /\ (call.to = world.owner => Active(Here))
  <2>1. call.to # NoShell
    <3>1. call.to \in Shells
      BY <1>1, AnsweredKeeps
    <3> QED
      BY <3>1 DEF Shells, NoShell
  <2> QED
    BY <1>1, <1>2, <1>3, <2>1 DEF Active, One, OneOperation
<1>6. ASSUME Active(Here)
      PROVE  /\ \A o \in mk.keys \ mk.keys_to_sync :
                  mk.accel_ids[o] \cup Asked(Here, o) = GetBindings(b, o)
             /\ \A o \in mk.keys : \A a \in mk.accel_ids[o] : <<world.owner, a>> \in world.grabs
             /\ ItemsInStep(Here) /\ Freed(b)
  <2>1. InStep(Here) /\ world.owner # NoShell
    BY <1>1, <1>2, <1>6 DEF Between, Active
  <2>2. \A o : GetBindings(b, o) = GetBindings(Here, o)
    BY <1>2, <1>3 DEF GetBindings
  <2>3. ObjectsOf(call.items) \subseteq mk.keys \cup mk.keys_to_sync
    <3>1. call.kind \in {"grab", "ungrab"}
      BY AnsweredKeeps, <1>1
    <3> QED
      BY <1>1, <1>2, <1>3, <2>1, <3>1 DEF Kept, CallInStep
  <2>4. Free(b) \subseteq Free(Here)
    <3>1. Referenced(Here) \subseteq mk.keys \cup mk.keys_to_sync
      BY <1>2, <1>3, <2>3 DEF Referenced
    <3> QED
      BY <1>3, <3>1 DEF Free, Referenced
  <2>5. Freed(b)
    BY <1>1, <1>2, <1>3, <2>4 DEF Freed
  <2> QED
    BY <1>2, <2>1, <2>2, <2>5 DEF InStep, KeysInStep
<1> QED
  BY <1>1, <1>4, <1>5, <1>6

\* What was asked for is granted in full: the keys have the ids they are to have.
LEMMA GrabDoneGrabs ==
  ASSUME GrabInv, NEW call, NEW b, Answered(call, b), GrabDone(call, b), SyncInv'
  PROVE  GrabInv'
<1>1. SyncInv /\ IdsNamed(b) /\ IdsApart(b) /\ OneKeyEach(b)
  BY AnsweredGrabs
<1>2. /\ call.items \subseteq Objects \X Accels /\ call.kind = "grab"
      /\ call.to = world.owner
      /\ \A o \in ObjectsOf(call.items) :
           world.owner # NoShell => o \in mk.keys \cup mk.keys_to_sync
  BY <1>1, AnsweredKeeps DEF GrabDone
<1>3. /\ Active(Here)
      /\ \A o \in mk.keys \ mk.keys_to_sync :
           mk.accel_ids[o] \cup Asked(Here, o) = GetBindings(b, o)
      /\ \A o \in mk.keys : \A a \in mk.accel_ids[o] : <<world.owner, a>> \in world.grabs
      /\ ItemsInStep(Here) /\ Freed(b)
  BY <1>2, AnsweredGrabs
<1>4. /\ Here.m = mk /\ Here.c = calls /\ Here.w = world
      /\ mk.keys \subseteq Objects /\ mk.keys_to_sync \subseteq Objects
  BY <1>1, HereFields DEF SyncInv, KeysTypeOK, Managers
<1>5. /\ b.m = mk /\ b.w = world /\ Len(b.c) = 0 /\ b \in States
      /\ Len(calls) = 1 /\ call = calls[1] /\ DOMAIN b.c = {}
  BY DEF Answered, States
<1>6. /\ \A i \in call.items :
           /\ i[2][1] = mk.name[i[1]] /\ <<world.owner, i[2]>> \notin world.grabs
           /\ \A o \in Objects : i[2] \notin mk.accel_ids[o]
      /\ \A i, j \in call.items : i[2] = j[2] => i = j
  <2>1. Len(Here.c) = 1 /\ Here.c[1] = call
    BY <1>4, <1>5
  <2>2. \A i \in call.items :
           /\ i[2][1] = mk.name[i[1]] /\ <<world.owner, i[2]>> \notin world.grabs
           /\ \A j \in call.items : i[2] = j[2] => i = j
           /\ \A o \in Objects : i[2] \notin mk.accel_ids[o]
    BY <1>2, <1>3, <1>4, <2>1 DEF ItemsInStep
  <2> QED
    BY <2>2
<1>7. \A o : Asked(Here, o) = {a \in Accels : <<o, a>> \in call.items}
  BY <1>2, <1>4, <1>5 DEF Asked
<1>8. world.owner # NoShell
  BY <1>3, <1>4 DEF Active
<1>9. PICK g \in Grants(call) : \E d, t :
        /\ Regrabbed(b, world.grabs \cup AtShell(call.to, g), d)
        /\ Relabelled(d, Given(d, g), t) /\ Onward(t)
  BY <1>1, GrabDoneOps
<1>10. PICK d, t :
        /\ Regrabbed(b, world.grabs \cup AtShell(call.to, g), d)
        /\ Relabelled(d, Given(d, g), t) /\ Onward(t)
  BY <1>9
<1>11. g = call.items
  <2>1. g \subseteq call.items
    BY DEF Grants
  <2>2. {i[2] : i \in g} = {i[2] : i \in {k \in call.items : <<call.to, k[2]>> \notin world.grabs}}
    BY DEF Grants
  <2>3. ASSUME NEW i \in call.items
        PROVE  \E j \in g : i[2] = j[2]
    <3>1. <<call.to, i[2]>> \notin world.grabs
      BY <1>2, <1>6
    <3>2. i[2] \in {j[2] : j \in {k \in call.items : <<call.to, k[2]>> \notin world.grabs}}
      BY <3>1
    <3>3. i[2] \in {j[2] : j \in g}
      BY <2>2, <3>2
    <3> QED
      BY <3>3
  <2>4. \A i \in call.items : i \in g
    BY <1>6, <2>1, <2>3
  <2> QED
    BY <2>1, <2>4
<1> DEFINE ids == Given(d, g)
<1>12. d.m = mk
  BY <1>5, <1>10 DEF Regrabbed
<1>13. \A o \in Objects : \A a : a \in ids[o] <=> a \in mk.accel_ids[o] \/ <<o, a>> \in call.items
  <2> SUFFICES ASSUME NEW o \in Objects, NEW a
               PROVE  a \in ids[o] <=> a \in mk.accel_ids[o] \/ <<o, a>> \in call.items
    OBVIOUS
  <2>1. ids[o] = mk.accel_ids[o] \cup {i[2] : i \in {k \in call.items : k[1] = o}}
    BY <1>11, <1>12 DEF Given
  <2>2. a \in {i[2] : i \in {k \in call.items : k[1] = o}} <=> <<o, a>> \in call.items
    BY <1>2
  <2> QED
    BY <2>1, <2>2
<1> HIDE DEF ids
<1>14. /\ Relabelled(d, ids, t) /\ t.m.accel_ids = ids /\ t.m.keys = mk.keys
       /\ t.m.keys_to_sync = mk.keys_to_sync /\ t.m.name = mk.name /\ t.c = b.c
       /\ t.w.grabs = world.grabs \cup AtShell(world.owner, call.items)
       /\ t.w.owner = world.owner /\ t.w.binding = world.binding
  BY <1>2, <1>5, <1>10, <1>11, <1>12 DEF Regrabbed, Relabelled, ids
<1>15. IdsNamed(t)
  <2>1. ASSUME NEW o \in Objects, NEW a \in ids[o]
        PROVE  a[1] = mk.name[o]
    <3>1. CASE a \in mk.accel_ids[o]
      BY <1>1, <1>5, <3>1 DEF IdsNamed
    <3>2. CASE <<o, a>> \in call.items
      BY <1>6, <3>2
    <3> QED
      BY <1>13, <2>1, <3>1, <3>2
  <2> QED
    BY <1>14, <2>1 DEF IdsNamed
<1>16. IdsApart(t)
  <2>1. ASSUME NEW o \in Objects, NEW p \in Objects, NEW a, a \in ids[o], a \in ids[p]
        PROVE  o = p
    <3>1. CASE a \in mk.accel_ids[o] /\ a \in mk.accel_ids[p]
      BY <1>1, <1>5, <3>1 DEF IdsApart
    <3>2. CASE <<o, a>> \in call.items /\ <<p, a>> \in call.items
      BY <1>6, <3>2
    <3>3. \A x, y \in Objects : <<x, a>> \in call.items => a \notin mk.accel_ids[y]
      BY <1>6
    <3> QED
      BY <1>13, <2>1, <3>1, <3>2, <3>3
  <2> QED
    BY <1>14, <2>1 DEF IdsApart
<1>17. OneKeyEach(t)
  <2>1. t.m.custom_settings = b.m.custom_settings /\ t.m.grabber = b.m.grabber /\ t.w.listed = b.w.listed
    BY <1>10 DEF Regrabbed, Relabelled
  <2> QED
    BY <1>1, <1>5, <1>14, <2>1, RenamedSame
<1>18. KeysInStep(t)
  <2>1. \A o : Asked(t, o) = {}
    BY <1>5, <1>14 DEF Asked
  <2>2. ASSUME NEW o \in mk.keys \ mk.keys_to_sync
        PROVE  ids[o] = GetBindings(t, o)
    <3>1. GetBindings(t, o) = GetBindings(b, o)
      BY <1>5, <1>14 DEF GetBindings
    <3>2. ids[o] = mk.accel_ids[o] \cup Asked(Here, o)
      <4>1. \A a : <<o, a>> \in call.items => a \in Accels
        BY <1>2
      <4>2. \A a : a \in Asked(Here, o) <=> <<o, a>> \in call.items
        BY <1>7, <4>1
      <4>3. \A a : a \in ids[o] <=> a \in mk.accel_ids[o] \cup Asked(Here, o)
        BY <1>4, <1>13, <4>2
      <4> QED
        BY <4>3
    <3> QED
      BY <1>3, <3>1, <3>2
  <2>3. ASSUME NEW o \in mk.keys, NEW a \in ids[o]
        PROVE  <<world.owner, a>> \in t.w.grabs
    <3>1. CASE a \in mk.accel_ids[o]
      BY <1>3, <1>14, <3>1
    <3>2. CASE <<o, a>> \in call.items
      <4>1. <<world.owner, a>> \in AtShell(world.owner, call.items)
        BY <3>2 DEF AtShell
      <4> QED
        BY <1>14, <4>1
    <3> QED
      BY <1>4, <1>13, <2>3, <3>1, <3>2
  <2> QED
    BY <1>14, <2>1, <2>2, <2>3 DEF KeysInStep
<1>19. Freed(t)
  <2>1. Free(t) = Free(b)
    BY <1>5, <1>14, SameFree
  <2>2. ASSUME NEW o \in Free(b)
        PROVE  ids[o] = {}
    <3>1. o \in Objects /\ mk.accel_ids[o] = {} /\ o \notin mk.keys \cup mk.keys_to_sync
      BY <1>3, <1>5, <2>2 DEF Freed, Free, Referenced
    <3>2. \A a : <<o, a>> \notin call.items
      BY <1>2, <1>8, <3>1 DEF ObjectsOf
    <3> QED
      BY <1>13, <3>1, <3>2
  <2> QED
    BY <1>14, <2>1, <2>2 DEF Freed
<1> QED
  BY <1>10, <1>15, <1>16, <1>17, <1>18, <1>19, OnwardGrabs

\* What was given up has no id, and nothing else was given up.
LEMMA UngrabDoneGrabs ==
  ASSUME GrabInv, NEW call, NEW b, Answered(call, b), UngrabDone(call, b), SyncInv'
  PROVE  GrabInv'
<1>1. SyncInv /\ IdsNamed(b) /\ IdsApart(b) /\ OneKeyEach(b)
  BY AnsweredGrabs
<1>2. call.items \subseteq Objects \X Accels /\ call.kind = "ungrab" /\ call.to = world.owner
  BY <1>1, AnsweredKeeps DEF UngrabDone
<1>3. /\ Active(Here)
      /\ \A o \in mk.keys \ mk.keys_to_sync :
           mk.accel_ids[o] \cup Asked(Here, o) = GetBindings(b, o)
      /\ \A o \in mk.keys : \A a \in mk.accel_ids[o] : <<world.owner, a>> \in world.grabs
      /\ ItemsInStep(Here) /\ Freed(b)
  BY <1>2, AnsweredGrabs
<1>4. /\ Here.m = mk /\ Here.c = calls /\ Here.w = world /\ Kept(Here)
      /\ mk.keys \subseteq Objects /\ mk.keys_to_sync \subseteq Objects
  BY <1>1, HereFields DEF SyncInv, KeysTypeOK, Managers
<1>5. /\ b.m = mk /\ b.w = world /\ Len(b.c) = 0 /\ b \in States
      /\ Len(calls) = 1 /\ call = calls[1]
  BY DEF Answered
<1>6. Len(Here.c) = 1 /\ Here.c[1] = call
  BY <1>4, <1>5
<1>7. /\ \A i \in call.items : i[2] \in mk.accel_ids[i[1]]
      /\ \A o \in ObjectsOf(call.items) : o \in mk.keys_to_sync
      /\ \A o : Asked(Here, o) = {}
  <2>1. \A i \in call.items : i[2] \in mk.accel_ids[i[1]]
    BY <1>2, <1>3, <1>4, <1>6 DEF ItemsInStep
  <2>2. \A o \in ObjectsOf(call.items) : o \in mk.keys_to_sync
    BY <1>2, <1>4, <1>6 DEF Kept, CallInStep
  <2>3. \A o : Asked(Here, o) = {}
    BY <1>2, <1>6 DEF Asked
  <2> QED
    BY <2>1, <2>2, <2>3
<1>8. PICK d, t :
        /\ Regrabbed(b, world.grabs \ AtShell(call.to, call.items), d)
        /\ Relabelled(d, Cleared(d, call), t) /\ Onward(t)
  BY <1>1, UngrabDoneOps
<1> DEFINE ids == Cleared(d, call)
<1>9. \A o \in Objects : ids[o] = IF o \in ObjectsOf(call.items) THEN {} ELSE mk.accel_ids[o]
  BY <1>5, <1>8 DEF Regrabbed, Cleared
<1> HIDE DEF ids
<1>10. /\ Relabelled(d, ids, t) /\ t.m.accel_ids = ids /\ t.m.keys = mk.keys
       /\ t.m.keys_to_sync = mk.keys_to_sync /\ t.m.name = mk.name /\ t.c = b.c
       /\ t.w.grabs = world.grabs \ AtShell(world.owner, call.items)
       /\ t.w.owner = world.owner /\ t.w.binding = world.binding
  BY <1>2, <1>5, <1>8 DEF Regrabbed, Relabelled, ids
<1>11. IdsNamed(t) /\ IdsApart(t)
  <2>1. \A o \in Objects : ids[o] \subseteq mk.accel_ids[o]
    BY <1>9
  <2> QED
    BY <1>1, <1>5, <1>10, <2>1 DEF IdsNamed, IdsApart
<1>12. OneKeyEach(t)
  <2>1. t.m.custom_settings = b.m.custom_settings /\ t.m.grabber = b.m.grabber /\ t.w.listed = b.w.listed
    BY <1>8 DEF Regrabbed, Relabelled
  <2> QED
    BY <1>1, <1>5, <1>10, <2>1, RenamedSame
<1>13. KeysInStep(t)
  <2>1. \A o : Asked(t, o) = {}
    BY <1>5, <1>10 DEF Asked
  <2>2. \A o \in mk.keys \ mk.keys_to_sync : ids[o] = GetBindings(t, o)
    <3>1. \A o : GetBindings(t, o) = GetBindings(b, o)
      BY <1>5, <1>10 DEF GetBindings
    <3> QED
      BY <1>3, <1>4, <1>7, <1>9, <3>1
  <2>3. ASSUME NEW o \in mk.keys, NEW a \in ids[o]
        PROVE  <<world.owner, a>> \in t.w.grabs
    <3>1. o \in Objects /\ o \notin ObjectsOf(call.items) /\ a \in mk.accel_ids[o]
      BY <1>4, <1>9, <2>3
    <3>2. ASSUME <<world.owner, a>> \in AtShell(world.owner, call.items)
          PROVE  FALSE
      <4>1. PICK i \in call.items : i[2] = a
        BY <3>2 DEF AtShell
      <4>2. i[1] \in Objects /\ a \in mk.accel_ids[i[1]]
        BY <1>2, <1>7, <4>1
      <4>3. i[1] = o
        BY <1>1, <1>5, <3>1, <4>2 DEF IdsApart
      <4> QED
        BY <3>1, <4>1, <4>3 DEF ObjectsOf
    <3> QED
      BY <1>3, <1>10, <3>1, <3>2
  <2> QED
    BY <1>10, <2>1, <2>2, <2>3 DEF KeysInStep
<1>14. Freed(t)
  <2>1. Free(t) = Free(b)
    BY <1>5, <1>10, SameFree
  <2>2. \A o \in Free(b) : ids[o] = {}
    BY <1>3, <1>5, <1>9, FreeTyped DEF Freed
  <2> QED
    BY <1>10, <2>1, <2>2 DEF Freed
<1> QED
  BY <1>8, <1>11, <1>12, <1>13, <1>14, OnwardGrabs

\* Everything is queued again.
LEMMA RetriesGrab ==
  ASSUME GrabInv, NEW call, NEW b, Answered(call, b), Done(KeysSyncQueue(b, TRUE)), SyncInv'
  PROVE  GrabInv'
<1>1. /\ SyncInv /\ IdsNamed(b) /\ IdsApart(b) /\ OneKeyEach(b)
      /\ Active(b) <=> Active(Here)
      /\ Active(Here) => \A o \in mk.keys : \A a \in mk.accel_ids[o] : <<world.owner, a>> \in world.grabs
  BY AnsweredGrabs
<1>2. b.m = mk /\ b.w = world /\ Len(b.c) = 0 /\ b \in States /\ mk \in Managers
  BY DEF Answered, States
<1> DEFINE t == KeysSyncQueue(b, TRUE)
           l == b.m.keys_to_sync \cup b.m.keys
<1>3. /\ t \in States /\ t.w = b.w /\ Len(t.c) = Len(b.c)
      /\ t.m = [b.m EXCEPT !.stuck = FALSE, !.source = TRUE, !.keys_to_sync = l]
  BY <1>2, RetryOps
<1>4. Done(t) /\ l = mk.keys_to_sync \cup mk.keys
  BY <1>2
<1> HIDE DEF t, l
<1>5. /\ t.m.source /\ t.m.keys_to_sync = l /\ t.m.keys = mk.keys /\ t.m.name = mk.name
      /\ t.m.accel_ids = mk.accel_ids /\ t.m.custom_settings = mk.custom_settings
      /\ t.m.grabber = mk.grabber
  BY <1>2, <1>3 DEF Managers
<1>6. IdsNamed(t) /\ IdsApart(t) /\ OneKeyEach(t)
  <2>1. IdsNamed(t) /\ IdsApart(t)
    BY <1>1, <1>2, <1>5 DEF IdsNamed, IdsApart
  <2>2. /\ t.m.name = b.m.name /\ t.m.keys = b.m.keys /\ t.m.grabber = b.m.grabber
        /\ t.m.custom_settings = b.m.custom_settings
        /\ t.w.listed = b.w.listed /\ t.w.binding = b.w.binding
    BY <1>2, <1>3, <1>5
  <2>3. OneKeyEach(t)
    BY <1>1, <2>2, RenamedSame
  <2> QED
    BY <2>1, <2>3
<1>7. ASSUME Active(t)
      PROVE  InStep(t)
  <2>1. Active(Here)
    BY <1>1, <1>2, <1>3, <1>5, <1>7 DEF Active
  <2>2. KeysInStep(t)
    BY <1>1, <1>2, <1>3, <1>4, <1>5, <2>1 DEF KeysInStep
  <2>3. QueueSeen(t) /\ ItemsInStep(t)
    BY <1>2, <1>3, <1>5 DEF QueueSeen, ItemsInStep
  <2> QED
    BY <2>2, <2>3 DEF InStep
<1>8. Between(t)
  BY <1>6, <1>7 DEF Between
<1> QED
  BY <1>3, <1>4, <1>8, GrabsClose

\* The shell that was called is gone: there is nothing to be in step with.
LEMMA LeftGrabs ==
  ASSUME GrabInv, NEW call, NEW b, Answered(call, b), world.owner = NoShell, SyncInv'
  PROVE  /\ Onward(b) => GrabInv'
         /\ \A d : Relabelled(b, Cleared(b, call), d) /\ Onward(d) => GrabInv'
<1>1. SyncInv /\ IdsNamed(b) /\ IdsApart(b) /\ OneKeyEach(b)
  BY AnsweredGrabs
<1>2. b.m = mk /\ b.w = world
  BY DEF Answered
<1>3. Onward(b) => GrabInv'
  <2>1. ~Active(b)
    BY <1>2 DEF Active
  <2> QED
    BY <1>1, <2>1, OnwardGrabs
<1>4. ASSUME NEW d, Relabelled(b, Cleared(b, call), d), Onward(d)
      PROVE  GrabInv'
  <2>1. \A o \in Objects : d.m.accel_ids[o] \subseteq b.m.accel_ids[o]
    BY <1>4 DEF Relabelled, Cleared
  <2>2. d.m.name = b.m.name /\ d.w = b.w /\ d.m.grabber = b.m.grabber
    BY <1>4 DEF Relabelled
  <2>3. IdsNamed(d) /\ IdsApart(d)
    BY <1>1, <2>1, <2>2 DEF IdsNamed, IdsApart
  <2>4. OneKeyEach(d)
    BY <1>1, <1>4, RenamedSame DEF Relabelled
  <2>5. ~Active(d)
    BY <1>2, <2>2 DEF Active
  <2> QED
    BY <1>4, <2>3, <2>4, <2>5, OnwardGrabs
<1> QED
  BY <1>3, <1>4

LEMMA ReplyGrabs ==
  ASSUME GrabInv, NEW i, ReplyArrives(i)
  PROVE  GrabInv'
<1>1. SyncInv /\ SyncInv'
  BY ReplyKeeps DEF GrabInv
<1>2. PICK call, b :
        /\ Answered(call, b)
        /\ \/ GrabDone(call, b) \/ GrabFailed(call, b)
           \/ UngrabDone(call, b) \/ UngrabFailed(call, b)
  BY <1>1, AnsweredOps
<1>3. CASE GrabDone(call, b)
  BY <1>1, <1>2, <1>3, GrabDoneGrabs
<1>4. CASE UngrabDone(call, b)
  BY <1>1, <1>2, <1>4, UngrabDoneGrabs
<1>5. CASE GrabFailed(call, b)
  BY <1>1, <1>2, <1>5, GrabFailedOps, RetriesGrab, LeftGrabs
<1>6. CASE UngrabFailed(call, b)
  BY <1>1, <1>2, <1>6, UngrabFailedOps, RetriesGrab, LeftGrabs
<1> QED
  BY <1>2, <1>3, <1>4, <1>5, <1>6

LEMMA GrabInit ==
  ASSUME KeysInit
  PROVE  GrabInv
<1>1. SyncInv /\ Here.m = mk /\ Here.c = calls /\ Here.w = world
  BY SyncInit, HereFields DEF SyncInv
<1>2. /\ mk.grabber = NoShell /\ mk.keys = {} /\ mk.custom_settings = {}
      /\ \A o \in Objects : mk.accel_ids[o] = {}
  BY DEF KeysInit
<1>3. IdsNamed(Here) /\ IdsApart(Here) /\ OneKeyEach(Here) /\ ~Active(Here)
  BY <1>1, <1>2 DEF IdsNamed, IdsApart, OneKeyEach, Active
<1>4. Freed(Here)
  BY <1>1, <1>2, FreeTyped DEF Freed
<1> QED
  BY <1>1, <1>3, <1>4 DEF GrabInv, Between

LEMMA GrabStep ==
  ASSUME GrabInv, Happenings \cap {"busy", "away", "unlisted"} = {}, [KeysNext]_kvars
  PROVE  GrabInv'
<1>1. CASE UNCHANGED kvars
  <2>1. Here' = Here /\ KeysTypeOK'
    BY <1>1 DEF kvars, Here, GrabInv, SyncInv, KeysTypeOK
  <2> QED
    BY <2>1 DEF GrabInv, SyncInv
<1>2. CASE KeysNext
  <2>1. "busy" \notin Happenings /\ Happenings \cap {"busy", "away"} = {}
    OBVIOUS
  <2> QED
    BY <1>2, <2>1, SyncStartGrabs, ReadyGrabs, ExportsGrabs, ExitsGrabs, StartsGrabs,
       ReplyGrabs, FixedGrabs, ListGrabs, CustomGrabs DEF KeysNext
<1> QED
  BY <1>1, <1>2

\* When no sync is queued or active, the shell in use has grabbed exactly the
\* accelerators the settings ask for, if no shell is replaced while it owes an
\* answer and the custom bindings change where the daemon hears of it.
THEOREM GrabbedCorrect ==
  ASSUME Happenings \cap {"busy", "away", "unlisted"} = {}
  PROVE  KeysSpec => []SettledMeansGrabbed
<1>1. KeysInit => GrabInv
  BY GrabInit
<1>2. GrabInv /\ [KeysNext]_kvars => GrabInv'
  BY GrabStep
<1>3. GrabInv => SettledMeansGrabbed
  <2> SUFFICES ASSUME GrabInv, Settled
               PROVE  {g[2] : g \in {h \in world.grabs : h[1] = world.owner}} = WantedAccels
    BY DEF SettledMeansGrabbed
  <2>1. /\ Here.m = mk /\ Here.c = calls /\ Here.w = world /\ Kept(Here) /\ Between(Here)
        /\ mk \in Managers /\ world \in Worlds
    BY HereFields DEF GrabInv, SyncInv, KeysTypeOK
  <2>2. Active(Here) /\ InStep(Here) /\ mk.grabber # NoShell /\ Len(calls) = 0
    BY <2>1 DEF Settled, Active, Between
  <2>3. mk.keys_to_sync = {}
    BY <2>1, <2>2 DEF InStep, QueueSeen, Settled
  <2>4. \A o \in mk.keys : mk.accel_ids[o] = GetBindings(Here, o)
    <3>1. \A o : Asked(Here, o) = {}
      BY <2>1, <2>2 DEF Asked
    <3> QED
      BY <2>1, <2>2, <2>3, <3>1 DEF InStep, KeysInStep
  <2>5. /\ \A o \in mk.keys : mk.name[o] \in Fixed \cup world.listed
        /\ \A n \in Fixed \cup world.listed : Complete(Here, n) => \E o \in mk.keys : mk.name[o] = n
    BY <2>1, <2>2 DEF Between, OneKeyEach
  <2>6. \A o : GetBindings(Here, o) = IF world.binding[mk.name[o]] = 0 THEN {}
                                      ELSE {<<mk.name[o], world.binding[mk.name[o]]>>}
    BY <2>1 DEF GetBindings
  <2>7. ASSUME NEW g \in world.grabs, g[1] = world.owner
        PROVE  g[2] \in WantedAccels
    <3>1. PICK o \in mk.keys : g[2] \in mk.accel_ids[o]
      BY <2>1, <2>3, <2>7 DEF Kept, GrabsKnown
    <3>2. world.binding[mk.name[o]] # 0 /\ g[2] = <<mk.name[o], world.binding[mk.name[o]]>>
      BY <2>4, <2>6, <3>1
    <3> QED
      BY <2>5, <3>2 DEF WantedAccels
  <2>8. ASSUME NEW n \in Fixed \cup world.listed, world.binding[n] # 0
        PROVE  <<world.owner, <<n, world.binding[n]>>>> \in world.grabs
    <3>1. PICK o \in mk.keys : mk.name[o] = n
      BY <2>1, <2>5, <2>8 DEF Complete
    <3>2. <<n, world.binding[n]>> \in mk.accel_ids[o]
      BY <2>4, <2>6, <2>8, <3>1
    <3> QED
      BY <2>1, <2>2, <3>2 DEF InStep, KeysInStep
  <2>9. WantedAccels \subseteq {g[2] : g \in {h \in world.grabs : h[1] = world.owner}}
    <3> SUFFICES ASSUME NEW a \in WantedAccels
                 PROVE  \E g \in world.grabs : g[1] = world.owner /\ g[2] = a
      OBVIOUS
    <3>1. PICK n \in Fixed \cup world.listed : world.binding[n] # 0 /\ a = <<n, world.binding[n]>>
      BY DEF WantedAccels
    <3> QED
      BY <2>8, <3>1
  <2> QED
    BY <2>7, <2>9
<1> QED
  BY <1>1, <1>2, <1>3, PTL DEF KeysSpec
=============================================================================
