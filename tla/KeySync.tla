------------------------------ MODULE KeySync --------------------------------
(***************************************************************************)
(* How gsd-media-keys keeps the accelerators it has grabbed at gnome-shell *)
(* in step with the settings (gsd-media-keys-manager.c): keys_sync_queue,  *)
(* the ungrab and grab calls of keys_sync_continue, their replies, and the *)
(* shells that come, go and replace each other meanwhile.                  *)
(*                                                                         *)
(* A key has at most one binding here, written as a version (0: none).  An *)
(* accelerator is a name with a version: the settings never bind two names *)
(* to one accelerator.  The id of a grab is its accelerator, which is      *)
(* unique at a shell.  A shell handles a call at the moment the reply to   *)
(* it arrives; calls to one shell are answered in order.                   *)
(***************************************************************************)
EXTENDS Naturals, Sequences, FiniteSetsExt, Functions

CONSTANTS
  Fixed,        \* keys of the schema
  Custom,       \* paths of custom bindings
  Incomplete,   \* the custom paths that have no command
  MaxBinding,   \* bound: versions of a binding
  MaxShells,    \* bound: shells in a behaviour
  MaxObjects,   \* bound: MediaKey objects in memory at a time
  Happenings    \* what may happen, of {"away", "unlisted", "busy"}

ASSUME KeySyncAssumption ==
  /\ Fixed \cap Custom = {} /\ Incomplete \subseteq Custom
  /\ IsFiniteSet(Fixed) /\ IsFiniteSet(Custom) /\ Fixed \cup Custom # {}
  /\ MaxBinding \in Nat \ {0} /\ MaxShells \in Nat /\ MaxObjects \in Nat

Names   == Fixed \cup Custom
Shells  == 1..MaxShells
NoShell == 0
Objects == 1..MaxObjects
Accels  == Names \X (1..MaxBinding)

VARIABLES
  mk,     \* the fields of GsdMediaKeysManager, and its MediaKey objects
  calls,  \* the calls to a shell that are not answered, oldest first
  world   \* the shells and the settings

kvars == <<mk, calls, world>>

\* key_grabber and the proxies being made for it; keys and keys_to_sync; what
\* their objects are for and hold; the paths in custom_settings; whether
\* keys_sync_source_id is set; and whether keys_sync_data belongs to a call
\* that was never sent.
Managers ==
  [grabber : {NoShell} \cup Shells, connecting : SUBSET Shells,
   keys : SUBSET Objects, keys_to_sync : SUBSET Objects,
   name : [Objects -> Names], accel_ids : [Objects -> SUBSET Accels],
   custom_settings : SUBSET Custom, source : BOOLEAN, stuck : BOOLEAN]

\* GrabUngrabData, whose keys are those of items, with the arguments of the call
\* it is for: items too, but for an immediate ungrab what was granted.
\* current: it is priv->keys_sync_data.
Calls ==
  [kind : {"ungrab", "grab", "immediate ungrab"}, to : Shells,
   items : SUBSET (Objects \X Accels), granted : SUBSET (Objects \X Accels),
   cancelled : BOOLEAN, current : BOOLEAN]

Worlds ==
  [owner : {NoShell} \cup Shells, started : {NoShell} \cup Shells,
   alive : SUBSET Shells, exported : SUBSET Shells, grabs : SUBSET (Shells \X Accels),
   binding : [Names -> 0..MaxBinding], listed : SUBSET Custom]

\* The type of the state.
KeysTypeOK == mk \in Managers /\ calls \in Seq(Calls) /\ world \in Worlds

-------------------------------------------------------------------------------
(* The functions of the daemon.  s is the state between their steps.       *)

Here == [m |-> mk, c |-> calls, w |-> world]

ObjectsOf(items) == {i[1] : i \in items}

\* The references there are to MediaKey objects.
Referenced(s) ==
  s.m.keys \cup s.m.keys_to_sync \cup UNION {ObjectsOf(s.c[i].items) : i \in DOMAIN s.c}

Free(s) == Objects \ Referenced(s)

\* The end of a callback: media_key_unref has freed what nobody refers to.
Done(s) ==
  /\ mk' = [s.m EXCEPT
       !.name = [o \in Objects |-> IF o \in Free(s) THEN CHOOSE n \in Names : TRUE ELSE @[o]],
       !.accel_ids = [o \in Objects |-> IF o \in Free(s) THEN {} ELSE @[o]]]
  /\ calls' = s.c /\ world' = s.w

\* keys_sync_data # NULL
Syncing(s) == s.m.stuck \/ \E i \in DOMAIN s.c : s.c[i].current

\* priv->keys_sync_data is overwritten, and was cancelled before if cancel.
Forget(s, cancel) ==
  [s EXCEPT !.m.stuck = FALSE,
            !.c = [i \in DOMAIN s.c |->
              [s.c[i] EXCEPT !.cancelled = @ \/ (cancel /\ s.c[i].current), !.current = FALSE]]]

\* keys_sync_queue.  The early return leaves no source behind.
KeysSyncQueue(s, retry) ==
  IF retry
  THEN [Forget(s, TRUE) EXCEPT !.m.source = TRUE, !.m.keys_to_sync = @ \cup s.m.keys]
  ELSE [s EXCEPT !.m.source = ~Syncing(s)]

\* The new keys_sync_data and its call.  Without a proxy nothing is sent.
Call(s, kind, items) ==
  IF s.m.grabber = NoShell
  THEN [Forget(s, FALSE) EXCEPT !.m.stuck = TRUE]
  ELSE [Forget(s, FALSE) EXCEPT
         !.c = Append(@, [kind |-> kind, to |-> s.m.grabber, items |-> items, granted |-> {},
                          cancelled |-> FALSE, current |-> TRUE])]

ToUngrab(s) == {i \in s.m.keys_to_sync \X Accels : i[2] \in s.m.accel_ids[i[1]]}

\* get_bindings, without the empty ones.
GetBindings(s, o) ==
  LET n == s.m.name[o] IN IF s.w.binding[n] = 0 THEN {} ELSE {<<n, s.w.binding[n]>>}

\* Keys that are not on the list any more are not grabbed.
ToGrab(s) ==
  {i \in (s.m.keys_to_sync \cap s.m.keys) \X Accels : i[2] \in GetBindings(s, i[1])}

\* Mistake: what is grabbed is ungrabbed only if it has no binding any more.
KeysSyncContinueGrabsFirst(s) ==
  IF s.m.keys_to_sync = {} THEN s
  ELSE IF ToUngrab(s) # {} /\ ToGrab(s) = {} THEN Call(s, "ungrab", ToUngrab(s))
  ELSE Call([s EXCEPT !.m.keys_to_sync = {}], "grab", ToGrab(s))

\* Mistake: keys_to_sync is not emptied before the grab.
KeysSyncContinueForever(s) ==
  IF s.m.keys_to_sync = {} THEN s
  ELSE IF ToUngrab(s) # {} THEN Call(s, "ungrab", ToUngrab(s))
  ELSE Call(s, "grab", ToGrab(s))

\* keys_sync_continue: ungrab what is grabbed, and when nothing is, grab.
KeysSyncContinue(s) ==
  IF s.m.keys_to_sync = {} THEN s
  ELSE IF ToUngrab(s) # {} THEN Call(s, "ungrab", ToUngrab(s))
  ELSE Call([s EXCEPT !.m.keys_to_sync = {}], "grab", ToGrab(s))

\* Mistake: the error is like any other, nothing is tried again.
RetryNever(s) == KeysSyncContinue(s)

\* A reply "unknown method": the shell has not exported its object yet.
Retry(s) == KeysSyncQueue(s, TRUE)

\* ungrab_accelerators_complete.  Whatever the shell said, the ids are gone.
UngrabComplete(s, call, outcome) ==
  LET cleared == [s EXCEPT !.m.accel_ids =
                    [o \in Objects |-> IF o \in ObjectsOf(call.items) THEN {} ELSE @[o]]]
  IN IF outcome = "unknown method" THEN Retry(s)
     ELSE IF call.cancelled THEN cleared
     ELSE KeysSyncContinue(cleared)

\* grab_accelerators_complete; granted are the items that were given an id.
\* What a cancelled operation was granted is ungrabbed at once, by a call with
\* the same data, that is for all its keys; a failure is not asked whether it was
\* cancelled.
GrabComplete(s, call, outcome, granted) ==
  IF outcome = "unknown method" THEN Retry(s)
  ELSE IF outcome = "failed" THEN KeysSyncContinue(s)
  ELSE IF call.cancelled
  THEN [s EXCEPT !.c = Append(@, [call EXCEPT !.kind = "immediate ungrab", !.granted = granted])]
  ELSE KeysSyncContinue([s EXCEPT !.m.accel_ids =
         [o \in Objects |-> @[o] \cup {i[2] : i \in {g \in granted : g[1] = o}}]])

\* Where media_key_new puts the key of each name, and the name of the key there.
Places(s, names) == CHOOSE f \in [names -> Free(s)] : IsInjective(f)
NameAt(place, o) == CHOOSE n \in DOMAIN place : place[n] = o

\* media_key_new for each of the names.
AddKeys(s, names) ==
  LET place == Places(s, names)
  IN [s EXCEPT !.m.keys = @ \cup Range(place),
               !.m.name = [o \in Objects |-> IF o \in Range(place) THEN NameAt(place, o) ELSE @[o]]]

KeysNamed(s, n) == {o \in s.m.keys : s.m.name[o] = n}

\* media_key_new_for_path makes an object only for a complete binding.
Complete(s, n) == n \notin Incomplete \/ s.w.binding[n] # 0

\* The (first) old key of each path.
Replaced(s, paths) ==
  {CHOOSE o \in named : TRUE : named \in {KeysNamed(s, path) : path \in paths} \ {{}}}

\* Mistake: the keys that are replaced are dropped without syncing them.
UpdateCustomForgets(s, paths) ==
  LET gone == [s EXCEPT !.m.keys = @ \ Replaced(s, paths), !.m.custom_settings = @ \cup paths]
      new  == AddKeys(gone, {path \in paths : Complete(s, path)})
  IN KeysSyncQueue([new EXCEPT !.m.keys_to_sync = @ \cup (new.m.keys \ gone.m.keys)], FALSE)

\* update_custom_binding for each of the paths: a new key in place of the old.
UpdateCustomBindings(s, paths) ==
  LET old  == Replaced(s, paths)
      gone == [s EXCEPT !.m.keys = @ \ old, !.m.keys_to_sync = @ \cup old,
                        !.m.custom_settings = @ \cup paths]
      new  == AddKeys(gone, {path \in paths : Complete(s, path)})
  IN KeysSyncQueue([new EXCEPT !.m.keys_to_sync = @ \cup (new.m.keys \ gone.m.keys)], FALSE)

CustomKeys(s) == {o \in s.m.keys : s.m.name[o] \in Custom}

\* The removals of gsettings_custom_changed_cb.
RemoveCustom(s, list) ==
  LET gone == {o \in CustomKeys(s) : s.m.name[o] \notin list}
  IN [s EXCEPT !.m.keys = @ \ gone, !.m.keys_to_sync = @ \cup gone,
               !.m.custom_settings = @ \ {s.m.name[o] : o \in gone}]

\* init_kbd
InitKbd(s) ==
  KeysSyncQueue(
    AddKeys([s EXCEPT !.m.custom_settings = @ \cup s.w.listed],
            Fixed \cup {n \in s.w.listed : Complete(s, n)}), TRUE)

\* Mistake: a proxy is made although the name has no owner.
PresenceChangedAlways(s) ==
  [s EXCEPT !.m.keys = {}, !.m.grabber = NoShell, !.m.connecting = @ \cup {s.w.owner}]

\* shell_presence_changed
PresenceChanged(s) ==
  [s EXCEPT !.m.keys = {}, !.m.grabber = NoShell,
            !.m.connecting = @ \cup ({s.w.owner} \ {NoShell})]

-------------------------------------------------------------------------------
(* The callbacks, and what happens around the daemon.                      *)

\* start_media_keys_idle_cb, with no shell yet.
KeysInit ==
  /\ mk = [grabber |-> NoShell, connecting |-> {}, keys |-> {}, keys_to_sync |-> {},
           name |-> [o \in Objects |-> CHOOSE n \in Names : TRUE],
           accel_ids |-> [o \in Objects |-> {}],
           custom_settings |-> {}, source |-> FALSE, stuck |-> FALSE]
  /\ calls = <<>>
  /\ \E b \in [Names -> 0..1], l \in SUBSET Custom :
       world = [owner |-> NoShell, started |-> NoShell, alive |-> {}, exported |-> {},
                grabs |-> {}, binding |-> b, listed |-> l]

\* keys_sync_start; SyncStartsAlone is its assertion.
KeysSyncStart == mk.source /\ Done(KeysSyncContinue([Here EXCEPT !.m.source = FALSE]))

\* Bound: there is room for the objects of init_kbd.
RoomForKeys == Cardinality(Free(Here)) >= Cardinality(Names)

\* on_key_grabber_ready
KeyGrabberReady(sh) ==
  /\ sh \in mk.connecting
  /\ RoomForKeys
  /\ Done(InitKbd([Here EXCEPT !.m.connecting = @ \ {sh}, !.m.grabber = sh]))

FirstTo(i) == \A j \in 1..(i - 1) : calls[j].to # calls[i].to

Outcome(call) ==
  IF call.to \notin world.alive THEN "failed"
  ELSE IF call.to \notin world.exported THEN "unknown method" ELSE "done"

\* What a shell can grant: one grab of an accelerator nobody holds.
Grants(call) ==
  {g \in SUBSET call.items :
     /\ \A i \in call.items : <<call.to, i[2]>> \in world.grabs => i \notin g
     /\ \A i, j \in g : i[2] = j[2] => i = j
     /\ {i[2] : i \in g} = {i[2] : i \in {k \in call.items : <<call.to, k[2]>> \notin world.grabs}}}

AtShell(sh, items) == {<<sh, i[2]>> : i \in items}

\* What a call to ungrab names.
ToRelease(call) == IF call.kind = "immediate ungrab" THEN call.granted ELSE call.items

ReplyArrives(i) ==
  /\ i \in DOMAIN calls /\ FirstTo(i)
  /\ LET call == calls[i]
         rest == [Here EXCEPT !.c = SubSeq(calls, 1, i - 1) \o SubSeq(calls, i + 1, Len(calls))]
     IN \/ /\ call.kind = "grab" /\ Outcome(call) = "done"
           /\ \E g \in Grants(call) :
                Done(GrabComplete([rest EXCEPT !.w.grabs = @ \cup AtShell(call.to, g)],
                                  call, "done", g))
        \/ /\ call.kind = "grab" /\ Outcome(call) # "done"
           /\ Done(GrabComplete(rest, call, Outcome(call), {}))
        \/ /\ call.kind # "grab" /\ Outcome(call) = "done"
           /\ Done(UngrabComplete([rest EXCEPT !.w.grabs = @ \ AtShell(call.to, ToRelease(call))],
                                  call, "done"))
        \/ /\ call.kind # "grab" /\ Outcome(call) # "done"
           /\ Done(UngrabComplete(rest, call, Outcome(call)))

\* The errors the bus sends when a shell exits come before another starts.
NothingPending == calls = <<>> /\ mk.connecting = {}

ShellStarts ==
  LET sh == world.started + 1 IN
  /\ sh \in Shells /\ world.alive = {} /\ NothingPending /\ RoomForKeys
  /\ Done(PresenceChanged([Here EXCEPT !.w.owner = sh, !.w.started = sh, !.w.alive = {sh}]))

\* gnome-shell --replace: the name changes hands, the old shell exits later;
\* "busy": also while the old shell owes an answer.
ShellReplaced ==
  LET sh == world.started + 1 IN
  /\ sh \in Shells /\ world.owner # NoShell /\ RoomForKeys
  /\ "busy" \in Happenings \/ NothingPending
  /\ Done(PresenceChanged([Here EXCEPT !.w.owner = sh, !.w.started = sh, !.w.alive = @ \cup {sh}]))

ShellExports(sh) ==
  /\ sh \in world.alive \ world.exported
  /\ world' = [world EXCEPT !.exported = @ \cup {sh}] /\ UNCHANGED <<mk, calls>>

ShellExits(sh) ==
  LET gone == [Here EXCEPT !.w.alive = @ \ {sh}, !.w.exported = @ \ {sh},
                           !.w.grabs = {g \in @ : g[1] # sh}]
  IN /\ sh \in world.alive
     /\ IF sh = world.owner THEN Done(PresenceChanged([gone EXCEPT !.w.owner = NoShell]))
        ELSE Done(gone)

\* gsettings_changed_cb gives up without a shell.
FixedChanged(n, b) ==
  LET set == [Here EXCEPT !.w.binding[n] = b] IN
  /\ world.binding[n] # b
  /\ IF mk.grabber = NoShell \/ KeysNamed(Here, n) = {} THEN Done(set)
     ELSE \E o \in KeysNamed(Here, n) :
            Done(KeysSyncQueue([set EXCEPT !.m.keys_to_sync = @ \cup {o}], FALSE))

\* Custom bindings are handled with or without a shell.
CustomMayChange == mk.grabber # NoShell \/ "away" \in Happenings

\* Bound: there is room for them after a change, too.
RoomToChange == Cardinality(Free(Here)) >= Cardinality(Names) + Cardinality(Custom)

\* custom_binding_changed, if the path's settings are connected.
CustomBindingChanged(n, b) ==
  LET set == [Here EXCEPT !.w.binding[n] = b] IN
  /\ CustomMayChange /\ world.binding[n] # b
  /\ n \in world.listed \/ "unlisted" \in Happenings
  /\ RoomToChange
  /\ IF n \in mk.custom_settings THEN Done(UpdateCustomBindings(set, {n})) ELSE Done(set)

\* gsettings_custom_changed_cb, for a path that is listed or is no more.
CustomListChanged(n) ==
  LET list  == IF n \in world.listed THEN world.listed \ {n} ELSE world.listed \cup {n}
      set   == [Here EXCEPT !.w.listed = list]
      added == UpdateCustomBindings(set, list \ mk.custom_settings)
  IN /\ CustomMayChange /\ RoomToChange
     /\ Done(KeysSyncQueue(RemoveCustom(added, list), FALSE))

KeysNext ==
  \/ KeysSyncStart
  \/ \E sh \in Shells : KeyGrabberReady(sh) \/ ShellExports(sh) \/ ShellExits(sh)
  \/ \E i \in 1..Len(calls) : ReplyArrives(i)
  \/ ShellStarts \/ ShellReplaced
  \/ \E n \in Fixed, b \in 0..MaxBinding : FixedChanged(n, b)
  \/ \E n \in Custom : CustomListChanged(n) \/ \E b \in 0..MaxBinding : CustomBindingChanged(n, b)

KeysSpec == KeysInit /\ [][KeysNext]_kvars

\* Timers that run out, replies and proxies are dispatched by the main loop; a
\* shell that runs exports its object.
KeysFairSpec ==
  /\ KeysSpec /\ WF_kvars(KeysSyncStart)
  /\ WF_kvars(\E sh \in Shells : KeyGrabberReady(sh))
  /\ WF_kvars(\E sh \in Shells : ShellExports(sh))
  /\ WF_kvars(\E i \in 1..Len(calls) : ReplyArrives(i))

-------------------------------------------------------------------------------
(* Properties.                                                             *)

\* The accelerators the settings ask for.
WantedAccels ==
  {<<n, world.binding[n]>> : n \in {k \in Fixed \cup world.listed : world.binding[k] # 0}}

Settled ==
  /\ mk.grabber # NoShell /\ mk.grabber = world.owner
  /\ mk.connecting = {} /\ ~mk.source /\ calls = <<>>

\* When no sync is queued or active, the shell has grabbed exactly what the
\* settings ask for (keys_sync_continue, the two settings handlers, init_kbd).
SettledMeansGrabbed ==
  Settled => {g[2] : g \in {h \in world.grabs : h[1] = world.owner}} = WantedAccels

\* No accelerator stays grabbed at the shell in use without a key that knows
\* its id or a call under way that will give it up: such a grab would swallow
\* the key press for ever.
NoLostGrab ==
  \A g \in world.grabs : g[1] = world.owner =>
    \/ \E o \in Referenced(Here) : g[2] \in mk.accel_ids[o]
    \/ \E i \in DOMAIN calls : calls[i].kind # "grab" /\ g \in AtShell(calls[i].to, ToRelease(calls[i]))

\* The assertion of grab_accelerators_complete: a key that was grabbed for has
\* no id yet.
GrabsForBareKeys ==
  \A i \in DOMAIN calls :
    calls[i].kind = "grab" /\ ~calls[i].cancelled =>
      \A o \in ObjectsOf(calls[i].items) : mk.accel_ids[o] = {}

\* The assertion of keys_sync_start: when the queued sync starts, no operation
\* is active.
SyncStartsAlone == mk.source => ~Syncing(Here)

\* get_bindings finds the settings of every custom key it is asked about.
CustomKeysHaveSettings == \A o \in CustomKeys(Here) : mk.name[o] \in mk.custom_settings

\* What these three places of the code take for granted.
AssertionsHold == GrabsForBareKeys /\ SyncStartsAlone /\ CustomKeysHaveSettings

\* If the shell and the settings stop changing, the daemon settles: no retry
\* loop, no operation that nobody finishes.
SettlesDown ==
  <>[][FALSE]_<<world.owner, world.binding, world.listed>> =>
    <>[](world.owner = NoShell \/ Settled)
==============================================================================
