------------------------------ MODULE WwanUnlock ------------------------------
(***************************************************************************)
(* gsd-wwan: modems whose SIM is locked wait in devices_to_unlock; for one  *)
(* at a time the user is asked for the PIN, or the PUK and a new PIN.  The   *)
(* prompt runs a main loop of its own, so that anything may happen while it  *)
(* is up, and what was begun within it ends before it goes on.              *)
(***************************************************************************)
EXTENDS Naturals, Sequences, SequencesExt, FiniteSets

CONSTANTS
  Modems,        \* the modem objects of a behaviour: one that comes again is another
  MaxUnlocks,    \* bound: unlock tasks in a behaviour
  MaxCodes,      \* bound: codes sent in a behaviour
  WwWorlds       \* bound: the happenings of a behaviour are from one of these sets

VARIABLE ww

UnlockIds == 1 .. MaxUnlocks
Locks     == {"none", "pin", "puk"}
UnlockStages == {"new", "asking", "asking_new", "sending", "waiting", "returned", "over"}
NoModem == "no modem"

WwTypeOK ==
  /\ ww.may \in WwWorlds /\ ww.unlock \in BOOLEAN /\ ww.mm1_running \in BOOLEAN
  /\ ww.lock \in [Modems -> Locks] /\ ww.present \subseteq Modems /\ ww.gone \subseteq Modems
  /\ ww.devices \subseteq Modems /\ ToSet(ww.devices_to_unlock) \subseteq Modems
  /\ ww.prompt \in BOOLEAN /\ ww.unlocking_device \in Modems \cup {NoModem}
  /\ ww.cancellable \in 0 .. MaxUnlocks /\ ww.prompt_timeout_id \in 0 .. MaxUnlocks
  /\ ww.puk_code \in BOOLEAN
  /\ ww.tasks \in [UnlockIds -> [stage : UnlockStages, device : Modems \cup {NoModem},
                                 lock : Locks, cancelled : BOOLEAN]]
  /\ ww.loops \in Seq(UnlockIds) /\ ww.sent \in 0 .. MaxCodes /\ ww.forgotten \in BOOLEAN

-------------------------------------------------------------------------------
\* g_ptr_array_remove
Without(list, d) ==
  IF d \in ToSet(list) THEN RemoveAt(list, CHOOSE i \in DOMAIN list : list[i] = d) ELSE list

Locked(s, d)   == s.lock[d] \in {"pin", "puk"}
Stage(s, i, stage) == [s EXCEPT !.tasks[i].stage = stage]
Waiting(s)     == s.devices_to_unlock
UnderWay(s)    == {i \in UnlockIds : s.tasks[i].stage \notin {"new", "over"}}
Cancel(s)      == IF s.cancellable = 0 THEN s ELSE [s EXCEPT !.tasks[s.cancellable].cancelled = TRUE]

\* manager_unlock_prompt_new and the start of wwan_manager_show_prompt; opened:
\* whether a prompt, if there is none, can be had.
Ask(s, i, stage, opened) ==
  LET task == s.tasks[i]
  IN IF task.lock = "none" \/ ~(s.prompt \/ opened)
     THEN [Stage(s, i, "returned") EXCEPT !.prompt = FALSE]
     ELSE [Stage(s, i, stage) EXCEPT !.prompt = TRUE, !.unlocking_device = task.device,
                                     !.loops = Append(@, i)]

\* wwan_manager_unlock_device
UnlockDevice(s, i, opened) ==
  Ask([s EXCEPT !.tasks[i].lock = s.lock[s.tasks[i].device]], i, "asking", opened)

\* Mistake: it is not looked whether a device is being unlocked.
EnsureUnlockingAlways(s, opened) ==
  LET fresh == {i \in UnlockIds : s.tasks[i].stage = "new"}
  IN IF ~s.unlock \/ Waiting(s) = <<>> \/ fresh = {} THEN s
     ELSE LET i == CHOOSE i \in fresh : TRUE
          IN UnlockDevice([s EXCEPT !.tasks[i].device = Head(Waiting(s)), !.cancellable = i], i, opened)

\* wwan_manager_ensure_unlocking
EnsureUnlocking(s, opened) ==
  LET fresh == {i \in UnlockIds : s.tasks[i].stage = "new"}
  IN IF ~s.unlock \/ s.unlocking_device # NoModem \/ Waiting(s) = <<>> \/ fresh = {} THEN s
     ELSE LET i == CHOOSE i \in fresh : TRUE
          IN UnlockDevice([s EXCEPT !.tasks[i].device = Head(Waiting(s)), !.cancellable = i], i, opened)

\* wwan_manager_unlock_required_cb
UnlockRequired(s, d, opened) ==
  IF Locked(s, d)
  THEN IF d \notin s.devices THEN s
       ELSE EnsureUnlocking([s EXCEPT !.devices = @ \ {d}, !.devices_to_unlock = Append(@, d)], opened)
  ELSE LET moved == IF d \in ToSet(Waiting(s))
                    THEN [s EXCEPT !.devices = @ \cup {d}, !.devices_to_unlock = Without(@, d)] ELSE s
       IN IF d = s.unlocking_device THEN Cancel(moved) ELSE moved

\* gsd_wwan_manager_cache_mm_object
CacheMmObject(s, d, opened) ==
  EnsureUnlocking(IF Locked(s, d) THEN [s EXCEPT !.devices_to_unlock = Append(@, d)]
                  ELSE [s EXCEPT !.devices = @ \cup {d}], opened)

-------------------------------------------------------------------------------
WwInit ==
  \E may \in WwWorlds, unlock \in BOOLEAN :
    ww = [may |-> may, unlock |-> unlock, mm1_running |-> TRUE,
          lock |-> [d \in Modems |-> "none"], present |-> {}, gone |-> {}, devices |-> {}, devices_to_unlock |-> <<>>,
          prompt |-> FALSE, unlocking_device |-> NoModem, cancellable |-> 0,
          prompt_timeout_id |-> 0, puk_code |-> FALSE,
          tasks |-> [i \in UnlockIds |-> [stage |-> "new", device |-> NoModem, lock |-> "none",
                                          cancelled |-> FALSE]],
          loops |-> <<>>, sent |-> 0, forgotten |-> FALSE]

\* Whether a prompt can be opened, if one is to be.
Opened == IF "no_prompt" \in ww.may THEN BOOLEAN ELSE {TRUE}

\* object_added_cb, and get_all_modems at the start.
ObjectAdded(d) ==
  /\ d \notin ww.present \cup ww.gone /\ ww.mm1_running
  /\ \E lock \in Locks, opened \in Opened :
       ww' = CacheMmObject([ww EXCEPT !.lock[d] = lock, !.present = @ \cup {d}], d, opened)

\* object_removed_cb
ObjectRemoved(d) ==
  /\ "removals" \in ww.may /\ d \in ww.present
  /\ LET s == [ww EXCEPT !.present = @ \ {d}, !.gone = @ \cup {d}, !.devices = @ \ {d},
                        !.devices_to_unlock = Without(@, d)]
     IN ww' = IF d = s.unlocking_device THEN Cancel(s) ELSE s

\* mm1_name_owner_changed_cb: ModemManager leaves, and its modems with it; or it
\* is back. The task that is under way and its prompt's main loop go on, for a
\* modem that keeps the lock it had: forgotten, a history variable, says so.
NameOwnerChanged ==
  /\ "restarts" \in ww.may
  /\ ww' = IF ww.mm1_running
           THEN [ww EXCEPT !.mm1_running = FALSE, !.present = {}, !.gone = @ \cup ww.present,
                           !.devices = {}, !.devices_to_unlock = <<>>, !.prompt = FALSE,
                           !.puk_code = FALSE, !.unlocking_device = NoModem,
                           !.forgotten = @ \/ UnderWay(ww) # {}]
           ELSE [ww EXCEPT !.mm1_running = TRUE]

\* The modem gets a lock or loses one, and says so; a code that is right or wrong
\* once too often is a reason for it. Bound: in some worlds it is never said.
LockChanges(d) ==
  /\ "locks" \in ww.may /\ d \in ww.present
  /\ \E lock \in Locks \ {ww.lock[d]}, opened \in Opened :
       ww' = UnlockRequired([ww EXCEPT !.lock[d] = lock], d, opened)

\* gsd_wwan_manager_set_unlock_sim
SetUnlockSim ==
  /\ "settings" \in ww.may
  /\ LET s == [ww EXCEPT !.unlock = ~@]
     IN \E opened \in Opened :
          ww' = IF s.unlock /\ Waiting(s) # <<>> /\ s.unlocking_device = NoModem
                THEN UnlockRequired(s, Head(Waiting(s)), opened) ELSE s

\* The innermost prompt ends and so does its main loop; the user has given a code
\* or not. cc_wwan_device_send_puk returns at once, and never calls back, when the
\* PUK has been cleared meanwhile.
PromptAnswered ==
  /\ ww.loops # <<>>
  /\ LET i == Last(ww.loops)
         s == [ww EXCEPT !.loops = Front(@)]
     IN \/ ww' = Stage([s EXCEPT !.tasks[i].cancelled = TRUE], i, "returned")
        \/ /\ ~s.tasks[i].cancelled /\ s.sent < MaxCodes
           /\ IF s.tasks[i].stage = "asking" /\ s.tasks[i].lock = "puk"
              THEN \E opened \in Opened : ww' = Ask([s EXCEPT !.puk_code = TRUE], i, "asking_new", opened)
              ELSE IF s.tasks[i].stage = "asking_new" /\ ~s.puk_code
                   THEN ww' = Stage(s, i, "over")
                   ELSE ww' = [Stage(s, i, "sending") EXCEPT !.sent = @ + 1]

\* wwan_manager_password_sent_cb: after a wrong code the user is asked again,
\* when ModemManager has had the time to update the lock.
PasswordSent(i) ==
  /\ ww.tasks[i].stage = "sending"
  /\ LET s == [ww EXCEPT !.puk_code = FALSE]
     IN \/ ww' = Stage(s, i, "returned")
        \/ /\ ~s.tasks[i].cancelled /\ s.tasks[i].device \in s.present
           /\ ww' = [Stage(s, i, "waiting") EXCEPT !.prompt_timeout_id = i]

\* unlock_device, 250 ms after.
UnlockAgain(i) ==
  /\ ww.tasks[i].stage = "waiting"
  /\ LET s == [ww EXCEPT !.prompt_timeout_id = 0]
     IN IF s.tasks[i].cancelled \/ ~Locked(s, s.tasks[i].device)
        THEN ww' = Stage([s EXCEPT !.tasks[i].cancelled = TRUE], i, "returned")
        ELSE \E opened \in Opened : ww' = UnlockDevice(s, i, opened)

\* g_clear_handle_id (&self->prompt_timeout_id): the task whose timer it is never
\* returns.
ClearTimeout(s) ==
  [s EXCEPT !.prompt_timeout_id = 0,
            !.tasks = [i \in UnlockIds |-> IF i = s.prompt_timeout_id /\ @[i].stage = "waiting"
                                           THEN [@[i] EXCEPT !.stage = "over"] ELSE @[i]]]

\* wwan_manager_unlock_device_cb
UnlockDeviceDone(i) ==
  /\ ww.tasks[i].stage = "returned"
  /\ LET d == ww.tasks[i].device
         t == ClearTimeout(Stage(ww, i, "over"))
         s == [t EXCEPT !.devices = IF d \in ToSet(Waiting(ww)) THEN @ \cup {d} ELSE @,
                        !.devices_to_unlock = Without(@, d), !.puk_code = FALSE, !.prompt = FALSE,
                        !.cancellable = 0, !.unlocking_device = NoModem,
                        !.forgotten = @ /\ UnderWay(t) # {}]
     IN \E opened \in Opened :
          ww' = IF Waiting(s) = <<>> THEN s ELSE UnlockRequired(s, Head(Waiting(s)), opened)

WwNext ==
  \/ \E d \in Modems : \/ ObjectAdded(d)
                       \/ ObjectRemoved(d)
                       \/ LockChanges(d)
  \/ NameOwnerChanged
  \/ SetUnlockSim
  \/ PromptAnswered
  \/ \E i \in UnlockIds : \/ PasswordSent(i)
                          \/ UnlockAgain(i)
                          \/ UnlockDeviceDone(i)

-------------------------------------------------------------------------------
\* The user is never asked for the codes of two modems at once: as long as a
\* prompt can be had (where none can, a task that has failed is still to return
\* when the next begins, and what the first clears is the second's), and as long
\* as no task is under way that ModemManager has left behind. What such a task
\* clears when it returns is another's as well; once nothing of it is left there
\* is one prompt at most again.
OnePromptAtATime == "no_prompt" \notin ww.may /\ ~ww.forgotten => Len(ww.loops) <= 1

\* A device waits in one list or the other, never in both and never twice, and
\* one that has gone is in neither, whatever prompt is up when it comes, goes or
\* loses its lock: what waits has one.
ListsArePartition ==
  /\ ToSet(ww.devices_to_unlock) \cap ww.devices = {} /\ IsInjective(ww.devices_to_unlock)
  /\ ToSet(ww.devices_to_unlock) \cup ww.devices = ww.present
  /\ \A d \in ToSet(ww.devices_to_unlock) : Locked(ww, d)

\* "Unlock the next device" (gsd-wwan-manager.c:380): when nothing is being
\* unlocked, no locked device waits.
NextIsUnlocked ==
  ww.unlock /\ (\A i \in UnlockIds : ww.tasks[i].stage \in {"new", "over"})
            /\ (\E i \in UnlockIds : ww.tasks[i].stage = "new")
    => \A d \in ToSet(ww.devices_to_unlock) : ~Locked(ww, d)
==============================================================================
