------------------------------ MODULE Smartcard ------------------------------
(***************************************************************************)
(* gsd-smartcard: a thread waits for the events of a card reader and keeps  *)
(* the tokens it knows; for each change it asks the main loop to bring the   *)
(* D-Bus object of the slot up to date, and the main loop, which looks at    *)
(* the slot again when it gets there, locks the screen or logs out when it   *)
(* finds that the card used to log in is gone.                             *)
(***************************************************************************)
EXTENDS Naturals, Sequences, SequencesExt, FiniteSets

CONSTANTS
  Slots,         \* of one p11-kit module
  Cards,         \* labels of tokens
  LoginCard,     \* PKCS11_LOGIN_TOKEN_NAME, when the user logged in with a card
  ErrorLimit,    \* consecutive errors after which a thread gives up (10 in the code)
  MaxMoves,      \* bound: cards put in and taken out
  ScWorlds       \* bound: the happenings of a behaviour are from one of these sets

VARIABLE sc

NoCard  == "no card"
NoSlot  == "no slot"
Actions == {"none", "lock-screen", "force-logout"}
Tokens  == Cards \cup {NoCard}
\* An exported token: absent until its registration has run.
Interfaces == [there : BOOLEAN, name : Tokens, used_to_login : BOOLEAN, is_inserted : BOOLEAN]
Sources == [op : {"register", "sync"}, slot : Slots, token_info : Tokens]

ScTypeOK ==
  /\ sc.may \in ScWorlds /\ sc.login \in {LoginCard, NoCard} /\ sc.removal_action \in Actions
  /\ sc.phase \in {"starting", "running", "no_drivers", "stopped", "crashed"}
  /\ sc.reader \in [Slots -> Tokens] /\ sc.event \subseteq Slots
  /\ sc.unread \subseteq sc.overtaken /\ sc.overtaken \subseteq Slots
  /\ sc.smartcards \in [Slots -> Tokens] /\ sc.errors \in 0 .. ErrorLimit
  /\ sc.watch \in {"none", "waiting", "seen", "removed", "ended"}
  /\ sc.slot \in Slots \cup {NoSlot} /\ sc.token \in Tokens
  /\ sc.sources \in Seq(Sources) /\ sc.tokens \in [Slots -> Interfaces]
  /\ sc.login_token_bound \in Slots \cup {NoSlot}
  /\ sc.removals \in 0 .. MaxMoves + 1 /\ sc.moves \in 0 .. MaxMoves

-------------------------------------------------------------------------------
(* The service, in the main loop.                                          *)

\* gsd_smartcard_manager_do_remove_action: lock_screen or log_out.
DoRemoveAction(s) == IF s.removal_action = "none" THEN s ELSE [s EXCEPT !.removals = @ + 1]

\* gck_slot_get_token_info: a card that is there may be one it cannot read.
TokenInfo(s, slot) == {s.reader[slot]} \cup (IF "errors" \in s.may THEN {NoCard} ELSE {})

\* synchronize_token_now: the slot is looked at again.  A token that was
\* inserted has the name it was registered with, one that is new its own.
SynchronizeTokenNow(s, slot, token_info) ==
  LET iface   == s.tokens[slot]
      present == s.reader[slot] # NoCard
      name    == IF iface.is_inserted THEN iface.name ELSE token_info
      login   == name = s.login
      acted   == IF ~present /\ login /\ iface.is_inserted THEN DoRemoveAction(s) ELSE s
  IN IF ~iface.there THEN s
     ELSE [acted EXCEPT
             !.tokens[slot] = [@ EXCEPT !.used_to_login = login, !.is_inserted = present],
             !.login_token_bound = IF login /\ s.login # NoCard /\ @ = NoSlot THEN slot ELSE @]

\* on_main_thread_to_register_new_token and on_token_registered.  There is no
\* token_info to read the label of if the card could not be read, or had left,
\* when it was asked for.
RegisterNewToken(s, source, token_info) ==
  IF source.token_info = NoCard THEN [s EXCEPT !.phase = "crashed"]
  ELSE SynchronizeTokenNow(
         [s EXCEPT !.tokens[source.slot] = [there |-> TRUE, name |-> source.token_info,
                                           used_to_login |-> FALSE, is_inserted |-> FALSE]],
         source.slot, token_info)

\* gsd_smartcard_service_sync_token, called by the thread too: what it does
\* is left to an idle source of the main loop.  The card is read once more.
Source(s, slot, token_info) ==
  [op |-> IF s.tokens[slot].there THEN "sync" ELSE "register", slot |-> slot, token_info |-> token_info]
SyncToken(s, slot, token_info) == [s EXCEPT !.sources = Append(@, Source(s, slot, token_info))]

\* get_login_token_for_operation and get_inserted_tokens_for_operation, of the
\* calls GetLoginToken and GetInsertedTokens.
LoginTokens(s)    == {slot \in Slots : s.smartcards[slot] # NoCard /\ s.smartcards[slot] = s.login}
InsertedTokens(s) == {slot \in Slots : s.smartcards[slot] # NoCard /\ s.reader[slot] # NoCard}

\* What wait_for_any_slot_event, or for a module that cannot wait
\* get_changed_slot, has to tell of.
Signalled(s) == IF "polling" \in s.may THEN {slot \in Slots : s.reader[slot] # s.smartcards[slot]}
                ELSE s.event

-------------------------------------------------------------------------------
(* The life of the daemon.                                                 *)

ScInit ==
  \E may \in ScWorlds, login \in {LoginCard, NoCard}, action \in Actions, reader \in [Slots -> Tokens] :
    sc = [may |-> may, login |-> login, removal_action |-> action, phase |-> "starting",
          reader |-> reader, event |-> {}, unread |-> {}, overtaken |-> {}, smartcards |-> [slot \in Slots |-> NoCard],
          errors |-> 0, watch |-> "none", slot |-> NoSlot, token |-> NoCard, sources |-> <<>>,
          tokens |-> [slot \in Slots |-> [there |-> FALSE, name |-> NoCard, used_to_login |-> FALSE,
                                          is_inserted |-> FALSE]],
          login_token_bound |-> NoSlot, removals |-> 0, moves |-> 0]

\* What a look at each slot may read of the cards that are there.
Readings(s) == {r \in [Slots -> Tokens] : \A slot \in Slots : r[slot] \in TokenInfo(s, slot)}

\* sync_initial_tokens_from_driver, in the main loop: the slots that hold a
\* token that can be read, in the order p11-kit has them; again is what the
\* second reading, for the registration, gives.
SyncInitialTokens(s, read, again, order) ==
  LET passed_over == {slot \in Slots : read[slot] # s.reader[slot]}
  IN [s EXCEPT !.smartcards = read, !.unread = passed_over, !.overtaken = passed_over,
               !.sources = [i \in DOMAIN order |-> Source(s, order[i], again[order[i]])]]

\* on_service_created and on_modules_initialized: a module with fixed slots is
\* not watched.  A card that was used to log in and is gone already is acted on.
ModulesInitialized ==
  /\ sc.phase = "starting"
  /\ \/ sc' = [sc EXCEPT !.phase = "no_drivers"]
     \/ \E read, again \in Readings(sc) :
          \E order \in SetToSeqs({slot \in Slots : read[slot] # NoCard}) :
            LET watched == [SyncInitialTokens(sc, read, again, order) EXCEPT
                              !.phase = "running", !.watch = "waiting"]
            IN sc' = IF sc.login # NoCard /\ LoginTokens(watched) = {}
                     THEN DoRemoveAction(watched) ELSE watched

\* Something is still to be done about the slot.
UnderWay(s, slot) == s.slot = slot \/ \E i \in DOMAIN s.sources : s.sources[i].slot = slot

\* History: the main loop looked when nothing else was to be done.
CaughtUp(s, slot) ==
  IF UnderWay(s, slot) \/ slot \in s.unread \cup Signalled(s) THEN s
  ELSE [s EXCEPT !.overtaken = @ \ {slot}]

\* The main loop runs its next idle source.
MainLoop ==
  /\ sc.phase = "running" /\ sc.sources # <<>>
  /\ LET source == Head(sc.sources)
         rest   == [sc EXCEPT !.sources = Tail(@)]
     IN \E token_info \in TokenInfo(sc, source.slot) :
          sc' = CaughtUp(IF source.op = "register" THEN RegisterNewToken(rest, source, token_info)
                         ELSE SynchronizeTokenNow(rest, source.slot, token_info), source.slot)

\* gsd_smartcard_manager_shutdown: on_watch_cancelled ends the wait.
Shutdown ==
  /\ sc.phase = "running" /\ "shutdown" \in sc.may
  /\ sc' = [sc EXCEPT !.phase = "stopped", !.watch = "ended", !.sources = <<>>]

-------------------------------------------------------------------------------
(* The thread: watch_one_event_from_module.                                *)

\* To get_changed_slot a card that it cannot read is one that changed.
Misread(s) == IF {"polling", "errors"} \subseteq s.may
              THEN {slot \in Slots : s.smartcards[slot] # NoCard} ELSE {}

\* A card that cannot be read is none to the thread, and unread until it is
\* told of the slot again.
WatchSees ==
  /\ sc.watch = "waiting"
  /\ \E slot \in Signalled(sc) \cup Misread(sc) : \E token_info \in TokenInfo(sc, slot) :
       LET missed == IF token_info = sc.reader[slot] THEN {} ELSE {slot}
       IN sc' = [sc EXCEPT !.event = @ \ {slot}, !.errors = 0, !.watch = "seen", !.slot = slot,
                           !.token = token_info, !.unread = (@ \ {slot}) \cup missed,
                           !.overtaken = @ \cup missed]

\* wait_for_any_slot_event reports an error, of the event of a slot that it
\* cannot find or of none.  After too many in a row the reader is watched no more.
WatchFails ==
  /\ sc.watch = "waiting" /\ "errors" \in sc.may
  /\ \E lost \in {{}} \cup {{slot} : slot \in sc.event} :
       LET failed == [sc EXCEPT !.event = @ \ lost, !.unread = @ \cup lost, !.overtaken = @ \cup lost]
       IN sc' = IF sc.errors = ErrorLimit THEN [failed EXCEPT !.watch = "ended"]
                ELSE [failed EXCEPT !.errors = @ + 1]

\* Mistake: the last branch of the function is taken to tell of removals.
DropOldTokenUnsynced(s, token_info) == [s EXCEPT !.smartcards[s.slot] = IF @ = s.token THEN @ ELSE NoCard]

\* The card that was in the slot is not the one that is: it was taken out.
DropOldToken(s, token_info) ==
  IF s.smartcards[s.slot] # NoCard /\ s.token # s.smartcards[s.slot]
  THEN SyncToken([s EXCEPT !.smartcards[s.slot] = NoCard], s.slot, token_info) ELSE s

WatchDropsOld ==
  /\ sc.watch = "seen"
  /\ \E token_info \in TokenInfo(sc, sc.slot) : sc' = [DropOldToken(sc, token_info) EXCEPT !.watch = "removed"]

\* An event of an empty slot that was empty is ignored.
WatchKeepsNew ==
  /\ sc.watch = "removed"
  /\ \E token_info \in TokenInfo(sc, sc.slot) :
       LET done == [sc EXCEPT !.watch = "waiting", !.slot = NoSlot, !.token = NoCard]
       IN sc' = IF sc.token = NoCard \/ sc.smartcards[sc.slot] = sc.token THEN done
                ELSE SyncToken([done EXCEPT !.smartcards[sc.slot] = sc.token], sc.slot, token_info)

-------------------------------------------------------------------------------
\* A hand puts a card in a slot or takes it out, at any time; overtaken,
\* history, are the slots in which it did so before thread and main loop were
\* done with them.
CardMoved ==
  /\ sc.moves < MaxMoves /\ sc.phase \in {"starting", "running"}
  /\ \E slot \in Slots, card \in Tokens :
       /\ (card = NoCard) # (sc.reader[slot] = NoCard)
       /\ card = NoCard \/ \A other \in Slots : sc.reader[other] # card
       /\ sc' = [sc EXCEPT !.reader[slot] = card, !.event = @ \cup {slot}, !.moves = @ + 1,
                           !.overtaken = @ \cup (IF UnderWay(sc, slot) THEN {slot} ELSE {})]

RemovalActionChanged ==
  /\ "settings" \in sc.may /\ sc.phase = "running"
  /\ \E action \in Actions \ {sc.removal_action} : sc' = [sc EXCEPT !.removal_action = action]

ScNext ==
  \/ ModulesInitialized \/ MainLoop \/ Shutdown \/ WatchSees \/ WatchFails \/ WatchDropsOld
  \/ WatchKeepsNew \/ CardMoved \/ RemovalActionChanged

ScSpec == ScInit /\ [][ScNext]_sc

-------------------------------------------------------------------------------
(* Properties                                                              *)

\* The thread waits and has seen every event, and the main loop is idle.
Settled == sc.watch = "waiting" /\ Signalled(sc) = {} /\ sc.sources = <<>> /\ sc.phase = "running"

\* Once thread and main loop are idle, the table of the thread is that of the
\* reader, but for a slot of which an event was lost or the card could not be
\* read; and the object of a slot says whether there is a card in it, though
\* the main loop looks at it long after the event it is asked about.  The
\* object may be wrong where the card was moved again before both were done:
\* until the main loop looks once more with nothing else to be done there.
ExportedStateFollows ==
  Settled =>
    \A slot \in Slots :
      /\ slot \notin sc.unread => sc.smartcards[slot] = sc.reader[slot]
      /\ slot \notin sc.overtaken =>
           /\ sc.tokens[slot].is_inserted <=> sc.reader[slot] # NoCard
           /\ slot \in InsertedTokens(sc) => sc.tokens[slot].there

\* A card that is exported as used to log in does not go from the bus without
\* the action for its removal: gsd_smartcard_manager_do_remove_action.
RemovalIsActedOn ==
  [][\A slot \in Slots :
       /\ sc.tokens[slot].is_inserted /\ sc.tokens[slot].used_to_login
       /\ sc.tokens[slot].there /\ ~sc'.tokens[slot].is_inserted
       /\ sc.login # NoCard /\ sc.removal_action # "none"
       => sc'.removals > sc.removals]_sc
=============================================================================
