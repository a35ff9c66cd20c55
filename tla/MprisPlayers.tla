------------------------------ MODULE MprisPlayers ------------------------------
(***************************************************************************)
(* Which media player the keys go to (mpris-controller.c): one proxy per   *)
(* player that appears under org.mpris.MediaPlayer2, the current one and a *)
(* list of the others.  bus-watch-namespace.c tells of names that appear;  *)
(* a proxy is made asynchronously and hears by itself that its player has  *)
(* left or has started to play.                                            *)
(***************************************************************************)
EXTENDS Naturals, Sequences, SequencesExt, FiniteSets

CONSTANTS
  Players,       \* well-known names of media players
  MaxProxies     \* bound: GDBusProxy objects at a time

VARIABLE mp

Proxies == 1..MaxProxies
NoProxy == 0
NoName  == "none"

MpTypeOK ==
  /\ mp.playing \in [Players -> {"gone", "paused", "playing"}]
  /\ mp.names \subseteq Players /\ mp.asked \subseteq Players /\ mp.listed \in BOOLEAN
  /\ mp.proxy \in [Proxies -> [name : Players \cup {NoName}, stage : {"free", "making", "ready"},
                               orphan : BOOLEAN]]
  /\ mp.current \in Proxies \cup {NoProxy}
  /\ mp.others \in Seq(Proxies)
  /\ mp.has_active_player \in BOOLEAN

\* The proxy's cached PlaybackStatus; it has none without an owner.
IsPlaying(s, x) == s.playing[s.proxy[x].name] = "playing"
Of(s, name, stage) == {x \in Proxies : s.proxy[x].name = name /\ s.proxy[x].stage = stage}
Free(s) == {x \in Proxies : s.proxy[x].stage = "free"}

Freed(s, x)    == [s EXCEPT !.proxy[x] = [name |-> NoName, stage |-> "free", orphan |-> FALSE]]
Prepend(s, x)  == [s EXCEPT !.others = <<x>> \o @]
NotifyActive(s) == [s EXCEPT !.has_active_player = (s.current # NoProxy)]

\* GDBus: a signal reaches the proxies that listen to it one after the other.
InTurn(Callback(_, _), s, listening) ==
  LET after[x \in 0 .. MaxProxies] ==
        IF x = 0 THEN s
        ELSE IF x \in listening THEN Callback(after[x - 1], x) ELSE after[x - 1]
  IN after[MaxProxies]

\* mpris_client_notify_name_owner_cb of a proxy that has no owner any more.
OwnerGone(s, x) ==
  LET rest == Freed(s, x)
  IN CASE s.current # x -> [rest EXCEPT !.others = RemoveFirst(@, x)]
       [] s.current = x /\ s.others # <<>> ->
            [rest EXCEPT !.current = Head(s.others), !.others = Tail(@)]
       [] OTHER -> NotifyActive([rest EXCEPT !.current = NoProxy])

\* Mistake: the player that is switched to stays among the others.
PropertiesChangedKeeps(s, x) ==
  IF s.current = x \/ (s.current # NoProxy /\ IsPlaying(s, s.current)) \/ ~IsPlaying(s, x)
  THEN s
  ELSE LET kept == IF s.current = NoProxy THEN s ELSE Prepend(s, s.current)
       IN NotifyActive([kept EXCEPT !.current = x])

\* mpris_client_properties_changed_cb
PropertiesChanged(s, x) ==
  IF s.current = x \/ (s.current # NoProxy /\ IsPlaying(s, s.current)) \/ ~IsPlaying(s, x)
  THEN s
  ELSE LET rest == [s EXCEPT !.others = RemoveFirst(@, x)]
           kept == IF s.current = NoProxy THEN rest ELSE Prepend(rest, s.current)
       IN NotifyActive([kept EXCEPT !.current = x])

\* mpris_proxy_ready_cb; the owner may have left while the proxy was made.
ProxyReadied(s, x) ==
  LET ready == [s EXCEPT !.proxy[x].stage = "ready",
                         !.proxy[x].orphan = (s.playing[s.proxy[x].name] = "gone")]
  IN IF s.current # NoProxy /\ IsPlaying(s, s.current)
     THEN Prepend(ready, x)
     ELSE NotifyActive([(IF s.current = NoProxy THEN ready ELSE Prepend(ready, s.current))
                          EXCEPT !.current = x])

\* mpris_player_appeared and start_mpris_proxy
Started(s, name) ==
  [s EXCEPT !.proxy[CHOOSE x \in Free(s) : TRUE] =
              [name |-> name, stage |-> "making", orphan |-> FALSE]]

\* namespace_watcher_name_appeared: once for each name.
NameAppeared(s, name) ==
  IF name \in s.names THEN s ELSE Started([s EXCEPT !.names = @ \cup {name}], name)

\* namespace_watcher_name_vanished: the controller has no handler for it.
NameVanished(s, name) == [s EXCEPT !.names = @ \ {name}]

MpInit ==
  \E before \in SUBSET Players :
    mp = [playing |-> [p \in Players |-> IF p \in before THEN "paused" ELSE "gone"],
          names |-> {}, asked |-> {}, listed |-> FALSE,
          proxy |-> [x \in Proxies |-> [name |-> NoName, stage |-> "free", orphan |-> FALSE]],
          current |-> NoProxy, others |-> <<>>, has_active_player |-> FALSE]

\* names_listed
NamesListed ==
  /\ ~mp.listed
  /\ mp' = [mp EXCEPT !.listed = TRUE, !.asked = {p \in Players : mp.playing[p] # "gone"}]

\* got_name_owner: the name may have lost its owner since it was listed.
GotNameOwner(name) ==
  /\ name \in mp.asked /\ Free(mp) # {}
  /\ mp' = LET s == [mp EXCEPT !.asked = @ \ {name}]
           IN IF s.playing[name] = "gone" THEN s ELSE NameAppeared(s, name)

\* name_owner_changed: a player starts.
PlayerStarts(name) ==
  /\ mp.playing[name] = "gone" /\ Free(mp) # {}
  /\ mp' = NameAppeared([mp EXCEPT !.playing[name] = "paused"], name)

\* The player leaves: the watcher and every proxy of that name hear of it.
PlayerLeaves(name) ==
  /\ mp.playing[name] # "gone"
  /\ mp' = InTurn(OwnerGone, NameVanished([mp EXCEPT !.playing[name] = "gone"], name),
                  Of(mp, name, "ready"))

\* Another process takes the name over: the watcher reports the name anew,
\* and the proxies that exist stay valid.
PlayerReplaced(name) ==
  /\ mp.playing[name] # "gone" /\ Free(mp) # {}
  /\ mp' = NameAppeared(NameVanished([mp EXCEPT !.playing[name] = "paused"], name), name)

PlaybackChanges(name) ==
  /\ mp.playing[name] # "gone"
  /\ LET s == [mp EXCEPT !.playing[name] = IF @ = "playing" THEN "paused" ELSE "playing"]
     IN mp' = InTurn(PropertiesChanged, s, Of(mp, name, "ready"))

ProxyReady(x) == mp.proxy[x].stage = "making" /\ mp' = ProxyReadied(mp, x)

MpNext ==
  \/ NamesListed
  \/ \E name \in Players : \/ GotNameOwner(name)
                           \/ PlayerStarts(name)
                           \/ PlayerLeaves(name)
                           \/ PlayerReplaced(name)
                           \/ PlaybackChanges(name)
  \/ \E x \in Proxies : ProxyReady(x)

-------------------------------------------------------------------------------
\* The current player and the others together are the proxies that are ready,
\* each of them once; there is a current one whenever there is any, and the
\* users of has-active-player have been told.
PlayersAreListedOnce ==
  LET listed == IF mp.current = NoProxy THEN mp.others ELSE <<mp.current>> \o mp.others
  IN /\ IsInjective(listed)
     /\ ToSet(listed) = {x \in Proxies : mp.proxy[x].stage = "ready"}
     /\ mp.current = NoProxy => mp.others = <<>>
     /\ mp.has_active_player = (mp.current # NoProxy)

\* Once the names are listed, every player that runs has a proxy, is about to
\* have one, or is asked for its owner.
NoPlayerIsMissed ==
  mp.listed =>
    \A p \in Players :
      \/ mp.playing[p] = "gone" \/ p \in mp.asked
      \/ \E x \in Proxies : mp.proxy[x].name = p /\ mp.proxy[x].stage # "free"

\* The keys go to a player that is there, unless its proxy became ready after
\* the player had left: nothing tells such a proxy that its owner is gone.
KeysReachAPlayer ==
  mp.current # NoProxy /\ mp.playing[mp.proxy[mp.current].name] = "gone" =>
    mp.proxy[mp.current].orphan
==============================================================================
