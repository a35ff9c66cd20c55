---------------------------- MODULE MediaProofs ----------------------------
(***************************************************************************)
(* What concerns media, whatever the constants are: the keys of a keyboard   *)
(* do what they are for, the players they control, the volume and the power  *)
(* button; and the thumbnails of pictures are within their limits.  The      *)
(* parts are laid out as those of SessionProofs.                             *)
(***************************************************************************)
EXTENDS HardwareProofs

-------------------------------------------------------------------------------
(***************************************************************************)
(* mpris-controller: of the players' proxies that are ready one is current and *)
(* the others wait in a list.  A proxy that lost its owner leaves both by the   *)
(* signal that says so; a signal reaches one proxy after the other, so that     *)
(* while it is on its way only those that are still to hear it may be without   *)
(* an owner.                                                                   *)
(***************************************************************************)

\* The state is a record of these fields.
PlayerStates(s) ==
  [playing : [Players -> {"gone", "paused", "playing"}], names : {s.names}, asked : {s.asked},
   listed : {s.listed},
   proxy : [Mp!Proxies -> [name : Players \cup {Mp!NoName}, stage : {"free", "making", "ready"},
                           orphan : BOOLEAN]],
   current : Mp!Proxies \cup {Mp!NoProxy}, others : Seq(Mp!Proxies), has_active_player : BOOLEAN]

Ready(s, x) == s.proxy[x].stage = "ready"

\* The current proxy and the others are those that are ready, each once.
ListedOnce(s) ==
  /\ Once(s.others)
  /\ \A i \in DOMAIN s.others : s.others[i] # s.current /\ Ready(s, s.others[i])
  /\ \A x \in Mp!Proxies : Ready(s, x) => x = s.current \/ \E i \in DOMAIN s.others : s.others[i] = x
  /\ s.current # Mp!NoProxy => Ready(s, s.current)
  /\ s.current = Mp!NoProxy => s.others = <<>>
  /\ s.has_active_player = (s.current # Mp!NoProxy)

\* A proxy that is in use has a player's name.
Named(s) == \A x \in Mp!Proxies : s.proxy[x].stage # "free" => s.proxy[x].name \in Players

\* A proxy without an owner never had one, or is to hear that it has lost it.
OwnedBut(s, hears) ==
  \A x \in Mp!Proxies : Ready(s, x) /\ s.playing[s.proxy[x].name] = "gone" => s.proxy[x].orphan \/ x \in hears

Lists(s) == s \in PlayerStates(s) /\ ListedOnce(s) /\ Named(s)

\* A proxy is there for the player, or is being made.
Proxied(s, name) == \E x \in Mp!Proxies : s.proxy[x].name = name /\ s.proxy[x].stage # "free"

\* The names the watcher has told of are those of players with a proxy; once it
\* has listed the names, it has told of every player or is asking for its owner,
\* but of one that is new.
NoticedBut(s, new) ==
  /\ \A name \in Players : name \in s.names => s.playing[name] # "gone" /\ Proxied(s, name)
  /\ s.listed =>
       \A name \in Players \ new : s.playing[name] # "gone" => name \in s.names \cup s.asked

Noticed(s) == NoticedBut(s, {})

SameNames(s, t) == t.names = s.names /\ t.asked = s.asked /\ t.listed = s.listed

MpInv(s) == Lists(s) /\ OwnedBut(s, {}) /\ Noticed(s)

LEMMA ProxiesAreNumbers ==
  /\ Mp!Proxies \subseteq Nat /\ Mp!NoProxy \notin Mp!Proxies /\ Mp!NoProxy = 0 /\ 0 \in Nat
  /\ \A n \in Nat : n + 1 <= MaxProxies => n + 1 \in Mp!Proxies /\ n + 1 # 0 /\ n <= MaxProxies
  /\ MaxProxies \in Nat
  BY PlayersAssumption DEF Mp!Proxies, Mp!NoProxy

LEMMA RemovedOps ==
  ASSUME NEW seq \in Seq(Mp!Proxies), Once(seq), NEW x
  PROVE  LET t == Mp!RemoveFirst(seq, x)
         IN /\ t \in Seq(Mp!Proxies) /\ Once(t)
            /\ \A i \in DOMAIN t : t[i] # x /\ \E j \in DOMAIN seq : t[i] = seq[j]
            /\ \A j \in DOMAIN seq : seq[j] # x => \E i \in DOMAIN t : t[i] = seq[j]
<1> DEFINE t == Ps!RemoveFirst(seq, x)
<1>1. Mp!RemoveFirst(seq, x) = Ps!RemoveFirst(seq, x)
  BY DEF Mp!RemoveFirst, Mp!RemoveAt, Mp!SelectInSeq, Mp!Min, Ps!RemoveFirst, Ps!RemoveAt, Ps!SelectInSeq, Ps!Min
<1>2. /\ t \in Seq(Mp!Proxies) /\ Once(t)
      /\ \A i \in DOMAIN t : t[i] # x /\ \E j \in DOMAIN seq : t[i] = seq[j]
      /\ \A j \in DOMAIN seq : seq[j] # x => \E i \in DOMAIN t : t[i] = seq[j]
  BY WithoutOps
<1> QED
  BY <1>1, <1>2

LEMMA TailOps ==
  ASSUME NEW seq \in Seq(Mp!Proxies), Once(seq), seq # <<>>
  PROVE  /\ Tail(seq) \in Seq(Mp!Proxies) /\ Once(Tail(seq)) /\ Head(seq) \in Mp!Proxies
         /\ \A i \in DOMAIN Tail(seq) : Tail(seq)[i] # Head(seq) /\ \E j \in DOMAIN seq : Tail(seq)[i] = seq[j]
         /\ \A j \in DOMAIN seq : seq[j] = Head(seq) \/ \E i \in DOMAIN Tail(seq) : Tail(seq)[i] = seq[j]
         /\ \E j \in DOMAIN seq : seq[j] = Head(seq)
<1> DEFINE t == Tail(seq)
           n == Len(seq)
<1>1. /\ n \in Nat \ {0} /\ DOMAIN seq = 1 .. n /\ t \in Seq(Mp!Proxies) /\ DOMAIN t = 1 .. n - 1
      /\ Head(seq) = seq[1] /\ seq[1] \in Mp!Proxies /\ \A i \in 1 .. n - 1 : t[i] = seq[i + 1]
  OBVIOUS
<1> HIDE DEF t, n
<1>2. ASSUME NEW i \in 1 .. n - 1 PROVE t[i] # seq[1] /\ \E j \in 1 .. n : t[i] = seq[j]
  <2>1. i + 1 \in 1 .. n /\ i + 1 # 1 /\ 1 \in 1 .. n
    BY <1>1
  <2> QED
    BY <1>1, <2>1 DEF Once
<1>3. ASSUME NEW j \in 1 .. n, j # 1 PROVE \E i \in 1 .. n - 1 : t[i] = seq[j]
  <2>1. j - 1 \in 1 .. n - 1 /\ (j - 1) + 1 = j
    BY <1>1, <1>3
  <2> QED
    BY <1>1, <2>1
<1>4. Once(t)
  <2> SUFFICES ASSUME NEW i \in 1 .. n - 1, NEW j \in 1 .. n - 1, t[i] = t[j] PROVE i = j
    BY <1>1 DEF Once
  <2>1. i + 1 \in 1 .. n /\ j + 1 \in 1 .. n /\ seq[i + 1] = seq[j + 1]
    BY <1>1
  <2>2. i + 1 = j + 1
    BY <1>1, <2>1 DEF Once
  <2> QED
    BY <1>1, <2>2
<1>5. 1 \in 1 .. n
  BY <1>1
<1>6. /\ t \in Seq(Mp!Proxies) /\ Once(t) /\ Head(seq) \in Mp!Proxies
      /\ \A i \in DOMAIN t : t[i] # Head(seq) /\ \E j \in DOMAIN seq : t[i] = seq[j]
      /\ \A j \in DOMAIN seq : seq[j] = Head(seq) \/ \E i \in DOMAIN t : t[i] = seq[j]
      /\ \E j \in DOMAIN seq : seq[j] = Head(seq)
  BY <1>1, <1>2, <1>3, <1>4, <1>5
<1> QED
  BY <1>6 DEF t

LEMMA PropertiesChangedLists ==
  ASSUME NEW s, Lists(s), NEW x \in Mp!Proxies, Ready(s, x)
  PROVE  LET t == Mp!PropertiesChanged(s, x)
         IN Lists(t) /\ t.proxy = s.proxy /\ t.playing = s.playing /\ SameNames(s, t)
<1> DEFINE t == Mp!PropertiesChanged(s, x)
           rest == Mp!RemoveFirst(s.others, x)
           others == IF s.current = Mp!NoProxy THEN rest ELSE <<s.current>> \o rest
<1>0. /\ s \in PlayerStates(s) /\ s.others \in Seq(Mp!Proxies) /\ Once(s.others)
      /\ s.current \in Mp!Proxies \cup {Mp!NoProxy} /\ Mp!NoProxy \notin Mp!Proxies
      /\ s.proxy \in [Mp!Proxies -> [name : Players \cup {Mp!NoName},
                                     stage : {"free", "making", "ready"}, orphan : BOOLEAN]]
  BY ProxiesAreNumbers DEF Lists, PlayerStates, ListedOnce
<1>1. CASE s.current = x \/ (s.current # Mp!NoProxy /\ Mp!IsPlaying(s, s.current)) \/ ~Mp!IsPlaying(s, x)
  BY <1>1 DEF Mp!PropertiesChanged, SameNames
<1>2. CASE ~(s.current = x \/ (s.current # Mp!NoProxy /\ Mp!IsPlaying(s, s.current)) \/ ~Mp!IsPlaying(s, x))
  <2>1. /\ rest \in Seq(Mp!Proxies) /\ Once(rest)
        /\ \A i \in DOMAIN rest : rest[i] # x /\ \E j \in DOMAIN s.others : rest[i] = s.others[j]
        /\ \A j \in DOMAIN s.others : s.others[j] # x => \E i \in DOMAIN rest : rest[i] = s.others[j]
    <3> DEFINE o == s.others
    <3>1. o \in Seq(Mp!Proxies) /\ Once(o)
      BY <1>0
    <3> HIDE DEF o
    <3> DEFINE r == Mp!RemoveFirst(o, x)
    <3>2. /\ r \in Seq(Mp!Proxies) /\ Once(r)
          /\ \A i \in DOMAIN r : r[i] # x /\ \E j \in DOMAIN o : r[i] = o[j]
          /\ \A j \in DOMAIN o : o[j] # x => \E i \in DOMAIN r : r[i] = o[j]
      BY <3>1, RemovedOps
    <3> QED
      BY <3>2 DEF o
  <2>2. t = [s EXCEPT !.proxy = s.proxy, !.current = x, !.others = others,
                      !.has_active_player = (x # Mp!NoProxy)]
    BY <1>0, <1>2 DEF Mp!PropertiesChanged, Mp!Prepend, Mp!NotifyActive, PlayerStates
  <2> HIDE DEF t, rest
  <2>3. \A i \in DOMAIN rest : rest[i] # s.current /\ Ready(s, rest[i])
    BY <2>1 DEF Lists, ListedOnce
  <2>4. /\ others \in Seq(Mp!Proxies) /\ Once(others)
        /\ \A i \in DOMAIN others : others[i] # x /\ Ready(s, others[i])
        /\ \A j \in DOMAIN rest : \E i \in DOMAIN others : others[i] = rest[j]
        /\ s.current # Mp!NoProxy => \E i \in DOMAIN others : others[i] = s.current
    <3>1. CASE s.current = Mp!NoProxy
      BY <2>1, <2>3, <3>1
    <3>2. CASE s.current # Mp!NoProxy
      <4>1. s.current \in Mp!Proxies /\ s.current # x /\ Ready(s, s.current)
        BY <1>0, <1>2, <3>2 DEF Lists, ListedOnce
      <4> DEFINE head == s.current
      <4>2. others = <<head>> \o rest
        BY <3>2
      <4> HIDE DEF others, head
      <4>3. /\ others \in Seq(Mp!Proxies) /\ Once(others)
            /\ \A i \in DOMAIN others : others[i] = head \/ \E j \in DOMAIN rest : others[i] = rest[j]
            /\ \A j \in DOMAIN rest : \E i \in DOMAIN others : others[i] = rest[j]
            /\ \E i \in DOMAIN others : others[i] = head
        <5>1. head \in Mp!Proxies /\ \A i \in DOMAIN rest : rest[i] # head
          BY <2>3, <4>1 DEF head
        <5>2. others \in Seq(Mp!Proxies) /\ Once(others) /\ HasBesides(others, rest, head)
          BY <2>1, <4>2, <5>1, PrependedOps
        <5> QED
          BY <5>2 DEF HasBesides
      <4>4. \A i \in DOMAIN others : others[i] # x /\ Ready(s, others[i])
        BY <2>1, <2>3, <4>1, <4>3 DEF head
      <4>5. s.current # Mp!NoProxy => \E i \in DOMAIN others : others[i] = s.current
        BY <4>3 DEF head
      <4> QED
        BY <4>3, <4>4, <4>5, Zenon
    <3> QED
      BY <3>1, <3>2
  <2> HIDE DEF others
  <2>5. \A y \in Mp!Proxies : Ready(s, y) => y = x \/ \E i \in DOMAIN others : others[i] = y
    <3> SUFFICES ASSUME NEW y \in Mp!Proxies, Ready(s, y), y # x
                 PROVE  \E i \in DOMAIN others : others[i] = y
      OBVIOUS
    <3>1. CASE y = s.current
      BY <1>0, <2>4, <3>1
    <3>2. CASE y # s.current
      <4>1. \E j \in DOMAIN s.others : s.others[j] = y
        BY <3>2 DEF Lists, ListedOnce
      <4>2. \E j \in DOMAIN rest : rest[j] = y
        BY <2>1, <4>1
      <4> QED
        BY <2>4, <4>2
    <3> QED
      BY <3>1, <3>2
  <2>6. \A y \in Mp!Proxies : s.proxy[y].stage # "free" => s.proxy[y].name \in Players
    BY DEF Lists, Named
  <2>7. /\ t \in PlayerStates(t) /\ t.proxy = s.proxy /\ t.current = x /\ t.others = others
        /\ t.has_active_player /\ t.playing = s.playing /\ SameNames(s, t)
    BY <1>0, <2>2, <2>4 DEF PlayerStates, SameNames
  <2>8. ListedOnce(t) /\ Named(t)
    <3>1. \A i \in DOMAIN t.others : t.others[i] # t.current /\ Ready(t, t.others[i])
      BY <2>4, <2>7 DEF Ready
    <3>2. \A y \in Mp!Proxies : Ready(t, y) => y = t.current \/ \E i \in DOMAIN t.others : t.others[i] = y
      BY <2>5, <2>7 DEF Ready
    <3>3. Ready(t, t.current) /\ t.current # Mp!NoProxy /\ Once(t.others)
      BY <1>0, <2>4, <2>7 DEF Ready
    <3>4. Named(t)
      BY <2>6, <2>7 DEF Named
    <3> QED
      BY <2>7, <3>1, <3>2, <3>3, <3>4 DEF ListedOnce
  <2>9. Lists(t) /\ t.proxy = s.proxy /\ t.playing = s.playing /\ SameNames(s, t)
    BY <2>7, <2>8 DEF Lists
  <2> QED
    BY <2>9 DEF t
<1> QED
  BY <1>1, <1>2

LEMMA OwnerGoneLists ==
  ASSUME NEW s, Lists(s), NEW x \in Mp!Proxies, Ready(s, x)
  PROVE  LET t == Mp!OwnerGone(s, x)
         IN /\ Lists(t) /\ t.playing = s.playing /\ ~Ready(t, x) /\ SameNames(s, t)
            /\ \A y \in Mp!Proxies : y # x => t.proxy[y] = s.proxy[y]
<1> DEFINE t == Mp!OwnerGone(s, x)
           proxy == [s.proxy EXCEPT ![x] = [name |-> Mp!NoName, stage |-> "free", orphan |-> FALSE]]
<1>0. /\ s \in PlayerStates(s) /\ s.others \in Seq(Mp!Proxies) /\ Once(s.others)
      /\ s.current \in Mp!Proxies \cup {Mp!NoProxy} /\ Mp!NoProxy \notin Mp!Proxies
      /\ s.proxy \in [Mp!Proxies -> [name : Players \cup {Mp!NoName},
                                     stage : {"free", "making", "ready"}, orphan : BOOLEAN]]
  BY ProxiesAreNumbers DEF Lists, PlayerStates, ListedOnce
<1>1. /\ proxy \in [Mp!Proxies -> [name : Players \cup {Mp!NoName},
                                   stage : {"free", "making", "ready"}, orphan : BOOLEAN]]
      /\ proxy[x].stage = "free" /\ \A y \in Mp!Proxies : y # x => proxy[y] = s.proxy[y]
  BY <1>0
<1>2. /\ \A i \in DOMAIN s.others : s.others[i] # s.current /\ Ready(s, s.others[i])
      /\ \A y \in Mp!Proxies : Ready(s, y) => y = s.current \/ \E i \in DOMAIN s.others : s.others[i] = y
      /\ s.current # Mp!NoProxy => Ready(s, s.current)
      /\ s.current = Mp!NoProxy => s.others = <<>>
      /\ s.has_active_player = (s.current # Mp!NoProxy)
      /\ \A i \in DOMAIN s.others : s.others[i] \in Mp!Proxies
  BY <1>0 DEF Lists, ListedOnce
<1>3. \A y \in Mp!Proxies : proxy[y].stage # "free" => proxy[y].name \in Players
  BY <1>1 DEF Lists, Named
<1>4. ASSUME NEW current \in Mp!Proxies \cup {Mp!NoProxy}, NEW others \in Seq(Mp!Proxies),
             t = [s EXCEPT !.proxy = proxy, !.current = current, !.others = others,
                           !.has_active_player = (current # Mp!NoProxy)],
             Once(others),
             \A i \in DOMAIN others : others[i] \notin {x, current} /\ Ready(s, others[i])
                                      /\ others[i] \in Mp!Proxies,
             \A y \in Mp!Proxies :
               Ready(s, y) /\ y # x => y = current \/ \E i \in DOMAIN others : others[i] = y,
             current # Mp!NoProxy => Ready(s, current) /\ current # x,
             current = Mp!NoProxy => others = <<>>
      PROVE  Lists(t) /\ t.playing = s.playing /\ t.proxy = proxy /\ SameNames(s, t)
  <2> HIDE DEF t, proxy
  <2>1. /\ t \in PlayerStates(t) /\ t.proxy = proxy /\ t.current = current /\ t.others = others
        /\ t.has_active_player = (current # Mp!NoProxy) /\ t.playing = s.playing
        /\ SameNames(s, t)
    <3>1. (current # Mp!NoProxy) \in BOOLEAN
      OBVIOUS
    <3> QED
      BY <1>0, <1>1, <1>4, <3>1 DEF PlayerStates, SameNames
  <2>2. ListedOnce(t)
    <3>1. \A i \in DOMAIN t.others : t.others[i] # t.current /\ Ready(t, t.others[i])
      BY <1>1, <1>4, <2>1 DEF Ready
    <3>2. \A y \in Mp!Proxies : Ready(t, y) => y = t.current \/ \E i \in DOMAIN t.others : t.others[i] = y
      BY <1>1, <1>4, <2>1 DEF Ready
    <3>3. t.current # Mp!NoProxy => Ready(t, t.current)
      BY <1>1, <1>4, <2>1 DEF Ready
    <3>4. Once(t.others) /\ (t.current = Mp!NoProxy => t.others = <<>>)
      BY <1>4, <2>1
    <3> QED
      BY <2>1, <3>1, <3>2, <3>3, <3>4 DEF ListedOnce
  <2>3. Named(t)
    BY <1>3, <2>1 DEF Named
  <2> QED
    BY <2>1, <2>2, <2>3 DEF Lists
<1>5. CASE s.current # x
  <2> DEFINE others == Mp!RemoveFirst(s.others, x)
  <2>1. /\ others \in Seq(Mp!Proxies) /\ Once(others)
        /\ \A i \in DOMAIN others : others[i] # x /\ \E j \in DOMAIN s.others : others[i] = s.others[j]
        /\ \A j \in DOMAIN s.others : s.others[j] # x => \E i \in DOMAIN others : others[i] = s.others[j]
    <3> DEFINE o == s.others
    <3>1. o \in Seq(Mp!Proxies) /\ Once(o)
      BY <1>0
    <3> HIDE DEF o
    <3> DEFINE r == Mp!RemoveFirst(o, x)
    <3>2. /\ r \in Seq(Mp!Proxies) /\ Once(r)
          /\ \A i \in DOMAIN r : r[i] # x /\ \E j \in DOMAIN o : r[i] = o[j]
          /\ \A j \in DOMAIN o : o[j] # x => \E i \in DOMAIN r : r[i] = o[j]
      BY <3>1, RemovedOps
    <3> QED
      BY <3>2 DEF o
  <2>2. t = [s EXCEPT !.proxy = proxy, !.current = s.current, !.others = others,
                      !.has_active_player = (s.current # Mp!NoProxy)]
    BY <1>0, <1>2, <1>5 DEF Mp!OwnerGone, Mp!Freed, PlayerStates
  <2>3. s.current # Mp!NoProxy
    BY <1>2, <1>5
  <2> HIDE DEF t, others
  <2>4. \A i \in DOMAIN others : others[i] \notin {x, s.current} /\ Ready(s, others[i])
                                 /\ others[i] \in Mp!Proxies
    BY <1>2, <2>1
  <2>5. \A y \in Mp!Proxies :
          Ready(s, y) /\ y # x => y = s.current \/ \E i \in DOMAIN others : others[i] = y
    BY <1>2, <2>1
  <2>6. Lists(t) /\ t.playing = s.playing /\ t.proxy = proxy /\ SameNames(s, t)
    BY <1>0, <1>2, <1>4, <1>5, <2>1, <2>2, <2>3, <2>4, <2>5
  <2> QED
    BY <1>1, <2>6 DEF Ready, t
<1>6. CASE s.current = x /\ s.others # <<>>
  <2> DEFINE current == Head(s.others)
             others == Tail(s.others)
  <2>1. /\ others \in Seq(Mp!Proxies) /\ Once(others) /\ current \in Mp!Proxies
        /\ \A i \in DOMAIN others : others[i] # current /\ \E j \in DOMAIN s.others : others[i] = s.others[j]
        /\ \A j \in DOMAIN s.others : s.others[j] = current \/ \E i \in DOMAIN others : others[i] = s.others[j]
        /\ \E j \in DOMAIN s.others : s.others[j] = current
    BY <1>0, <1>6, TailOps
  <2>2. t = [s EXCEPT !.proxy = proxy, !.current = current, !.others = others,
                      !.has_active_player = (current # Mp!NoProxy)]
    <3>1. current # Mp!NoProxy /\ s.has_active_player = TRUE
      BY <1>0, <1>2, <1>6, <2>1
    <3>2. t = [s EXCEPT !.proxy = proxy, !.current = current, !.others = others]
      BY <1>0, <1>6 DEF Mp!OwnerGone, Mp!Freed, PlayerStates
    <3> HIDE DEF t, proxy, current, others
    <3> QED
      BY <1>0, <3>1, <3>2 DEF PlayerStates
  <2> HIDE DEF t, others, current
  <2>3. Ready(s, current) /\ current # x
    BY <1>2, <1>6, <2>1
  <2>4. \A i \in DOMAIN others : others[i] \notin {x, current} /\ Ready(s, others[i])
                                 /\ others[i] \in Mp!Proxies
    BY <1>2, <1>6, <2>1
  <2>5. \A y \in Mp!Proxies :
          Ready(s, y) /\ y # x => y = current \/ \E i \in DOMAIN others : others[i] = y
    BY <1>2, <1>6, <2>1
  <2>6. /\ current # Mp!NoProxy => Ready(s, current) /\ current # x
        /\ current = Mp!NoProxy => others = <<>>
        /\ current \in Mp!Proxies \cup {Mp!NoProxy} /\ others \in Seq(Mp!Proxies) /\ Once(others)
    BY <1>0, <2>1, <2>3
  <2> HIDE DEF proxy
  <2>7. Lists(t) /\ t.playing = s.playing /\ t.proxy = proxy /\ SameNames(s, t)
    BY <1>4, <2>2, <2>4, <2>5, <2>6
  <2> QED
    BY <1>1, <2>7 DEF Ready, t
<1>7. CASE s.current = x /\ s.others = <<>>
  <2>1. t = [s EXCEPT !.proxy = proxy, !.current = Mp!NoProxy, !.others = <<>>,
                      !.has_active_player = (Mp!NoProxy # Mp!NoProxy)]
    BY <1>0, <1>7 DEF Mp!OwnerGone, Mp!Freed, Mp!NotifyActive, PlayerStates
  <2>2. <<>> \in Seq(Mp!Proxies) /\ Once(<<>>) /\ DOMAIN <<>> = {}
    BY DEF Once
  <2>3. \A y \in Mp!Proxies : Ready(s, y) => y = x
    BY <1>2, <1>7, <2>2
  <2> HIDE DEF t, proxy
  <2>4. Lists(t) /\ t.playing = s.playing /\ t.proxy = proxy /\ SameNames(s, t)
    BY <1>4, <2>1, <2>2, <2>3
  <2> QED
    BY <1>1, <2>4 DEF Ready, t
<1> QED
  BY <1>5, <1>6, <1>7

\* The callback of either signal.
Heard(signal, s, x) == IF signal = "g-name-owner" THEN Mp!OwnerGone(s, x) ELSE Mp!PropertiesChanged(s, x)

Heeded(signal, hear, s, x) == IF x \in hear THEN Heard(signal, s, x) ELSE s

\* What is after each of the proxies.
InTurn(signal, s, hear, after) ==
  after = [x \in 0 .. MaxProxies |-> IF x = 0 THEN s ELSE Heeded(signal, hear, after[x - 1], x)]

AfterOwnersGo(s, hear)         == Mp!InTurn(Mp!OwnerGone, s, hear)
AfterPropertiesChange(s, hear) == Mp!InTurn(Mp!PropertiesChanged, s, hear)

LEMMA CallbacksInTurn ==
  ASSUME NEW s, NEW hear, NEW signal
  PROVE  \E after : InTurn(signal, s, hear, after)
<1> DEFINE Step(t, x) == Heeded(signal, hear, t, x)
           UpTo(m, after) == after = [x \in 0 .. m |-> IF x = 0 THEN s ELSE Step(after[x - 1], x)]
           S == {m \in Nat : \E after : UpTo(m, after)}
<1> HIDE DEF Step
<1>1. 0 \in S
  <2> DEFINE after == [x \in 0 .. 0 |-> s]
  <2>1. UpTo(0, after)
    OBVIOUS
  <2> QED
    BY <2>1
<1>2. ASSUME NEW m \in S PROVE m + 1 \in S
  <2>1. PICK before : UpTo(m, before)
    OBVIOUS
  <2> DEFINE after == [x \in 0 .. m + 1 |-> IF x = m + 1 THEN Step(before[m], m + 1) ELSE before[x]]
  <2>2. m \in Nat
    OBVIOUS
  <2>3. UpTo(m + 1, after)
    <3>1. ASSUME NEW x \in 0 .. m + 1
          PROVE  after[x] = IF x = 0 THEN s ELSE Step(after[x - 1], x)
      <4>1. CASE x = m + 1
        <5>1. x - 1 = m /\ m \in 0 .. m + 1 /\ m # m + 1 /\ x # 0
          BY <2>2, <4>1
        <5>2. after[x - 1] = before[m]
          BY <5>1
        <5> QED
          BY <4>1, <5>1, <5>2
      <4>2. CASE x # m + 1 /\ x # 0
        <5>1. x \in 0 .. m /\ x - 1 \in 0 .. m /\ x - 1 # m + 1 /\ x - 1 \in 0 .. m + 1
          BY <2>2, <4>2
        <5>2. before[x] = Step(before[x - 1], x)
          BY <2>1, <4>2, <5>1
        <5> QED
          BY <4>2, <5>1, <5>2
      <4>3. CASE x = 0
        <5>1. 0 \in 0 .. m /\ 0 # m + 1
          BY <2>2
        <5>2. before[0] = s
          BY <2>1, <5>1
        <5> QED
          BY <4>3, <5>1, <5>2
      <4> QED
        BY <4>1, <4>2, <4>3
    <3> DEFINE expected == [x \in 0 .. m + 1 |-> IF x = 0 THEN s ELSE Step(after[x - 1], x)]
    <3>2. DOMAIN after = 0 .. m + 1 /\ DOMAIN expected = 0 .. m + 1 /\ \A x \in 0 .. m + 1 : after[x] = expected[x]
      BY <3>1
    <3>3. after = expected
      <4> HIDE DEF Step
      <4> QED
        BY <3>1
    <3> QED
      BY <3>3
  <2> HIDE DEF after, UpTo
  <2> QED
    BY <2>2, <2>3
<1>3. MaxProxies \in S
  <2> HIDE DEF S
  <2>1. S \in SUBSET Nat
    BY DEF S
  <2> QED
    BY <1>1, <1>2, <2>1, NumbersInduction, PlayersAssumption
<1>4. \E after : UpTo(MaxProxies, after)
  BY <1>3
<1> QED
  BY <1>4 DEF Step, InTurn

LEMMA OwnersGoInTurn ==
  ASSUME NEW s, NEW hear
  PROVE  \E after :
           /\ after[0] = s /\ AfterOwnersGo(s, hear) = after[MaxProxies]
           /\ \A x \in Mp!Proxies :
                after[x] = IF x \in hear THEN Mp!OwnerGone(after[x - 1], x) ELSE after[x - 1]
<1> DEFINE Is(f) == f = [x \in 0 .. MaxProxies |->
                           IF x = 0 THEN s ELSE IF x \in hear THEN Mp!OwnerGone(f[x - 1], x) ELSE f[x - 1]]
           after == CHOOSE f : Is(f)
<1>1. \E f : Is(f)
  <2>1. \A t, x : Heeded("g-name-owner", hear, t, x) = IF x \in hear THEN Mp!OwnerGone(t, x) ELSE t
    BY DEF Heeded, Heard
  <2>2. PICK f : InTurn("g-name-owner", s, hear, f)
    BY CallbacksInTurn
  <2> HIDE DEF after
  <2>3. Is(f)
    BY <2>1, <2>2 DEF InTurn
  <2> QED
    BY <2>3, Zenon
<1>2. Is(after)
  BY <1>1
<1>3. AfterOwnersGo(s, hear) = after[MaxProxies]
  BY DEF AfterOwnersGo, Mp!InTurn
<1> HIDE DEF after
<1>4. after[0] = s /\ \A x \in Mp!Proxies :
        after[x] = IF x \in hear THEN Mp!OwnerGone(after[x - 1], x) ELSE after[x - 1]
  BY <1>2, PlayersAssumption DEF Mp!Proxies
<1> QED
  BY <1>3, <1>4

LEMMA PropertiesChangeInTurn ==
  ASSUME NEW s, NEW hear
  PROVE  \E after :
           /\ after[0] = s /\ AfterPropertiesChange(s, hear) = after[MaxProxies]
           /\ \A x \in Mp!Proxies :
                after[x] = IF x \in hear THEN Mp!PropertiesChanged(after[x - 1], x) ELSE after[x - 1]
<1> DEFINE Is(f) == f = [x \in 0 .. MaxProxies |->
                           IF x = 0 THEN s ELSE IF x \in hear THEN Mp!PropertiesChanged(f[x - 1], x) ELSE f[x - 1]]
           after == CHOOSE f : Is(f)
<1>1. \E f : Is(f)
  <2>1. \A t, x : Heeded("g-properties-changed", hear, t, x) = IF x \in hear THEN Mp!PropertiesChanged(t, x) ELSE t
    BY DEF Heeded, Heard
  <2>2. PICK f : InTurn("g-properties-changed", s, hear, f)
    BY CallbacksInTurn
  <2> HIDE DEF after
  <2>3. Is(f)
    BY <2>1, <2>2 DEF InTurn
  <2> QED
    BY <2>3, Zenon
<1>2. Is(after)
  BY <1>1
<1>3. AfterPropertiesChange(s, hear) = after[MaxProxies]
  BY DEF AfterPropertiesChange, Mp!InTurn
<1> HIDE DEF after
<1>4. after[0] = s /\ \A x \in Mp!Proxies :
        after[x] = IF x \in hear THEN Mp!PropertiesChanged(after[x - 1], x) ELSE after[x - 1]
  BY <1>2, PlayersAssumption DEF Mp!Proxies
<1> QED
  BY <1>3, <1>4

\* So many proxies have heard that their owner is gone.
HaveHeard(s, hear, n, t) ==
  /\ Lists(t) /\ t.playing = s.playing /\ SameNames(s, t)
  /\ \A x \in Mp!Proxies : IF x \in hear /\ x <= n THEN ~Ready(t, x) ELSE t.proxy[x] = s.proxy[x]

LEMMA PlayerLeavesInv ==
  ASSUME MpInv(st), NEW name \in Players, Mp!PlayerLeaves(name)
  PROVE  MpInv(st')
<1> DEFINE s == Mp!NameVanished([st EXCEPT !.playing[name] = "gone"], name)
           hear == Mp!Of(st, name, "ready")
<1>1. /\ Lists(st) /\ st \in PlayerStates(st) /\ st.playing \in [Players -> {"gone", "paused", "playing"}]
  BY DEF MpInv, Lists, PlayerStates
<1>3. /\ s \in PlayerStates(s) /\ s.proxy = st.proxy /\ s.current = st.current /\ s.others = st.others
      /\ s.has_active_player = st.has_active_player /\ s.playing = [st.playing EXCEPT ![name] = "gone"]
      /\ s.names = st.names \ {name} /\ s.asked = st.asked /\ s.listed = st.listed
  BY <1>1 DEF Mp!NameVanished, PlayerStates
<1>a. st' = AfterOwnersGo(s, hear)
  BY DEF Mp!PlayerLeaves, AfterOwnersGo
<1>5. \A x \in Mp!Proxies : x \in hear <=> st.proxy[x].name = name /\ Ready(st, x)
  BY DEF Mp!Of, Ready
<1> HIDE DEF s, hear
<1>2. PICK after : /\ after[0] = s /\ AfterOwnersGo(s, hear) = after[MaxProxies]
                   /\ \A x \in Mp!Proxies :
                        after[x] = IF x \in hear THEN Mp!OwnerGone(after[x - 1], x) ELSE after[x - 1]
  BY OwnersGoInTurn
<1>4. st' = after[MaxProxies]
  BY <1>2, <1>a
<1>6. Lists(s)
  BY <1>1, <1>3 DEF Lists, ListedOnce, Named, Ready
<1> DEFINE S == {n \in Nat : n <= MaxProxies => HaveHeard(s, hear, n, after[n])}
<1>7. 0 \in S
  <2>1. \A y \in Mp!Proxies : ~(y <= 0)
    BY DEF Mp!Proxies
  <2> QED
    BY <1>2, <1>6, <2>1 DEF HaveHeard, SameNames
<1>8. ASSUME NEW n \in S PROVE n + 1 \in S
  <2> SUFFICES ASSUME n + 1 <= MaxProxies PROVE HaveHeard(s, hear, n + 1, after[n + 1])
    OBVIOUS
  <2> DEFINE x == n + 1
             t == after[n]
  <2>1. n \in Nat /\ x \in Mp!Proxies /\ x - 1 = n
    BY ProxiesAreNumbers
  <2>2. HaveHeard(s, hear, n, t)
    BY ProxiesAreNumbers
  <2>3. \A y \in Mp!Proxies : y <= x <=> y <= n \/ y = x
    BY <2>1, ProxiesAreNumbers
  <2>4. ~(x <= n)
    BY <2>1
  <2>5. after[x] = IF x \in hear THEN Mp!OwnerGone(t, x) ELSE t
    BY <1>2, <2>1
  <2> HIDE DEF x, t, S
  <2>6. ASSUME x \notin hear PROVE HaveHeard(s, hear, x, after[x])
    <3>1. after[x] = t /\ \A y \in Mp!Proxies : y \in hear => (y <= x <=> y <= n)
      BY <2>3, <2>5, <2>6
    <3> QED
      BY <2>2, <3>1 DEF HaveHeard
  <2>7. ASSUME x \in hear PROVE HaveHeard(s, hear, x, after[x])
    <3>1. Lists(t) /\ Ready(t, x) /\ after[x] = Mp!OwnerGone(t, x)
      BY <1>3, <1>5, <2>1, <2>2, <2>4, <2>5, <2>7 DEF Ready, HaveHeard
    <3>2. /\ Lists(after[x]) /\ after[x].playing = t.playing /\ ~Ready(after[x], x)
          /\ SameNames(t, after[x])
          /\ \A y \in Mp!Proxies : y # x => after[x].proxy[y] = t.proxy[y]
      BY <2>1, <3>1, OwnerGoneLists
    <3>3. ASSUME NEW y \in Mp!Proxies
          PROVE  IF y \in hear /\ y <= x THEN ~Ready(after[x], y) ELSE after[x].proxy[y] = s.proxy[y]
      BY <2>2, <2>3, <2>7, <3>2, <3>3 DEF Ready, HaveHeard
    <3> QED
      BY <2>2, <3>2, <3>3 DEF HaveHeard, SameNames
  <2>8. HaveHeard(s, hear, x, after[x])
    BY <2>6, <2>7
  <2> QED
    BY <2>8 DEF x
<1>9. HaveHeard(s, hear, MaxProxies, after[MaxProxies])
  <2>1. S = Nat
    BY <1>7, <1>8, NumbersInduction
  <2> QED
    BY <2>1, PlayersAssumption
<1>10. OwnedBut(st', {})
  <2> SUFFICES ASSUME NEW y \in Mp!Proxies, Ready(st', y), st'.playing[st'.proxy[y].name] = "gone"
               PROVE  st'.proxy[y].orphan
    BY DEF OwnedBut
  <2>1. y <= MaxProxies
    BY PlayersAssumption DEF Mp!Proxies
  <2>2. y \notin hear /\ st'.proxy[y] = st.proxy[y]
    BY <1>3, <1>4, <1>9, <2>1 DEF HaveHeard
  <2>3. Ready(st, y) /\ st.proxy[y].name # name /\ st.proxy[y].name \in Players
    BY <1>1, <1>5, <2>2 DEF Ready, Lists, Named
  <2>4. st.playing[st.proxy[y].name] = "gone"
    BY <1>1, <1>3, <1>4, <1>9, <2>2, <2>3 DEF HaveHeard
  <2> QED
    BY <2>2, <2>3, <2>4 DEF MpInv, OwnedBut
<1>11. /\ st'.playing = [st.playing EXCEPT ![name] = "gone"] /\ st'.names = st.names \ {name}
       /\ st'.asked = st.asked /\ st'.listed = st.listed
  BY <1>3, <1>4, <1>9 DEF HaveHeard, SameNames
<1>12. ASSUME NEW other \in Players, other # name, Proxied(st, other) PROVE Proxied(st', other)
  <2>1. PICK x \in Mp!Proxies : st.proxy[x].name = other /\ st.proxy[x].stage # "free"
    BY <1>12 DEF Proxied
  <2>2. x \notin hear
    BY <1>5, <1>12, <2>1
  <2>3. st'.proxy[x] = st.proxy[x]
    BY <1>3, <1>4, <1>9, <2>2 DEF HaveHeard
  <2> QED
    BY <2>1, <2>3 DEF Proxied
<1>13. Noticed(st')
  <2>1. ASSUME NEW other \in Players, other \in st'.names
        PROVE  st'.playing[other] # "gone" /\ Proxied(st', other)
    <3>1. other \in st.names /\ other # name
      BY <1>11, <2>1
    <3>2. st.playing[other] # "gone" /\ Proxied(st, other)
      BY <3>1 DEF MpInv, Noticed, NoticedBut
    <3> QED
      BY <1>1, <1>11, <1>12, <3>1, <3>2
  <2>2. ASSUME st'.listed, NEW other \in Players, st'.playing[other] # "gone"
        PROVE  other \in st'.names \cup st'.asked
    <3>1. other # name /\ st.playing[other] # "gone"
      BY <1>1, <1>11, <2>2
    <3> QED
      BY <1>11, <2>2, <3>1 DEF MpInv, Noticed, NoticedBut
  <2> QED
    BY <2>1, <2>2 DEF Noticed, NoticedBut
<1> QED
  BY <1>4, <1>9, <1>10, <1>13 DEF MpInv, HaveHeard

LEMMA PlaybackChangesInv ==
  ASSUME MpInv(st), NEW name \in Players, Mp!PlaybackChanges(name)
  PROVE  MpInv(st')
<1> DEFINE status == IF st.playing[name] = "playing" THEN "paused" ELSE "playing"
           s == [st EXCEPT !.playing[name] = status]
           hear == Mp!Of(st, name, "ready")
<1>1. /\ Lists(st) /\ st \in PlayerStates(st) /\ st.playing \in [Players -> {"gone", "paused", "playing"}]
  BY DEF MpInv, Lists, PlayerStates
<1>3. /\ s \in PlayerStates(s) /\ s.proxy = st.proxy /\ s.current = st.current /\ s.others = st.others
      /\ s.has_active_player = st.has_active_player /\ s.playing = [st.playing EXCEPT ![name] = status]
      /\ SameNames(st, s)
  BY <1>1 DEF PlayerStates, SameNames
<1>a. st' = AfterPropertiesChange(s, hear) /\ st.playing[name] # "gone"
  <2>1. s = [st EXCEPT !.playing[name] = IF @ = "playing" THEN "paused" ELSE "playing"]
    OBVIOUS
  <2> QED
    BY <2>1 DEF Mp!PlaybackChanges, AfterPropertiesChange
<1>5. \A x \in Mp!Proxies : x \in hear => Ready(st, x)
  BY DEF Mp!Of, Ready
<1> HIDE DEF s, hear
<1>2. PICK after : /\ after[0] = s /\ AfterPropertiesChange(s, hear) = after[MaxProxies]
                   /\ \A x \in Mp!Proxies :
                        after[x] = IF x \in hear THEN Mp!PropertiesChanged(after[x - 1], x) ELSE after[x - 1]
  BY PropertiesChangeInTurn
<1>4. st' = after[MaxProxies]
  BY <1>2, <1>a
<1>6. Lists(s)
  BY <1>1, <1>3 DEF Lists, ListedOnce, Named, Ready
<1> DEFINE Same(n) == /\ Lists(after[n]) /\ after[n].playing = s.playing /\ after[n].proxy = st.proxy
                      /\ SameNames(st, after[n])
           S == {n \in Nat : n <= MaxProxies => Same(n)}
<1>7. 0 \in S
  BY <1>2, <1>3, <1>6
<1>8. ASSUME NEW n \in S PROVE n + 1 \in S
  <2> SUFFICES ASSUME n + 1 <= MaxProxies PROVE Same(n + 1)
    OBVIOUS
  <2> DEFINE x == n + 1
             t == after[n]
  <2>1. n \in Nat /\ Same(n) /\ x \in Mp!Proxies /\ x - 1 = n
    BY ProxiesAreNumbers
  <2>2. after[x] = IF x \in hear THEN Mp!PropertiesChanged(t, x) ELSE t
    BY <1>2, <2>1
  <2>3. x \in hear => Ready(t, x)
    BY <1>5, <2>1 DEF Ready
  <2>4. Lists(t) /\ t.playing = s.playing /\ t.proxy = st.proxy /\ SameNames(st, t)
    BY <2>1
  <2> HIDE DEF x, t, S, Same
  <2>5. /\ Lists(after[x]) /\ after[x].playing = s.playing /\ after[x].proxy = st.proxy
        /\ SameNames(st, after[x])
    BY <2>1, <2>2, <2>3, <2>4, PropertiesChangedLists DEF SameNames
  <2> QED
    BY <2>5 DEF x, Same
<1>9. Same(MaxProxies)
  <2> HIDE DEF Same
  <2>1. S = Nat
    BY <1>7, <1>8, NumbersInduction
  <2> QED
    BY <2>1, PlayersAssumption
<1>10. OwnedBut(st', {})
  <2> SUFFICES ASSUME NEW y \in Mp!Proxies, Ready(st', y), st'.playing[st'.proxy[y].name] = "gone"
               PROVE  st'.proxy[y].orphan
    BY DEF OwnedBut
  <2>1. Ready(st, y) /\ st'.proxy = st.proxy /\ st.proxy[y].name \in Players
    BY <1>1, <1>4, <1>9 DEF Ready, Lists, Named
  <2>2. st.playing[st.proxy[y].name] = "gone"
    BY <1>1, <1>3, <1>4, <1>9, <2>1
  <2> QED
    BY <2>1, <2>2 DEF MpInv, OwnedBut
<1>11. /\ st'.proxy = st.proxy /\ SameNames(st, st')
       /\ \A other \in Players : st'.playing[other] = "gone" <=> st.playing[other] = "gone"
  BY <1>1, <1>3, <1>4, <1>9, <1>a
<1>12. Noticed(st')
  BY <1>11 DEF MpInv, Noticed, NoticedBut, Proxied, SameNames
<1> QED
  BY <1>4, <1>9, <1>10, <1>12 DEF MpInv

LEMMA NameAppearedInv ==
  ASSUME NEW s, NEW name \in Players, Lists(s), OwnedBut(s, {}), NoticedBut(s, {name}),
         s.playing[name] # "gone", Mp!Free(s) # {}
  PROVE  MpInv(Mp!NameAppeared(s, name))
<1> DEFINE x == CHOOSE y \in Mp!Free(s) : TRUE
           made == [name |-> name, stage |-> "making", orphan |-> FALSE]
           proxy == [s.proxy EXCEPT ![x] = made]
           t == [s EXCEPT !.names = s.names \cup {name}, !.proxy = proxy]
<1>1. /\ Lists(s) /\ s \in PlayerStates(s)
      /\ s.proxy \in [Mp!Proxies -> [name : Players \cup {Mp!NoName},
                                     stage : {"free", "making", "ready"}, orphan : BOOLEAN]]
  BY DEF Lists, PlayerStates
<1>2. x \in Mp!Proxies /\ s.proxy[x].stage = "free"
  BY DEF Mp!Free
<1>3. CASE name \in s.names
  <2>1. Noticed(s)
    BY <1>3 DEF Noticed, NoticedBut
  <2> QED
    BY <1>3, <2>1 DEF Mp!NameAppeared, MpInv
<1>4. CASE name \notin s.names
  <2>1. Mp!NameAppeared(s, name) = t
    <3> DEFINE r == [s EXCEPT !.names = @ \cup {name}]
    <3>1. Mp!Free(r) = Mp!Free(s) /\ r.proxy = s.proxy
      BY <1>1 DEF Mp!Free, PlayerStates
    <3>2. Mp!Started(r, name) = [r EXCEPT !.proxy[x] = made]
      BY <3>1 DEF Mp!Started
    <3> QED
      BY <1>1, <1>4, <3>2 DEF Mp!NameAppeared, PlayerStates
  <2> HIDE DEF x
  <2>2. /\ proxy \in [Mp!Proxies -> [name : Players \cup {Mp!NoName},
                                     stage : {"free", "making", "ready"}, orphan : BOOLEAN]]
        /\ \A y \in Mp!Proxies : y # x => proxy[y] = s.proxy[y]
        /\ proxy[x].stage = "making" /\ proxy[x].name = name
    BY <1>1, <1>2
  <2> HIDE DEF proxy
  <2>3. /\ t \in PlayerStates(t) /\ t.proxy = proxy /\ t.current = s.current /\ t.others = s.others
        /\ t.has_active_player = s.has_active_player /\ t.playing = s.playing
        /\ t.names = s.names \cup {name} /\ t.asked = s.asked /\ t.listed = s.listed
    BY <1>1, <2>2 DEF PlayerStates
  <2> HIDE DEF t
  <2>4. \A y \in Mp!Proxies : (Ready(t, y) <=> Ready(s, y)) /\ (Ready(s, y) => t.proxy[y] = s.proxy[y])
    BY <1>2, <2>2, <2>3 DEF Ready
  <2>5. ListedOnce(t)
    <3>1. s.others \in Seq(Mp!Proxies) /\ s.current \in Mp!Proxies \cup {Mp!NoProxy}
      BY <1>1 DEF PlayerStates
    <3>2. \A i \in DOMAIN s.others : s.others[i] \in Mp!Proxies
      BY <3>1
    <3> QED
      BY <1>1, <2>3, <2>4, <3>1, <3>2 DEF Lists, ListedOnce
  <2>6. Named(t) /\ OwnedBut(t, {})
    BY <1>1, <2>2, <2>3, <2>4 DEF Named, OwnedBut, Lists
  <2>7. Proxied(t, name)
    BY <1>2, <2>2, <2>3 DEF Proxied
  <2>8. ASSUME NEW other \in Players, Proxied(s, other) PROVE Proxied(t, other)
    <3>1. PICK y \in Mp!Proxies : s.proxy[y].name = other /\ s.proxy[y].stage # "free"
      BY <2>8 DEF Proxied
    <3> QED
      BY <1>2, <2>2, <2>3, <3>1 DEF Proxied
  <2>9. Noticed(t)
    BY <2>3, <2>7, <2>8 DEF Noticed, NoticedBut
  <2> QED
    BY <2>1, <2>3, <2>5, <2>6, <2>9 DEF MpInv, Lists
<1> QED
  BY <1>3, <1>4

LEMMA ProxyReadyInv ==
  ASSUME MpInv(st), NEW x \in Mp!Proxies, Mp!ProxyReady(x)
  PROVE  MpInv(st')
<1> DEFINE orphan == (st.playing[st.proxy[x].name] = "gone")
           proxy == [st.proxy EXCEPT ![x] = [st.proxy[x] EXCEPT !.stage = "ready", !.orphan = orphan]]
           ready == [st EXCEPT !.proxy = proxy]
           others == IF st.current # Mp!NoProxy /\ Mp!IsPlaying(st, st.current) THEN <<x>> \o st.others
                     ELSE IF st.current = Mp!NoProxy THEN st.others ELSE <<st.current>> \o st.others
           current == IF st.current # Mp!NoProxy /\ Mp!IsPlaying(st, st.current) THEN st.current ELSE x
<1>1. /\ Lists(st) /\ st \in PlayerStates(st) /\ st.others \in Seq(Mp!Proxies) /\ Once(st.others)
      /\ st.proxy \in [Mp!Proxies -> [name : Players \cup {Mp!NoName},
                                      stage : {"free", "making", "ready"}, orphan : BOOLEAN]]
      /\ st.current \in Mp!Proxies \cup {Mp!NoProxy} /\ Mp!NoProxy \notin Mp!Proxies
      /\ st.has_active_player = (st.current # Mp!NoProxy)
  BY ProxiesAreNumbers DEF MpInv, Lists, PlayerStates, ListedOnce
<1>2. st.proxy[x].stage = "making" /\ st.proxy[x].name \in Players
  BY <1>1 DEF Mp!ProxyReady, Lists, Named
<1>3. /\ proxy \in [Mp!Proxies -> [name : Players \cup {Mp!NoName},
                                   stage : {"free", "making", "ready"}, orphan : BOOLEAN]]
      /\ \A y \in Mp!Proxies : y # x => proxy[y] = st.proxy[y]
      /\ proxy[x].stage = "ready" /\ proxy[x].name = st.proxy[x].name /\ proxy[x].orphan = orphan
  BY <1>1
<1>4. st' = [st EXCEPT !.proxy = proxy, !.others = others, !.current = current, !.has_active_player = TRUE]
  <2>1. st' = Mp!ProxyReadied(st, x)
    BY DEF Mp!ProxyReady
  <2>2. [st EXCEPT !.proxy[x].stage = "ready", !.proxy[x].orphan = orphan] = ready
    BY <1>1
  <2> DEFINE plays == st.current # Mp!NoProxy /\ Mp!IsPlaying(st, st.current)
             kept == IF st.current = Mp!NoProxy THEN ready ELSE Mp!Prepend(ready, st.current)
  <2>3. st' = IF plays THEN Mp!Prepend(ready, x) ELSE Mp!NotifyActive([kept EXCEPT !.current = x])
    <3>1. ready.current = st.current
      BY <1>1 DEF PlayerStates
    <3> DEFINE r == [st EXCEPT !.proxy[x].stage = "ready", !.proxy[x].orphan = orphan]
    <3>2. Mp!ProxyReadied(st, x) =
            IF st.current # Mp!NoProxy /\ Mp!IsPlaying(st, st.current) THEN Mp!Prepend(r, x)
            ELSE Mp!NotifyActive([(IF st.current = Mp!NoProxy THEN r ELSE Mp!Prepend(r, st.current))
                                    EXCEPT !.current = x])
      <4>1. r.current = st.current
        BY <1>1 DEF PlayerStates
      <4> QED
        BY <4>1 DEF Mp!ProxyReadied
    <3>3. r = ready
      BY <2>2
    <3> HIDE DEF r, ready
    <3> QED
      BY <2>1, <3>2, <3>3
  <2>4. CASE plays
    <3>1. others = <<x>> \o st.others /\ current = st.current /\ st.has_active_player = TRUE
      BY <1>1, <2>4
    <3> HIDE DEF plays, others, current, proxy
    <3>2. st' = [st EXCEPT !.proxy = proxy, !.others = <<x>> \o st.others]
      BY <1>1, <2>3, <2>4 DEF Mp!Prepend, PlayerStates
    <3> QED
      BY <1>1, <3>1, <3>2 DEF PlayerStates
  <2>5. CASE ~plays /\ st.current # Mp!NoProxy
    <3>1. others = <<st.current>> \o st.others /\ current = x
      BY <2>5
    <3> HIDE DEF plays, others, current, proxy
    <3>2. st' = [st EXCEPT !.proxy = proxy, !.others = <<st.current>> \o st.others, !.current = x,
                           !.has_active_player = (x # Mp!NoProxy)]
      BY <1>1, <2>3, <2>5 DEF Mp!Prepend, Mp!NotifyActive, PlayerStates
    <3> QED
      BY <1>1, <3>1, <3>2 DEF PlayerStates
  <2>6. CASE ~plays /\ st.current = Mp!NoProxy
    <3>1. others = st.others /\ current = x
      BY <2>6
    <3> HIDE DEF plays, others, current, proxy
    <3>2. st' = [st EXCEPT !.proxy = proxy, !.current = x, !.has_active_player = (x # Mp!NoProxy)]
      BY <1>1, <2>3, <2>6 DEF Mp!NotifyActive, PlayerStates
    <3> QED
      BY <1>1, <3>1, <3>2 DEF PlayerStates
  <2> QED
    BY <2>4, <2>5, <2>6
<1>5. /\ \A i \in DOMAIN st.others : st.others[i] # st.current /\ Ready(st, st.others[i])
                                     /\ st.others[i] # x /\ st.others[i] \in Mp!Proxies
      /\ \A y \in Mp!Proxies : Ready(st, y) => y = st.current \/ \E i \in DOMAIN st.others : st.others[i] = y
      /\ st.current # Mp!NoProxy => Ready(st, st.current) /\ st.current # x /\ st.current \in Mp!Proxies
      /\ st.current = Mp!NoProxy => st.others = <<>>
  BY <1>1, <1>2 DEF Lists, ListedOnce, Ready
<1>6. /\ others \in Seq(Mp!Proxies) /\ Once(others) /\ current \in Mp!Proxies
      /\ current # x => Ready(st, current)
      /\ \A i \in DOMAIN others : others[i] # current /\ (others[i] = x \/ Ready(st, others[i]))
                                  /\ others[i] \in Mp!Proxies
      /\ \A y \in Mp!Proxies : Ready(st, y) \/ y = x => y = current \/ \E i \in DOMAIN others : others[i] = y
  <2>1. CASE st.current = Mp!NoProxy
    <3>1. others = st.others /\ current = x /\ DOMAIN st.others = {}
      BY <1>5, <2>1
    <3> HIDE DEF others, current
    <3> QED
      BY <1>1, <1>5, <2>1, <3>1 DEF Ready
  <2>2. CASE st.current # Mp!NoProxy
    <3> DEFINE head == IF Mp!IsPlaying(st, st.current) THEN x ELSE st.current
               rest == st.others
    <3>1. /\ others = <<head>> \o rest /\ head \in Mp!Proxies /\ current \in Mp!Proxies /\ head # current
          /\ \A i \in DOMAIN rest : rest[i] # head
          /\ \/ head = x /\ current = st.current
             \/ head = st.current /\ current = x
      BY <1>1, <1>5, <2>2
    <3> HIDE DEF others, current, head, rest
    <3>2. rest \in Seq(Mp!Proxies) /\ Once(rest)
      BY <1>1 DEF rest
    <3>3. others \in Seq(Mp!Proxies) /\ Once(others) /\ HasBesides(others, rest, head)
      BY <3>1, <3>2, PrependedOps
    <3>4. current # x => Ready(st, current)
      BY <1>5, <2>2, <3>1
    <3>5. ASSUME NEW i \in DOMAIN others
          PROVE  others[i] # current /\ (others[i] = x \/ Ready(st, others[i])) /\ others[i] \in Mp!Proxies
      <4>1. others[i] = head \/ \E j \in DOMAIN rest : others[i] = rest[j]
        BY <3>3 DEF HasBesides
      <4> QED
        BY <1>5, <2>2, <3>1, <4>1 DEF rest
    <3>6. ASSUME NEW y \in Mp!Proxies, Ready(st, y) \/ y = x, y # current
          PROVE  \E i \in DOMAIN others : others[i] = y
      <4>1. y = head \/ \E j \in DOMAIN rest : rest[j] = y
        BY <1>5, <3>1, <3>6 DEF rest
      <4> QED
        BY <3>3, <4>1 DEF HasBesides
    <3> QED
      BY <3>1, <3>3, <3>4, <3>5, <3>6
  <2> QED
    BY <2>1, <2>2
<1> HIDE DEF others, current, proxy
<1>7. /\ st' \in PlayerStates(st') /\ st'.proxy = proxy /\ st'.current = current /\ st'.others = others
      /\ st'.has_active_player = TRUE /\ st'.playing = st.playing /\ SameNames(st, st')
  BY <1>1, <1>3, <1>4, <1>6 DEF PlayerStates, SameNames
<1>8. \A y \in Mp!Proxies : Ready(st', y) <=> Ready(st, y) \/ y = x
  BY <1>3, <1>7 DEF Ready
<1>9. ListedOnce(st')
  <2>1. \A i \in DOMAIN others : others[i] # current /\ Ready(st', others[i])
    BY <1>6, <1>8
  <2>2. \A y \in Mp!Proxies : Ready(st', y) => y = current \/ \E i \in DOMAIN others : others[i] = y
    BY <1>6, <1>8
  <2>3. Ready(st', current) /\ current # Mp!NoProxy
    BY <1>1, <1>6, <1>8
  <2> QED
    BY <1>6, <1>7, <2>1, <2>2, <2>3 DEF ListedOnce
<1>10. Named(st')
  BY <1>1, <1>2, <1>3, <1>7 DEF Named, Lists
<1>11. OwnedBut(st', {})
  BY <1>3, <1>7, <1>8 DEF OwnedBut, MpInv
<1>12. \A name \in Players : Proxied(st, name) => Proxied(st', name)
  <2>1. \A y \in Mp!Proxies : /\ st'.proxy[y].name = st.proxy[y].name
                              /\ st.proxy[y].stage # "free" => st'.proxy[y].stage # "free"
    BY <1>3, <1>7
  <2> QED
    BY <2>1 DEF Proxied
<1>13. Noticed(st')
  BY <1>7, <1>12 DEF MpInv, Noticed, NoticedBut, SameNames
<1> QED
  BY <1>7, <1>9, <1>10, <1>11, <1>13 DEF MpInv, Lists

LEMMA MpNextInv == ASSUME MpInv(st), [Mp!MpNext]_st PROVE MpInv(st')
<1>1. /\ Lists(st) /\ st \in PlayerStates(st) /\ st.playing \in [Players -> {"gone", "paused", "playing"}]
      /\ NoticedBut(st, {})
  BY DEF MpInv, Lists, PlayerStates, Noticed
<1>2. ASSUME NEW s, s \in PlayerStates(s), s.proxy = st.proxy, s.current = st.current, s.others = st.others,
             s.has_active_player = st.has_active_player,
             \A name \in Players : s.playing[name] = "gone" => st.playing[name] = "gone"
      PROVE  /\ Lists(s) /\ OwnedBut(s, {}) /\ Mp!Free(s) = Mp!Free(st)
             /\ \A name \in Players : Proxied(s, name) <=> Proxied(st, name)
  <2>1. ListedOnce(s) /\ Named(s)
    BY <1>1, <1>2 DEF Lists, ListedOnce, Named, Ready
  <2>2. OwnedBut(s, {})
    BY <1>1, <1>2 DEF MpInv, Lists, Named, OwnedBut, Ready
  <2> QED
    BY <1>2, <2>1, <2>2 DEF Lists, Mp!Free, Proxied
<1>3. CASE Mp!NamesListed
  <2>1. st' \in PlayerStates(st') /\ st'.playing = st.playing /\ st'.proxy = st.proxy
        /\ st'.current = st.current /\ st'.others = st.others
        /\ st'.has_active_player = st.has_active_player
        /\ st'.names = st.names /\ st'.asked = {p \in Players : st.playing[p] # "gone"}
    BY <1>1, <1>3 DEF Mp!NamesListed, PlayerStates
  <2>2. Lists(st') /\ OwnedBut(st', {}) /\ \A name \in Players : Proxied(st', name) <=> Proxied(st, name)
    BY <1>2, <2>1
  <2>3. Noticed(st')
    BY <1>1, <2>1, <2>2 DEF Noticed, NoticedBut
  <2> QED
    BY <2>2, <2>3 DEF MpInv
<1>4. ASSUME NEW name \in Players, Mp!GotNameOwner(name) PROVE MpInv(st')
  <2> DEFINE s == [st EXCEPT !.asked = @ \ {name}]
  <2>1. /\ s \in PlayerStates(s) /\ s.playing = st.playing /\ s.proxy = st.proxy
        /\ s.current = st.current /\ s.others = st.others
        /\ s.has_active_player = st.has_active_player
        /\ s.names = st.names /\ s.asked = st.asked \ {name} /\ s.listed = st.listed
    BY <1>1 DEF PlayerStates
  <2>2. st' = (IF s.playing[name] = "gone" THEN s ELSE Mp!NameAppeared(s, name)) /\ Mp!Free(st) # {}
    BY <1>4 DEF Mp!GotNameOwner
  <2> HIDE DEF s
  <2>3. /\ Lists(s) /\ OwnedBut(s, {}) /\ Mp!Free(s) # {}
        /\ \A other \in Players : Proxied(s, other) <=> Proxied(st, other)
    BY <1>2, <2>1, <2>2
  <2>4. NoticedBut(s, {name})
    BY <1>1, <2>1, <2>3 DEF NoticedBut
  <2>5. s.playing[name] = "gone" => MpInv(s)
    BY <2>3, <2>4 DEF MpInv, Noticed, NoticedBut
  <2> QED
    BY <2>2, <2>3, <2>4, <2>5, NameAppearedInv
<1>5. ASSUME NEW name \in Players, Mp!PlayerStarts(name) \/ Mp!PlayerReplaced(name) PROVE MpInv(st')
  <2> DEFINE playing == [st.playing EXCEPT ![name] = "paused"]
             s == [st EXCEPT !.playing = playing]
             r == [st EXCEPT !.playing = playing, !.names = st.names \ {name}]
  <2>1. /\ playing \in [Players -> {"gone", "paused", "playing"}] /\ playing[name] # "gone"
        /\ \A n \in Players : playing[n] = "gone" => st.playing[n] = "gone"
        /\ \A n \in Players \ {name} : playing[n] = st.playing[n]
    BY <1>1
  <2>2. \/ st' = Mp!NameAppeared(s, name)
        \/ st' = Mp!NameAppeared(r, name)
    BY <1>1, <1>5 DEF Mp!PlayerStarts, Mp!PlayerReplaced, Mp!NameVanished, PlayerStates
  <2>3. Mp!Free(st) # {}
    BY <1>5 DEF Mp!PlayerStarts, Mp!PlayerReplaced
  <2> HIDE DEF playing
  <2>4. /\ s \in PlayerStates(s) /\ s.playing = playing /\ s.proxy = st.proxy
        /\ s.current = st.current /\ s.others = st.others
        /\ s.has_active_player = st.has_active_player
        /\ s.names = st.names /\ s.asked = st.asked /\ s.listed = st.listed
    BY <1>1, <2>1 DEF PlayerStates
  <2>5. /\ r \in PlayerStates(r) /\ r.playing = playing /\ r.proxy = st.proxy
        /\ r.current = st.current /\ r.others = st.others
        /\ r.has_active_player = st.has_active_player
        /\ r.names = st.names \ {name} /\ r.asked = st.asked /\ r.listed = st.listed
    BY <1>1, <2>1 DEF PlayerStates
  <2> HIDE DEF s, r
  <2>6. ASSUME NEW t \in {s, r}
        PROVE  /\ Lists(t) /\ OwnedBut(t, {}) /\ Mp!Free(t) # {}
               /\ \A other \in Players : Proxied(t, other) <=> Proxied(st, other)
    BY <1>2, <2>1, <2>3, <2>4, <2>5
  <2>7. NoticedBut(s, {name}) /\ NoticedBut(r, {name})
    BY <1>1, <2>1, <2>4, <2>5, <2>6 DEF NoticedBut
  <2> QED
    BY <2>1, <2>2, <2>4, <2>5, <2>6, <2>7, NameAppearedInv
<1>6. CASE UNCHANGED st
  BY <1>6
<1> QED
  BY <1>3, <1>4, <1>5, <1>6, PlayerLeavesInv, PlaybackChangesInv, ProxyReadyInv DEF Mp!MpNext

LEMMA MpInitInv == ASSUME Mp!MpInit PROVE MpInv(st)
<1>1. PICK before \in SUBSET Players :
        st = [playing |-> [p \in Players |-> IF p \in before THEN "paused" ELSE "gone"],
              names |-> {}, asked |-> {}, listed |-> FALSE,
              proxy |-> [x \in Mp!Proxies |-> [name |-> Mp!NoName, stage |-> "free", orphan |-> FALSE]],
              current |-> Mp!NoProxy, others |-> <<>>, has_active_player |-> FALSE]
  BY DEF Mp!MpInit
<1> DEFINE playing == [p \in Players |-> IF p \in before THEN "paused" ELSE "gone"]
           proxy == [x \in Mp!Proxies |-> [name |-> Mp!NoName, stage |-> "free", orphan |-> FALSE]]
<1>2. /\ playing \in [Players -> {"gone", "paused", "playing"}]
      /\ proxy \in [Mp!Proxies -> [name : Players \cup {Mp!NoName},
                                   stage : {"free", "making", "ready"}, orphan : BOOLEAN]]
      /\ \A x \in Mp!Proxies : proxy[x].stage = "free"
      /\ <<>> \in Seq(Mp!Proxies) /\ Once(<<>>) /\ DOMAIN <<>> = {}
  BY DEF Once
<1>3. st = [playing |-> playing, names |-> {}, asked |-> {}, listed |-> FALSE, proxy |-> proxy,
            current |-> Mp!NoProxy, others |-> <<>>, has_active_player |-> FALSE]
  BY <1>1
<1> HIDE DEF playing, proxy
<1>4. /\ st \in PlayerStates(st) /\ st.proxy = proxy /\ st.current = Mp!NoProxy /\ st.others = <<>>
      /\ st.has_active_player = FALSE /\ st.names = {} /\ st.listed = FALSE
  BY <1>2, <1>3 DEF PlayerStates
<1>5. Noticed(st)
  BY <1>4 DEF Noticed, NoticedBut
<1> QED
  BY <1>2, <1>4, <1>5 DEF MpInv, Lists, ListedOnce, Named, OwnedBut, Ready

LEMMA MpInvFollows ==
  ASSUME MpInv(st) PROVE Mp!PlayersAreListedOnce /\ Mp!NoPlayerIsMissed /\ Mp!KeysReachAPlayer
<1> DEFINE listed == IF st.current = Mp!NoProxy THEN st.others ELSE <<st.current>> \o st.others
<1>1. /\ Lists(st) /\ st \in PlayerStates(st) /\ st.others \in Seq(Mp!Proxies) /\ Once(st.others)
      /\ st.current \in Mp!Proxies \cup {Mp!NoProxy}
      /\ st.has_active_player = (st.current # Mp!NoProxy) /\ (st.current = Mp!NoProxy => st.others = <<>>)
  BY DEF MpInv, Lists, PlayerStates, ListedOnce
<1>2. /\ \A i \in DOMAIN st.others : st.others[i] # st.current /\ Ready(st, st.others[i])
                                     /\ st.others[i] \in Mp!Proxies
      /\ \A y \in Mp!Proxies : Ready(st, y) => y = st.current \/ \E i \in DOMAIN st.others : st.others[i] = y
      /\ st.current # Mp!NoProxy => Ready(st, st.current) /\ st.current \in Mp!Proxies
  BY <1>1 DEF Lists, ListedOnce
<1>3. /\ Once(listed)
      /\ \A i \in DOMAIN listed : Ready(st, listed[i]) /\ listed[i] \in Mp!Proxies
      /\ \A y \in Mp!Proxies : Ready(st, y) => \E i \in DOMAIN listed : listed[i] = y
  <2>1. CASE st.current = Mp!NoProxy
    <3>1. listed = st.others /\ DOMAIN st.others = {}
      BY <1>1, <2>1
    <3> HIDE DEF listed
    <3>2. \A y \in Mp!Proxies : ~Ready(st, y)
      BY <1>2, <2>1, <3>1, ProxiesAreNumbers
    <3> QED
      BY <1>1, <3>1, <3>2
  <2>2. CASE st.current # Mp!NoProxy
    <3> DEFINE head == st.current
               rest == st.others
    <3>1. listed = <<head>> \o rest /\ head \in Mp!Proxies /\ \A i \in DOMAIN rest : rest[i] # head
      BY <1>1, <1>2, <2>2
    <3>2. rest \in Seq(Mp!Proxies) /\ Once(rest)
      BY <1>1
    <3> HIDE DEF listed, head, rest
    <3>3. Once(listed) /\ HasBesides(listed, rest, head)
      BY <3>1, <3>2, PrependedOps
    <3>4. \A i \in DOMAIN listed : listed[i] = head \/ \E j \in DOMAIN rest : listed[i] = rest[j]
      BY <3>3 DEF HasBesides
    <3>5. \A i \in DOMAIN listed : Ready(st, listed[i]) /\ listed[i] \in Mp!Proxies
      BY <1>2, <2>2, <3>4 DEF head, rest
    <3>6. ASSUME NEW y \in Mp!Proxies, Ready(st, y) PROVE \E i \in DOMAIN listed : listed[i] = y
      <4>1. y = head \/ \E j \in DOMAIN rest : rest[j] = y
        BY <1>2, <3>6 DEF head, rest
      <4> QED
        BY <3>3, <4>1 DEF HasBesides
    <3> QED
      BY <3>3, <3>5, <3>6
  <2> QED
    BY <2>1, <2>2
<1> HIDE DEF listed
<1>4. Mp!IsInjective(listed)
  BY <1>3 DEF Once, Mp!IsInjective
<1>5. Mp!ToSet(listed) = {x \in Mp!Proxies : st.proxy[x].stage = "ready"}
  BY <1>3 DEF Mp!ToSet, Ready
<1>6. Mp!PlayersAreListedOnce
  BY <1>1, <1>4, <1>5 DEF Mp!PlayersAreListedOnce, listed
<1>7. Mp!KeysReachAPlayer
  BY <1>1, <1>2 DEF Mp!KeysReachAPlayer, MpInv, OwnedBut
<1>8. Mp!NoPlayerIsMissed
  BY DEF MpInv, Noticed, NoticedBut, Proxied, Mp!NoPlayerIsMissed
<1> QED
  BY <1>6, <1>7, <1>8

-------------------------------------------------------------------------------
(***************************************************************************)
(* The keys: the power button is disabled from the announcement of a suspend    *)
(* until the timer of the resume has run out, which no other key disturbs; and  *)
(* what the volume keys remember is a stream PulseAudio has.                    *)
(***************************************************************************)

\* The state is a record of these fields.  Of most of them nothing has to be known.
KeyStates(s) ==
  [may : {s.may}, out : {s.out}, sleeping : BOOLEAN, power_button_disabled : BOOLEAN, timer : BOOLEAN,
   inhibit_suspend_fd : {s.inhibit_suspend_fd}, inhibit_suspend_taken : {s.inhibit_suspend_taken},
   asked : {s.asked}, live : {s.live}, volume : {s.volume}, muted : {s.muted},
   max_volume : {s.max_volume}, sink : {s.sink}, source : {s.source}, streams : {s.streams},
   gtk : {s.gtk}, icon : {s.icon}, gtk_theme : {s.gtk_theme}, icon_theme : {s.icon_theme},
   on : {s.on}, text : {s.text}, mag : {s.mag}, has_accel : {s.has_accel},
   rfkill_proxy : {s.rfkill_proxy}, recent : {s.recent}, airplane : {s.airplane},
   setting : {s.setting}, conn : {s.conn}, requested : {s.requested}, device : {s.device},
   dialog : {s.dialog}, port : {s.port}]

LiveOrNone(s) == s.live \cup {Ma!None, Ma!Unknown}

StreamsLive(s) ==
  /\ s.sink \in LiveOrNone(s) /\ s.source \in LiveOrNone(s)
  /\ s.streams = [n \in Devnodes |-> s.streams[n]] /\ \A n \in Devnodes : s.streams[n] \in LiveOrNone(s)

\* The timer is of a resume: it is cleared by the next suspend.
ButtonSuppressed(s) ==
  /\ s.power_button_disabled = (s.sleeping \/ s.timer)
  /\ s.timer => ~s.sleeping

MaInv(s) == s \in KeyStates(s) /\ ButtonSuppressed(s) /\ StreamsLive(s)

SamePower(s, t) ==
  /\ t.sleeping = s.sleeping /\ t.power_button_disabled = s.power_button_disabled /\ t.timer = s.timer
SameStreams(s, t) ==
  /\ t.live = s.live /\ t.sink = s.sink /\ t.source = s.source /\ t.streams = s.streams

LEMMA SameMaInv ==
  ASSUME NEW s, NEW t, MaInv(s), t \in KeyStates(t), SamePower(s, t), SameStreams(s, t)
  PROVE  MaInv(t)
BY DEF MaInv, SamePower, SameStreams, ButtonSuppressed, StreamsLive, LiveOrNone

\* Whatever a key sets of the rest of the state.
LEMMA OneSet ==
  ASSUME NEW s, MaInv(s), NEW v
  PROVE  /\ MaInv([s EXCEPT !.out = v]) /\ MaInv([s EXCEPT !.volume = v])
         /\ MaInv([s EXCEPT !.max_volume = v]) /\ MaInv([s EXCEPT !.on = v])
         /\ MaInv([s EXCEPT !.text = v]) /\ MaInv([s EXCEPT !.mag = v])
         /\ MaInv([s EXCEPT !.has_accel = v]) /\ MaInv([s EXCEPT !.rfkill_proxy = v])
         /\ MaInv([s EXCEPT !.recent = v]) /\ MaInv([s EXCEPT !.airplane = v])
         /\ MaInv([s EXCEPT !.setting = v]) /\ MaInv([s EXCEPT !.dialog = v])
<1> DEFINE Kept(t) == t \in KeyStates(t) /\ SamePower(s, t) /\ SameStreams(s, t)
<1>0. s \in KeyStates(s)
  BY DEF MaInv
<1>1. \A t : Kept(t) => MaInv(t)
  BY SameMaInv
<1>2. /\ Kept([s EXCEPT !.out = v]) /\ Kept([s EXCEPT !.volume = v])
      /\ Kept([s EXCEPT !.max_volume = v]) /\ Kept([s EXCEPT !.on = v])
      /\ Kept([s EXCEPT !.text = v]) /\ Kept([s EXCEPT !.mag = v])
      /\ Kept([s EXCEPT !.has_accel = v]) /\ Kept([s EXCEPT !.rfkill_proxy = v])
  BY <1>0 DEF KeyStates, SamePower, SameStreams
<1>3. /\ Kept([s EXCEPT !.recent = v]) /\ Kept([s EXCEPT !.airplane = v])
      /\ Kept([s EXCEPT !.setting = v]) /\ Kept([s EXCEPT !.dialog = v])
  BY <1>0 DEF KeyStates, SamePower, SameStreams
<1> HIDE DEF Kept
<1> QED
  BY <1>1, <1>2, <1>3

LEMMA TwoSet ==
  ASSUME NEW s, MaInv(s), NEW v, NEW w
  PROVE  /\ MaInv([s EXCEPT !.volume = v, !.muted = w]) /\ MaInv([s EXCEPT !.max_volume = v, !.volume = w])
         /\ MaInv([s EXCEPT !.recent = v, !.setting = w])
         /\ MaInv([s EXCEPT !.airplane = v, !.setting = w])
         /\ MaInv([s EXCEPT !.conn = v, !.dialog = w]) /\ MaInv([s EXCEPT !.requested = v, !.dialog = w])
         /\ MaInv([s EXCEPT !.port = v, !.requested = w])
         /\ MaInv([s EXCEPT !.asked = v, !.inhibit_suspend_fd = w])
<1> DEFINE Kept(t) == t \in KeyStates(t) /\ SamePower(s, t) /\ SameStreams(s, t)
<1>0. s \in KeyStates(s)
  BY DEF MaInv
<1>1. \A t : Kept(t) => MaInv(t)
  BY SameMaInv
<1>2. /\ Kept([s EXCEPT !.volume = v, !.muted = w]) /\ Kept([s EXCEPT !.max_volume = v, !.volume = w])
      /\ Kept([s EXCEPT !.recent = v, !.setting = w])
      /\ Kept([s EXCEPT !.airplane = v, !.setting = w])
      /\ Kept([s EXCEPT !.conn = v, !.dialog = w]) /\ Kept([s EXCEPT !.requested = v, !.dialog = w])
  BY <1>0 DEF KeyStates, SamePower, SameStreams
<1>3. /\ Kept([s EXCEPT !.port = v, !.requested = w])
      /\ Kept([s EXCEPT !.asked = v, !.inhibit_suspend_fd = w])
  BY <1>0 DEF KeyStates, SamePower, SameStreams
<1> HIDE DEF Kept
<1> QED
  BY <1>1, <1>2, <1>3

LEMMA ThemesSet ==
  ASSUME NEW s, MaInv(s), NEW v, NEW w, NEW x, NEW y
  PROVE  /\ MaInv([s EXCEPT !.gtk = v, !.icon = w, !.gtk_theme = x, !.icon_theme = y])
<1> DEFINE Kept(t) == t \in KeyStates(t) /\ SamePower(s, t) /\ SameStreams(s, t)
<1>0. s \in KeyStates(s)
  BY DEF MaInv
<1>1. \A t : Kept(t) => MaInv(t)
  BY SameMaInv
<1>2. /\ Kept([s EXCEPT !.gtk = v, !.icon = w, !.gtk_theme = x, !.icon_theme = y])
  BY <1>0 DEF KeyStates, SamePower, SameStreams
<1> HIDE DEF Kept
<1> QED
  BY <1>1, <1>2

LEMMA DeviceSet ==
  ASSUME NEW s, MaInv(s), NEW v, NEW w, NEW x
  PROVE  /\ MaInv([s EXCEPT !.requested = v, !.device = w, !.dialog = x])
<1> DEFINE Kept(t) == t \in KeyStates(t) /\ SamePower(s, t) /\ SameStreams(s, t)
<1>0. s \in KeyStates(s)
  BY DEF MaInv
<1>1. \A t : Kept(t) => MaInv(t)
  BY SameMaInv
<1>2. /\ Kept([s EXCEPT !.requested = v, !.device = w, !.dialog = x])
  BY <1>0 DEF KeyStates, SamePower, SameStreams
<1> HIDE DEF Kept
<1> QED
  BY <1>1, <1>2

LEMMA VolumeInv ==
  ASSUME NEW s, MaInv(s), NEW stream, NEW type, NEW v
  PROVE  MaInv(Ma!OnStream(s, stream, type)) /\ MaInv(Ma!Does(s, v)) /\ MaInv(Ma!AllowAbove100(s))
<1>1. ASSUME NEW t, MaInv(t) PROVE MaInv(Ma!Does(t, v))
  BY <1>1, OneSet DEF Ma!Does
<1>2. MaInv(Ma!SoundAction(s, stream, type))
  <2> DEFINE volume == Ma!SoundAction(s, stream, type).volume
             t(w, m) == [s EXCEPT !.volume = w, !.muted = m]
  <2>1. \E w, m : Ma!SoundAction(s, stream, type) = Ma!Does(t(w, m), "osd")
    BY DEF Ma!SoundAction
  <2>2. \A w, m : MaInv(t(w, m))
    BY TwoSet
  <2>3. \A w, m : MaInv(Ma!Does(t(w, m), "osd"))
    <3> HIDE DEF t
    <3> QED
      BY <2>2, OneSet DEF Ma!Does
  <2> QED
    BY <2>1, <2>3
<1>3. MaInv(Ma!OnStream(s, stream, type))
  BY <1>2, OneSet DEF Ma!OnStream, Ma!Does
<1>4. MaInv(Ma!AllowAbove100(s))
  <2> DEFINE max == IF s.max_volume = VolumeNorm THEN VolumeUiMax ELSE VolumeNorm
  <2>1. \/ Ma!AllowAbove100(s) = [s EXCEPT !.max_volume = max]
        \/ \E w : Ma!AllowAbove100(s) = [s EXCEPT !.max_volume = max, !.volume = w]
    <3>1. s \in KeyStates(s)
      BY DEF MaInv
    <3> QED
      BY <3>1 DEF Ma!AllowAbove100, KeyStates
  <2> HIDE DEF max
  <2>2. MaInv([s EXCEPT !.max_volume = max])
    BY OneSet
  <2>3. \A w : MaInv([s EXCEPT !.max_volume = max, !.volume = w])
    BY TwoSet
  <2> QED
    BY <2>1, <2>2, <2>3
<1> QED
  BY <1>1, <1>3, <1>4

\* Whatever stream a device's key finds is one PulseAudio has.
LEMMA RememberedInv ==
  ASSUME NEW s, MaInv(s), NEW node \in Devnodes, NEW own \in LiveOrNone(s)
  PROVE  MaInv([s EXCEPT !.streams[node] = own])
<1> DEFINE streams == [s.streams EXCEPT ![node] = own]
           t == [s EXCEPT !.streams = streams]
<1>1. s \in KeyStates(s) /\ StreamsLive(s) /\ ButtonSuppressed(s)
  BY DEF MaInv
<1>2. [s EXCEPT !.streams[node] = own] = t
  BY <1>1 DEF KeyStates
<1>3. streams = [n \in Devnodes |-> streams[n]] /\ \A n \in Devnodes : streams[n] \in LiveOrNone(s)
  BY <1>1 DEF StreamsLive
<1> HIDE DEF streams
<1>4. t \in KeyStates(t) /\ SamePower(s, t) /\ t.streams = streams
      /\ t.live = s.live /\ t.sink = s.sink /\ t.source = s.source
  BY <1>1 DEF KeyStates, SamePower
<1> HIDE DEF t
<1>5. MaInv(t)
  BY <1>1, <1>3, <1>4 DEF MaInv, ButtonSuppressed, SamePower, StreamsLive, LiveOrNone
<1> QED
  BY <1>2, <1>5

LEMMA SoundKeyInv ==
  ASSUME NEW s, MaInv(s), NEW node \in Devnodes \cup {Ma!None}, NEW is_output, NEW type,
         NEW t \in Ma!SoundKey(s, node, is_output, type)
  PROVE  MaInv(t)
<1>1. ASSUME NEW own \in Ma!StreamsForNode(s, node, is_output), node \in Devnodes
      PROVE  own \in LiveOrNone(s)
  <2>1. \/ own = s.streams[node]
        \/ own \in s.live
        \/ own = Ma!None
    BY <1>1 DEF Ma!StreamsForNode
  <2> QED
    BY <1>1, <2>1 DEF MaInv, StreamsLive, LiveOrNone
<1>2. \/ \E stream : t = Ma!OnStream(s, stream, type)
      \/ /\ node \in Devnodes
         /\ \E own \in Ma!StreamsForNode(s, node, is_output) : \E stream :
              t = Ma!OnStream([s EXCEPT !.streams[node] = own], stream, type)
  BY DEF Ma!SoundKey
<1>3. CASE \E stream : t = Ma!OnStream(s, stream, type)
  BY <1>3, VolumeInv
<1>4. ASSUME NEW own \in Ma!StreamsForNode(s, node, is_output), NEW stream, node \in Devnodes,
             t = Ma!OnStream([s EXCEPT !.streams[node] = own], stream, type)
      PROVE  MaInv(t)
  <2> DEFINE r == [s EXCEPT !.streams[node] = own]
  <2>1. MaInv(r)
    BY <1>1, <1>4, RememberedInv
  <2>2. t = Ma!OnStream(r, stream, type)
    BY <1>4
  <2> HIDE DEF r
  <2> QED
    BY <2>1, <2>2, VolumeInv
<1> QED
  BY <1>2, <1>3, <1>4

LEMMA StreamsInv ==
  ASSUME MaInv(st), Ma!StreamAppears \/ Ma!StreamDisappears \/ Ma!DefaultChanged
  PROVE  MaInv(st')
<1>0. st \in KeyStates(st) /\ StreamsLive(st) /\ ButtonSuppressed(st)
  BY DEF MaInv
<1>1. CASE Ma!StreamAppears
  <2>1. PICK x : st' = [st EXCEPT !.live = @ \cup {x}]
    BY <1>1 DEF Ma!StreamAppears
  <2>2. st' \in KeyStates(st') /\ SamePower(st, st') /\ st'.live = st.live \cup {x}
        /\ st'.sink = st.sink /\ st'.source = st.source /\ st'.streams = st.streams
    BY <1>0, <2>1 DEF KeyStates, SamePower
  <2> QED
    BY <1>0, <2>2 DEF MaInv, ButtonSuppressed, SamePower, StreamsLive, LiveOrNone
<1>2. CASE Ma!StreamDisappears
  <2>1. PICK id \in st.live : st' = Ma!StreamRemoved(st, id)
    BY <1>2 DEF Ma!StreamDisappears
  <2> DEFINE live == st.live \ {id}
             sink == IF st.sink = id THEN Ma!None ELSE st.sink
             source == IF st.source = id THEN Ma!None ELSE st.source
             streams == [n \in Devnodes |-> IF st.streams[n] = id THEN Ma!Unknown ELSE st.streams[n]]
  <2>2. st' = [st EXCEPT !.live = live, !.sink = sink, !.source = source, !.streams = streams]
    BY <1>0, <2>1 DEF Ma!StreamRemoved, KeyStates
  <2>3. /\ sink \in live \cup {Ma!None, Ma!Unknown} /\ source \in live \cup {Ma!None, Ma!Unknown}
        /\ streams = [n \in Devnodes |-> streams[n]]
        /\ \A n \in Devnodes : streams[n] \in live \cup {Ma!None, Ma!Unknown}
    BY <1>0 DEF StreamsLive, LiveOrNone
  <2> HIDE DEF live, sink, source, streams
  <2>4. st' \in KeyStates(st') /\ SamePower(st, st') /\ st'.live = live
        /\ st'.sink = sink /\ st'.source = source /\ st'.streams = streams
    BY <1>0, <2>2 DEF KeyStates, SamePower
  <2> QED
    BY <1>0, <2>3, <2>4 DEF MaInv, ButtonSuppressed, SamePower, StreamsLive, LiveOrNone
<1>3. CASE Ma!DefaultChanged
  <2>1. PICK x \in st.live \cup {Ma!None} : \/ st' = [st EXCEPT !.sink = x]
                                            \/ st' = [st EXCEPT !.source = x]
    BY <1>3 DEF Ma!DefaultChanged
  <2>2. /\ st' \in KeyStates(st') /\ SamePower(st, st') /\ st'.live = st.live
        /\ st'.sink \in {x, st.sink} /\ st'.source \in {x, st.source} /\ st'.streams = st.streams
    BY <1>0, <2>1 DEF KeyStates, SamePower
  <2> QED
    BY <1>0, <2>2 DEF MaInv, ButtonSuppressed, SamePower, StreamsLive, LiveOrNone
<1> QED
  BY <1>1, <1>2, <1>3

LEMMA SleepInv ==
  ASSUME MaInv(st), Ma!PrepareForSleep \/ Ma!ReenablePowerButton
  PROVE  MaInv(st')
<1>0. st \in KeyStates(st) /\ StreamsLive(st) /\ ButtonSuppressed(st)
  BY DEF MaInv
<1>1. CASE Ma!ReenablePowerButton
  <2> DEFINE t == [st EXCEPT !.timer = FALSE, !.power_button_disabled = FALSE]
  <2>1. st.timer /\ st' = t /\ ~st.sleeping
    BY <1>0, <1>1 DEF Ma!ReenablePowerButton, ButtonSuppressed
  <2>2. t \in KeyStates(t) /\ SameStreams(st, t)
    BY <1>0 DEF KeyStates, SameStreams
  <2>3. t.sleeping = st.sleeping /\ t.timer = FALSE /\ t.power_button_disabled = FALSE
    BY <1>0 DEF KeyStates
  <2> HIDE DEF t
  <2>4. ButtonSuppressed(t)
    BY <2>1, <2>3 DEF ButtonSuppressed
  <2>5. MaInv(t)
    BY <1>0, <2>2, <2>4 DEF MaInv, SameStreams, StreamsLive, LiveOrNone
  <2> QED
    BY <2>1, <2>5
<1>2. CASE Ma!PrepareForSleep /\ st.sleeping
  <2> DEFINE s == [st EXCEPT !.sleeping = FALSE]
             t == Ma!InhibitSuspend(s)
  <2>1. st' = [t EXCEPT !.timer = TRUE]
    BY <1>2 DEF Ma!PrepareForSleep, Ma!Resumed
  <2>2. /\ s \in KeyStates(s) /\ SameStreams(st, s) /\ ~s.sleeping /\ s.power_button_disabled
    BY <1>0, <1>2 DEF KeyStates, SameStreams, ButtonSuppressed
  <2> HIDE DEF s
  <2>3. /\ t \in KeyStates(t) /\ SameStreams(s, t) /\ ~t.sleeping /\ t.power_button_disabled
    <3>1. t \in {s, [s EXCEPT !.inhibit_suspend_taken = TRUE, !.asked = TRUE]}
      BY DEF Ma!InhibitSuspend
    <3>2. CASE t = s
      BY <2>2, <3>2 DEF SameStreams
    <3>3. CASE t = [s EXCEPT !.inhibit_suspend_taken = TRUE, !.asked = TRUE]
      <4>1. t \in KeyStates(t) /\ SameStreams(s, t)
        BY <2>2, <3>3 DEF KeyStates, SameStreams
      <4>2. t.sleeping = s.sleeping /\ t.power_button_disabled = s.power_button_disabled
        BY <2>2, <3>3 DEF KeyStates
      <4> QED
        BY <2>2, <4>1, <4>2
    <3> QED
      BY <3>1, <3>2, <3>3
  <2> HIDE DEF t
  <2>4. /\ st' \in KeyStates(st') /\ SameStreams(t, st')
        /\ ~st'.sleeping /\ st'.power_button_disabled /\ st'.timer
    BY <2>1, <2>3 DEF KeyStates, SameStreams
  <2>5. SameStreams(st, st')
    BY <2>2, <2>3, <2>4 DEF SameStreams
  <2> QED
    BY <1>0, <2>4, <2>5 DEF MaInv, SameStreams, ButtonSuppressed, StreamsLive, LiveOrNone
<1>3. CASE Ma!PrepareForSleep /\ ~st.sleeping
  <2> DEFINE s == [st EXCEPT !.sleeping = TRUE, !.power_button_disabled = TRUE, !.timer = FALSE]
  <2>1. st' = Ma!UninhibitSuspend(s)
    BY <1>3 DEF Ma!PrepareForSleep, Ma!AboutToSuspend
  <2>2. /\ s \in KeyStates(s) /\ SameStreams(st, s)
        /\ s.sleeping /\ s.power_button_disabled /\ ~s.timer
    BY <1>0 DEF KeyStates, SameStreams
  <2> HIDE DEF s
  <2>3. /\ st' \in KeyStates(st') /\ SameStreams(s, st')
        /\ st'.sleeping /\ st'.power_button_disabled /\ ~st'.timer
    BY <2>1, <2>2 DEF KeyStates, SameStreams, Ma!UninhibitSuspend
  <2>4. SameStreams(st, st')
    BY <2>2, <2>3 DEF SameStreams
  <2> QED
    BY <1>0, <2>3, <2>4 DEF MaInv, SameStreams, ButtonSuppressed, StreamsLive, LiveOrNone
<1> QED
  BY <1>1, <1>2, <1>3

\* What a key starts, asks for or shows.
LEMMA DoesInv ==
  ASSUME NEW s, MaInv(s), NEW what
  PROVE  MaInv(Ma!Does(s, what))
BY OneSet DEF Ma!Does

LEMMA PowerKeysInv ==
  ASSUME MaInv(st), Ma!PowerKey \/ Ma!SuspendKey \/ Ma!RequestKey \/ Ma!DeviceKey \/ Ma!PlayerKey
  PROVE  MaInv(st')
<1>1. \A action, locked : MaInv(Ma!ConfigPowerAction(st, action, locked))
  BY DoesInv DEF Ma!ConfigPowerAction
<1>2. \A setting, vm, supported, locked : MaInv(Ma!PowerButton(st, setting, vm, supported, locked))
  <2> TAKE setting, vm, supported, locked
  <2> DEFINE action == IF supported THEN setting ELSE "interactive"
  <2>1. Ma!PowerButton(st, setting, vm, supported, locked)
          \in {Ma!Does(st, "none"), Ma!Does(st, "poweroff"), Ma!ConfigPowerAction(st, action, locked)}
    BY DEF Ma!PowerButton
  <2> HIDE DEF action
  <2> QED
    BY <1>1, <2>1, DoesInv
<1>3. CASE Ma!PowerKey
  BY <1>2, <1>3 DEF Ma!PowerKey
<1>4. CASE Ma!SuspendKey
  BY <1>1, <1>4 DEF Ma!SuspendKey
<1>5. CASE Ma!RequestKey
  BY <1>5, DoesInv DEF Ma!RequestKey
<1>6. CASE Ma!DeviceKey
  BY <1>6, DoesInv DEF Ma!DeviceKey
<1>7. CASE Ma!PlayerKey
  BY <1>7, DoesInv DEF Ma!PlayerKey
<1> QED
  BY <1>3, <1>4, <1>5, <1>6, <1>7

LEMMA VolumeKeyInv ==
  ASSUME MaInv(st), Ma!VolumeKey \/ Ma!SoundSettingChanged \/ Ma!VolumeChanged
  PROVE  MaInv(st')
<1>1. CASE Ma!VolumeKey
  <2>1. PICK node \in Devnodes \cup {Ma!None}, is_output \in BOOLEAN, type \in Ma!SoundKeys :
          st' \in Ma!SoundKey(st, node, is_output, type)
    BY <1>1 DEF Ma!VolumeKey
  <2> QED
    BY <2>1, SoundKeyInv
<1>2. CASE Ma!SoundSettingChanged
  BY <1>2, VolumeInv DEF Ma!SoundSettingChanged
<1>3. CASE Ma!VolumeChanged
  <2>1. st \in KeyStates(st)
    BY DEF MaInv
  <2>2. \E v : st' = [st EXCEPT !.volume = v]
    BY <1>3, <2>1 DEF Ma!VolumeChanged, KeyStates
  <2>3. \A v : MaInv([st EXCEPT !.volume = v])
    BY OneSet
  <2> QED
    BY <2>2, <2>3
<1> QED
  BY <1>1, <1>2, <1>3

LEMMA SettingsInv ==
  ASSUME MaInv(st), Ma!SettingKey \/ Ma!ThemeSettingChanged \/ Ma!SensorChanged
  PROVE  MaInv(st')
<1>0. st \in KeyStates(st)
  BY DEF MaInv
<1>1. \A gtk, icon : MaInv(Ma!ThemesChanged(st, gtk, icon))
  BY ThemesSet DEF Ma!ThemesChanged
<1>2. \A key : MaInv(Ma!Flip(st, key))
  BY <1>0, OneSet DEF Ma!Flip
<1>3. \A key : MaInv(Ma!ToggleKey(st, key))
  <2> TAKE key
  <2> DEFINE t == Ma!Flip(st, key)
  <2>1. Ma!ToggleKey(st, key) \in {Ma!Does(st, "none"), Ma!Does(t, "none"), Ma!Does(t, "osd")}
    BY DEF Ma!ToggleKey
  <2>2. MaInv(t)
    BY <1>2
  <2> HIDE DEF t
  <2> QED
    BY <2>1, <2>2, DoesInv
<1>4. CASE Ma!SettingKey
  <2>1. CASE st' = Ma!ToggleContrast(st)
    BY <1>1, <2>1 DEF Ma!ToggleContrast
  <2>2. CASE \E key \in Ma!Toggles : st' = Ma!ToggleKey(st, key)
    BY <1>3, <2>2
  <2>3. CASE \E up \in BOOLEAN : st' = Ma!TextSize(st, up)
    <3>1. \E v : st' = [st EXCEPT !.text = v]
      BY <1>0, <2>3 DEF Ma!TextSize, KeyStates
    <3>2. \A v : MaInv([st EXCEPT !.text = v])
      BY OneSet
    <3> QED
      BY <3>1, <3>2
  <2>4. CASE \E v : st' = [st EXCEPT !.mag = v]
    <3>1. \A v : MaInv([st EXCEPT !.mag = v])
      BY OneSet
    <3> QED
      BY <2>4, <3>1
  <2>5. (\E offset \in {-1, 1} : st' = [st EXCEPT !.mag = @ + offset]) => \E v : st' = [st EXCEPT !.mag = v]
    BY <1>0 DEF KeyStates
  <2> QED
    BY <1>4, <2>1, <2>2, <2>3, <2>4, <2>5 DEF Ma!SettingKey
<1>5. CASE Ma!ThemeSettingChanged
  BY <1>1, <1>5 DEF Ma!ThemeSettingChanged
<1>6. CASE Ma!SensorChanged
  <2>1. \E v : st' = [st EXCEPT !.has_accel = v]
    BY <1>0, <1>6 DEF Ma!SensorChanged, KeyStates
  <2>2. \A v : MaInv([st EXCEPT !.has_accel = v])
    BY OneSet
  <2> QED
    BY <2>1, <2>2
<1> QED
  BY <1>4, <1>5, <1>6

LEMMA AirplaneInv ==
  ASSUME MaInv(st),
         \/ Ma!AirplaneKey \/ Ma!RfkillAppears \/ Ma!SetRfkillComplete \/ Ma!SecondPasses
         \/ Ma!AirplaneChanged \/ Ma!InhibitDone
  PROVE  MaInv(st')
<1>0. st \in KeyStates(st)
  BY DEF MaInv
<1>1. MaInv([st EXCEPT !.recent = TRUE]) /\ MaInv([st EXCEPT !.recent = FALSE])
      /\ MaInv([st EXCEPT !.rfkill_proxy = TRUE]) /\ MaInv([st EXCEPT !.setting = "no"])
      /\ \A v : MaInv([st EXCEPT !.airplane = v])
  BY OneSet
<1>2. /\ \A w : MaInv([st EXCEPT !.recent = TRUE, !.setting = w])
      /\ \A v : MaInv([st EXCEPT !.airplane = v, !.setting = "no"])
      /\ \A v : MaInv([st EXCEPT !.asked = FALSE, !.inhibit_suspend_fd = v])
  BY TwoSet
<1>3. CASE Ma!AirplaneKey
  <2>1. \/ st' = st
        \/ st' = [st EXCEPT !.recent = TRUE]
        \/ st' = Ma!Does([st EXCEPT !.recent = TRUE], "hardware")
        \/ \E w : st' = Ma!Does([st EXCEPT !.recent = TRUE, !.setting = w], "rfkill")
    BY <1>3 DEF Ma!AirplaneKey, Ma!RfkillKey
  <2>2. MaInv(Ma!Does([st EXCEPT !.recent = TRUE], "hardware"))
    BY <1>1, DoesInv
  <2>3. \A w : MaInv(Ma!Does([st EXCEPT !.recent = TRUE, !.setting = w], "rfkill"))
    BY <1>2, DoesInv
  <2> QED
    BY <1>1, <2>1, <2>2, <2>3
<1>4. CASE Ma!RfkillAppears
  BY <1>1, <1>4 DEF Ma!RfkillAppears
<1>5. CASE Ma!SetRfkillComplete
  <2>1. \/ st' = [st EXCEPT !.setting = "no"]
        \/ \E v : st' = Ma!Does([st EXCEPT !.airplane = v, !.setting = "no"], "osd")
    BY <1>5 DEF Ma!SetRfkillComplete
  <2>2. \A v : MaInv(Ma!Does([st EXCEPT !.airplane = v, !.setting = "no"], "osd"))
    BY <1>2, DoesInv
  <2> QED
    BY <1>1, <2>1, <2>2
<1>6. CASE Ma!SecondPasses
  BY <1>1, <1>6 DEF Ma!SecondPasses
<1>7. CASE Ma!AirplaneChanged
  BY <1>0, <1>1, <1>7 DEF Ma!AirplaneChanged
<1>8. CASE Ma!InhibitDone
  <2>1. \E v : st' = [st EXCEPT !.asked = FALSE, !.inhibit_suspend_fd = v]
    BY <1>8 DEF Ma!InhibitDone
  <2> QED
    BY <1>2, <2>1
<1> QED
  BY <1>3, <1>4, <1>5, <1>6, <1>7, <1>8

LEMMA DialogInv ==
  ASSUME MaInv(st), Ma!ShellDialogs \/ Ma!HeadsetPlugged \/ Ma!DeviceSelected
  PROVE  MaInv(st')
<1>0. st \in KeyStates(st)
  BY DEF MaInv
<1>3. CASE Ma!ShellDialogs
  <2>1. \E v : st' = [st EXCEPT !.conn = v, !.dialog = 0]
    BY <1>0, <1>3 DEF Ma!ShellDialogs, KeyStates
  <2>2. \A v : MaInv([st EXCEPT !.conn = v, !.dialog = 0])
    BY TwoSet
  <2> QED
    BY <2>1, <2>2
<1>4. CASE Ma!HeadsetPlugged
  <2>1. PICK id, show : st' = Ma!SelectionNeeded(st, id, show)
    BY <1>4 DEF Ma!HeadsetPlugged
  <2> DEFINE closed == IF st.requested THEN [st EXCEPT !.requested = FALSE, !.dialog = 0] ELSE st
  <2>2. MaInv(closed)
    <3>1. MaInv([st EXCEPT !.requested = FALSE, !.dialog = 0])
      BY TwoSet
    <3> QED
      BY <3>1
  <2>3. st' \in {st, closed, [closed EXCEPT !.requested = TRUE, !.device = id, !.dialog = id]}
    BY <2>1 DEF Ma!SelectionNeeded
  <2> HIDE DEF closed
  <2>4. MaInv([closed EXCEPT !.requested = TRUE, !.device = id, !.dialog = id])
    BY <2>2, DeviceSet
  <2> QED
    BY <2>2, <2>3, <2>4
<1>5. CASE Ma!DeviceSelected
  <2> DEFINE t == [st EXCEPT !.dialog = 0]
  <2>1. st' \in {t, Ma!SelectionDone(t)}
    BY <1>5 DEF Ma!DeviceSelected
  <2>2. MaInv(t)
    BY OneSet
  <2> HIDE DEF t
  <2>3. \A v : MaInv([t EXCEPT !.port = v, !.requested = FALSE])
    BY <2>2, TwoSet
  <2>4. Ma!SelectionDone(t) = t \/ \E v : Ma!SelectionDone(t) = [t EXCEPT !.port = v, !.requested = FALSE]
    BY DEF Ma!SelectionDone
  <2> QED
    BY <2>1, <2>2, <2>3, <2>4
<1> QED
  BY <1>3, <1>4, <1>5

LEMMA MaNextInv == ASSUME MaInv(st), [Ma!MaNext]_st PROVE MaInv(st')
<1>1. CASE UNCHANGED st
  BY <1>1
<1> QED
  BY <1>1, PowerKeysInv, VolumeKeyInv, SettingsInv, AirplaneInv, DialogInv, StreamsInv, SleepInv
     DEF Ma!MaNext

LEMMA MaInitInv == ASSUME Ma!MaInit PROVE MaInv(st)
<1>1. st \in KeyStates(st)
  BY DEF Ma!MaInit, KeyStates
<1>2. /\ st.sink = Ma!None /\ st.source = Ma!None /\ ~st.sleeping /\ ~st.timer
    /\ ~st.power_button_disabled /\ st.streams = [n \in Devnodes |-> Ma!Unknown]
  BY DEF Ma!MaInit
<1>3. st.streams = [n \in Devnodes |-> st.streams[n]] /\ \A n \in Devnodes : st.streams[n] = Ma!Unknown
  BY <1>2
<1> QED
  <2>1. StreamsLive(st)
    BY <1>2, <1>3 DEF StreamsLive, LiveOrNone
  <2>2. ButtonSuppressed(st)
    <3> DEFINE b == st.power_button_disabled
               c == st.sleeping \/ st.timer
    <3>1. b = FALSE /\ c = FALSE
      BY <1>2
    <3>2. st.timer => ~st.sleeping
      BY <1>2
    <3> HIDE DEF b, c
    <3>3. b = c
      BY <3>1
    <3> QED
      BY <3>2, <3>3 DEF ButtonSuppressed, b, c
  <2> QED
    BY <1>1, <2>1, <2>2 DEF MaInv

LEMMA MaInvFollows == ASSUME MaInv(st) PROVE Ma!PowerButtonIsSuppressed /\ Ma!StreamsAreLive
BY DEF MaInv, ButtonSuppressed, StreamsLive, LiveOrNone, Ma!PowerButtonIsSuppressed, Ma!StreamsAreLive

\* No player that runs is missed, and each that is ready is listed once; a media
\* key goes to a player that runs, or to one that left while its proxy was made
\* (mpris-controller.c); the power button that woke the machine does nothing
\* until the timer of the resume has run out, and no volume or microphone key acts
\* on a stream that PulseAudio has removed (logind_proxy_signal_cb,
\* reenable_power_button_timer_cb and on_control_stream_removed of
\* gsd-media-keys-manager.c).
THEOREM MediaKeysCorrect == SessionSpec => []MediaKeysReach
<1> DEFINE Inv == /\ daemon = "players" => MpInv(st)
                  /\ daemon = "media_keys" => MaInv(st)
<1>1. SessionInit => Inv
  BY MpInitInv, MaInitInv DEF SessionInit
<1>2. Inv /\ [SessionNext]_vars => Inv'
  <2> SUFFICES ASSUME Inv, [SessionNext]_vars
               PROVE  /\ (daemon = "players")' => MpInv(st')
                      /\ (daemon = "media_keys")' => MaInv(st')
    OBVIOUS
  <2>1. /\ (daemon = "players")' => daemon = "players" /\ [Mp!MpNext]_st
        /\ (daemon = "media_keys")' => daemon = "media_keys" /\ [Ma!MaNext]_st
    BY DEF SessionNext, Of, vars
  <2> QED
    BY <2>1, MpNextInv, MaNextInv
<1>3. Inv => MediaKeysReach
  BY MpInvFollows, MaInvFollows DEF MediaKeysReach
<1> QED
  BY <1>1, <1>2, <1>3, PTL DEF SessionSpec

-------------------------------------------------------------------------------
(***************************************************************************)
(* Thumbnails.  Their sizes are added up by a fold over a set of names: what  *)
(* is left when some are taken away is the difference, in whatever order the  *)
(* fold takes the names.                                                      *)
(***************************************************************************)

\* A finite set and its subsets.
LEMMA SubsetsOps ==
  ASSUME NEW S, IsFiniteSet(S)
  PROVE  /\ Cardinality(S) \in Nat
         /\ \A T \in SUBSET S : /\ IsFiniteSet(T) /\ Cardinality(T) \in Nat
                                /\ Cardinality(T) <= Cardinality(S)
                                /\ Cardinality(T) = 0 <=> T = {}
                                /\ \A x \in T : Cardinality(T \ {x}) = Cardinality(T) - 1
<1>1. \A T \in SUBSET S : IsFiniteSet(T) /\ Cardinality(T) <= Cardinality(S)
  BY FS_Subset
<1>2. \A T : IsFiniteSet(T) => Cardinality(T) \in Nat
  BY FS_CardinalityType
<1>3. \A T : IsFiniteSet(T) => \A x \in T : Cardinality(T \ {x}) = Cardinality(T) - 1
  BY FS_RemoveElement
<1>4. \A T : IsFiniteSet(T) => (Cardinality(T) = 0 <=> T = {})
  BY FS_EmptySet
<1> QED
  BY <1>1, <1>2, <1>3, <1>4

\* The sums of the sizes of the sets below S, as the fold defines them.
TheOne(s) == CHOOSE x \in s : TRUE
AddedUp(s, g) == IF s = {} THEN 0 ELSE Thumbs[TheOne(s)] + g[s \ {TheOne(s)}]
IsSum(S, g) == g = [s \in SUBSET S |-> AddedUp(s, g)]

LEMMA TheOneIn == ASSUME NEW s, s # {} PROVE TheOne(s) \in s
BY DEF TheOne

LEMMA SumExists ==
  ASSUME NEW S, IsFiniteSet(S)
  PROVE  \E g : IsSum(S, g)
<1> DEFINE UpTo(n) == {s \in SUBSET S : Cardinality(s) <= n}
           Sums(n, g) == g = [s \in UpTo(n) |-> AddedUp(s, g)]
           N == {n \in Nat : \E g : Sums(n, g)}
<1>1. 0 \in N
  <2> DEFINE g == [s \in UpTo(0) |-> 0]
  <2>1. \A s \in UpTo(0) : s = {}
    BY SubsetsOps
  <2>2. Sums(0, g)
    BY <2>1 DEF AddedUp
  <2> HIDE DEF g, Sums
  <2> QED
    BY <2>2
<1>2. ASSUME NEW n \in N PROVE n + 1 \in N
  <2>1. PICK g : Sums(n, g)
    OBVIOUS
  <2> DEFINE h == [s \in UpTo(n + 1) |-> AddedUp(s, g)]
  <2>2. \A s \in UpTo(n) : s \in UpTo(n + 1) /\ h[s] = g[s]
    <3>1. \A s \in UpTo(n) : s \in UpTo(n + 1)
      BY SubsetsOps
    <3>2. \A s \in UpTo(n) : g[s] = AddedUp(s, g)
      BY <2>1
    <3> HIDE DEF UpTo
    <3> QED
      BY <3>1, <3>2
  <2>3. \A s \in UpTo(n + 1) : s # {} => s \ {TheOne(s)} \in UpTo(n)
    BY SubsetsOps, TheOneIn
  <2>4. \A s \in UpTo(n + 1) : AddedUp(s, g) = AddedUp(s, h)
    <3> HIDE DEF UpTo, h
    <3> QED
      BY <2>2, <2>3 DEF AddedUp
  <2>5. Sums(n + 1, h)
    BY <2>4
  <2> HIDE DEF h, Sums
  <2> QED
    BY <2>5
<1>3. N = Nat
  <2>1. N \in SUBSET Nat
    OBVIOUS
  <2> HIDE DEF N
  <2> QED
    BY <1>1, <1>2, <2>1, NumbersInduction
<1>4. UpTo(Cardinality(S)) = SUBSET S
  BY SubsetsOps
<1>5. PICK g : Sums(Cardinality(S), g)
  BY <1>3, SubsetsOps
<1>6. IsSum(S, g)
  BY <1>4, <1>5 DEF IsSum
<1> QED
  BY <1>6

LEMMA SizeIsSum ==
  ASSUME NEW S, IsFiniteSet(S)
  PROVE  \E g : IsSum(S, g) /\ Hk!Size(S) = g[S]
<1> DEFINE g == CHOOSE g : IsSum(S, g)
<1>1. IsSum(S, g)
  BY SumExists
<1>2. Hk!Size(S) = g[S]
  BY DEF Hk!Size, Hk!MapThenSumSet, Hk!MapThenFoldSet, IsSum, AddedUp, TheOne
<1> HIDE DEF g
<1> QED
  BY <1>1, <1>2

\* Any element may be the first that is added.
AnyFirst(S, g) ==
  /\ g[{}] = 0
  /\ \A T \in SUBSET S : g[T] \in Nat /\ \A x \in T : g[T] = Thumbs[x] + g[T \ {x}]

LEMMA SumOps ==
  ASSUME NEW S \in SUBSET DOMAIN Thumbs, IsFiniteSet(S), NEW g, IsSum(S, g)
  PROVE  AnyFirst(S, g)
<1> DEFINE Adds(T) == /\ g[T] \in Nat
                      /\ \A x \in T : g[T \ {x}] \in Nat /\ g[T] = Thumbs[x] + g[T \ {x}]
           N == {n \in Nat : \A T \in SUBSET S : Cardinality(T) = n => Adds(T)}
<1>0. \A T \in SUBSET S : g[T] = AddedUp(T, g)
  BY DEF IsSum
<1>7. \A x \in S : Thumbs[x] \in Nat
  BY ThumbsAssumption
<1>1. g[{}] = 0
  BY <1>0 DEF AddedUp
<1>2. 0 \in N
  <2>1. Adds({})
    BY <1>1
  <2>2. \A T \in SUBSET S : Cardinality(T) = 0 => T = {}
    BY SubsetsOps
  <2> QED
    BY <2>1, <2>2
<1>3. ASSUME NEW n \in N PROVE n + 1 \in N
  <2> SUFFICES ASSUME NEW T \in SUBSET S, Cardinality(T) = n + 1 PROVE Adds(T)
    OBVIOUS
  <2> DEFINE c == TheOne(T)
  <2>1. T # {} /\ \A x \in T : T \ {x} \in SUBSET S /\ Cardinality(T \ {x}) = n
    BY SubsetsOps
  <2>2. \A x \in T : Adds(T \ {x})
    BY <2>1
  <2>3. c \in T
    BY <2>1, TheOneIn
  <2>4. g[T] = Thumbs[c] + g[T \ {c}]
    BY <1>0, <2>1 DEF AddedUp
  <2> HIDE DEF c
  <2>5. \A x \in T : g[T \ {x}] \in Nat /\ Thumbs[x] \in Nat
    BY <1>7, <2>2
  <2>6. g[T] \in Nat
    BY <2>3, <2>4, <2>5
  <2>7. ASSUME NEW x \in T, x # c PROVE g[T] = Thumbs[x] + g[T \ {x}]
    <3> DEFINE r == (T \ {c}) \ {x}
    <3>1. g[r] \in Nat /\ g[T \ {c}] = Thumbs[x] + g[r]
      BY <2>2, <2>3, <2>7
    <3>2. g[T \ {x}] = Thumbs[c] + g[r]
      <4>1. (T \ {x}) \ {c} = r
        OBVIOUS
      <4>2. g[T \ {x}] = Thumbs[c] + g[(T \ {x}) \ {c}]
        BY <2>2, <2>3, <2>7
      <4> QED
        BY <4>1, <4>2
    <3>3. /\ Thumbs[x] \in Nat /\ Thumbs[c] \in Nat
          /\ g[T \ {c}] \in Nat /\ g[T \ {x}] \in Nat /\ g[T] = Thumbs[c] + g[T \ {c}]
      BY <2>3, <2>4, <2>5
    <3> HIDE DEF r, c
    <3> QED
      BY <3>1, <3>2, <3>3
  <2> QED
    BY <2>4, <2>5, <2>6, <2>7
<1>4. N = Nat
  <2>1. N \in SUBSET Nat
    OBVIOUS
  <2> HIDE DEF N
  <2> QED
    BY <1>2, <1>3, <2>1, NumbersInduction
<1>6. \A T \in SUBSET S : Adds(T)
  BY <1>4, SubsetsOps
<1> QED
  BY <1>1, <1>6 DEF AnyFirst

LEMMA SumsAgree ==
  ASSUME NEW S, IsFiniteSet(S), NEW g, IsSum(S, g),
         NEW R \in SUBSET S, NEW h, IsSum(R, h)
  PROVE  g[R] = h[R]
<1> DEFINE N == {n \in Nat : \A T \in SUBSET R : Cardinality(T) = n => g[T] = h[T]}
<1>0. \A T \in SUBSET R : T \in SUBSET S /\ g[T] = AddedUp(T, g) /\ h[T] = AddedUp(T, h)
  BY DEF IsSum
<1>1. 0 \in N
  <2>1. \A T \in SUBSET R : Cardinality(T) = 0 => T = {}
    BY <1>0, SubsetsOps
  <2>2. g[{}] = h[{}]
    BY <1>0 DEF AddedUp
  <2> QED
    BY <2>1, <2>2
<1>2. ASSUME NEW n \in N PROVE n + 1 \in N
  <2> SUFFICES ASSUME NEW T \in SUBSET R, Cardinality(T) = n + 1 PROVE g[T] = h[T]
    OBVIOUS
  <2>1. T # {} /\ TheOne(T) \in T /\ Cardinality(T \ {TheOne(T)}) = n
    <3>1. T # {}
      BY <1>0, SubsetsOps
    <3>2. TheOne(T) \in T
      BY <3>1, TheOneIn
    <3>3. \A x \in T : Cardinality(T \ {x}) = n
      BY <1>0, SubsetsOps
    <3> QED
      BY <3>1, <3>2, <3>3
  <2>2. g[T \ {TheOne(T)}] = h[T \ {TheOne(T)}]
    BY <2>1
  <2> QED
    BY <1>0, <2>1, <2>2 DEF AddedUp
<1>3. N = Nat
  <2>1. N \in SUBSET Nat
    OBVIOUS
  <2> HIDE DEF N
  <2> QED
    BY <1>1, <1>2, <2>1, NumbersInduction
<1>4. Cardinality(R) \in Nat
  BY SubsetsOps
<1> QED
  BY <1>3, <1>4

LEMMA SizeOps ==
  /\ Hk!Size({}) = 0
  /\ \A S \in SUBSET DOMAIN Thumbs :
       Hk!Size(S) \in Nat /\ \A x \in S : Hk!Size(S) = Thumbs[x] + Hk!Size(S \ {x})
<1>1. \A S \in SUBSET DOMAIN Thumbs : IsFiniteSet(S)
  BY FS_Subset, ThumbsAssumption
<1>2. ASSUME NEW S \in SUBSET DOMAIN Thumbs, NEW R \in SUBSET S, NEW g, IsSum(S, g)
      PROVE  Hk!Size(R) = g[R]
  <2>1. PICK h : IsSum(R, h) /\ Hk!Size(R) = h[R]
    BY <1>1, SizeIsSum
  <2> QED
    BY <1>1, <1>2, <2>1, SumsAgree
<1>3. ASSUME NEW S \in SUBSET DOMAIN Thumbs
      PROVE  /\ Hk!Size({}) = 0 /\ Hk!Size(S) \in Nat
             /\ \A x \in S : Hk!Size(S) = Thumbs[x] + Hk!Size(S \ {x})
  <2>1. PICK g : IsSum(S, g)
    BY <1>1, SumExists
  <2>2. /\ g[{}] = 0 /\ g[S] \in Nat /\ \A x \in S : g[S] = Thumbs[x] + g[S \ {x}]
    <3>1. IsFiniteSet(S) /\ S \in SUBSET S
      BY <1>1
    <3>2. AnyFirst(S, g)
      BY <2>1, <3>1, SumOps
    <3> QED
      BY <3>1, <3>2 DEF AnyFirst
  <2>3. Hk!Size({}) = g[{}] /\ Hk!Size(S) = g[S] /\ \A x \in S : Hk!Size(S \ {x}) = g[S \ {x}]
    BY <1>2, <2>1
  <2> QED
    BY <2>2, <2>3
<1> QED
  BY <1>3

\* What is left when some are taken away.
LEMMA SizeWithout ==
  ASSUME NEW A \in SUBSET DOMAIN Thumbs, NEW B \in SUBSET A
  PROVE  Hk!Size(A \ B) = Hk!Size(A) - Hk!Size(B)
<1> DEFINE Differs(T) == Hk!Size(A \ T) = Hk!Size(A) - Hk!Size(T)
           N == {n \in Nat : \A T \in SUBSET A : Cardinality(T) = n => Differs(T)}
<1>0. IsFiniteSet(A)
  BY FS_Subset, ThumbsAssumption
<1>1. 0 \in N
  <2>1. \A T \in SUBSET A : Cardinality(T) = 0 => T = {}
    BY <1>0, SubsetsOps
  <2>2. A \ {} = A /\ Hk!Size({}) = 0 /\ Hk!Size(A) \in Nat
    BY SizeOps
  <2> QED
    BY <2>1, <2>2
<1>2. ASSUME NEW n \in N PROVE n + 1 \in N
  <2> SUFFICES ASSUME NEW T \in SUBSET A, Cardinality(T) = n + 1 PROVE Differs(T)
    OBVIOUS
  <2>1. T # {} /\ \A x \in T : Cardinality(T \ {x}) = n
    BY <1>0, SubsetsOps
  <2>2. PICK x \in T : TRUE
    BY <2>1
  <2> DEFINE U == T \ {x}
  <2>3. U \in SUBSET A /\ Cardinality(U) = n /\ x \in A \ U /\ (A \ U) \ {x} = A \ T
    BY <2>1, <2>2
  <2>4. Differs(U)
    BY <2>3
  <2>5. Hk!Size(A \ U) = Thumbs[x] + Hk!Size(A \ T)
    <3>1. A \ U \in SUBSET DOMAIN Thumbs
      OBVIOUS
    <3> HIDE DEF U
    <3>2. Hk!Size(A \ U) = Thumbs[x] + Hk!Size((A \ U) \ {x})
      BY <2>3, <3>1, SizeOps
    <3> QED
      BY <2>3, <3>2
  <2>6. Hk!Size(T) = Thumbs[x] + Hk!Size(U)
    BY <2>2, SizeOps
  <2>7. /\ Hk!Size(A) \in Nat /\ Hk!Size(U) \in Nat /\ Hk!Size(A \ T) \in Nat
        /\ Thumbs[x] \in Nat /\ Hk!Size(T) \in Nat
    <3>1. A \ T \in SUBSET DOMAIN Thumbs /\ U \in SUBSET DOMAIN Thumbs /\ T \in SUBSET DOMAIN Thumbs
      OBVIOUS
    <3>2. Thumbs[x] \in Nat
      BY ThumbsAssumption
    <3> HIDE DEF U
    <3> QED
      BY <3>1, <3>2, SizeOps
  <2> HIDE DEF U
  <2> QED
    BY <2>4, <2>5, <2>6, <2>7
<1>3. N = Nat
  <2>1. N \in SUBSET Nat
    OBVIOUS
  <2> HIDE DEF N
  <2> QED
    BY <1>1, <1>2, <2>1, NumbersInduction
<1>4. Cardinality(B) \in Nat
  BY <1>0, SubsetsOps
<1> QED
  BY <1>3, <1>4

\* The state is a record of these fields.  Of the settings and the timers
\* nothing has to be known.
HouseStates(s) ==
  [may : {s.may}, phase : {s.phase}, there : SUBSET DOMAIN Thumbs, time : {s.time},
   max_age : Int, max_size : Int, changed : {s.changed}, short_term_cb : {s.short_term_cb},
   long_term_cb : {s.long_term_cb}, cleaned : {s.cleaned}, now : {s.now}, session : {s.session},
   stopped_apps : {s.stopped_apps}, donations : {s.donations}, reminder : {s.reminder},
   last_shown : {s.last_shown}, notification : {s.notification}]

HkInv(s) ==
  /\ s \in HouseStates(s)
  /\ s.cleaned /\ s.max_age >= 0 => Hk!WithinLimits(s)

\* What is cleaned by, or was, is as it was.
SameLimits(s, t) ==
  /\ t.time = s.time /\ t.max_age = s.max_age /\ t.max_size = s.max_size /\ t.now = s.now

LEMMA SameHkInv ==
  ASSUME NEW s, NEW t, HkInv(s), t \in HouseStates(t), SameLimits(s, t),
         t.there = s.there, t.cleaned = s.cleaned
  PROVE  HkInv(t)
BY DEF HkInv, SameLimits, Hk!WithinLimits, Hk!TooOld

\* An order of the thumbnails has them all.
LEMMA ThumbOrders ==
  ASSUME NEW kept \in SUBSET DOMAIN Thumbs, NEW order \in Hk!SetToSeqs(kept)
  PROVE  /\ Len(order) \in Nat
         /\ \A k \in 0 .. Len(order) : Hk!ToSet(SubSeq(order, 1, k)) \in SUBSET kept
         /\ Hk!ToSet(SubSeq(order, 1, Len(order))) = kept
<1> DEFINE n == Cardinality(kept)
<1>1. IsFiniteSet(kept)
  BY FS_Subset, ThumbsAssumption
<1>2. n \in Nat
  BY <1>1, FS_CardinalityType
<1>3. /\ order \in [1 .. n -> kept]
      /\ \A i, j \in 1 .. n : i # j => order[i] # order[j]
  <2>1. Hk!SetToSeqs(kept) = {f \in [1 .. n -> kept] : \A i, j \in 1 .. n : i # j => f[i] # f[j]}
    <3>1. Hk!Cardinality(kept) = n
      BY DEF Hk!Cardinality, Cardinality
    <3> QED
      BY <3>1 DEF Hk!SetToSeqs
  <2> HIDE DEF n
  <2> QED
    BY <2>1
<1> HIDE DEF n
<1>4. order \in Seq(kept) /\ Len(order) = n
  BY <1>2, <1>3
<1>5. \A x \in kept : \E i \in 1 .. n : order[i] = x
  <2>1. order \in Injection(1 .. n, kept)
    BY <1>3 DEF Injection, IsInjective
  <2>2. Cardinality(1 .. n) = n
    BY <1>2, FS_Interval
  <2>3. order \in Surjection(1 .. n, kept)
    BY <1>1, <2>1, <2>2, FS_Injection DEF n
  <2> QED
    BY <2>3 DEF Surjection
<1>6. ASSUME NEW k \in 0 .. Len(order) PROVE Hk!ToSet(SubSeq(order, 1, k)) \in SUBSET kept
  BY <1>2, <1>4 DEF Hk!ToSet
<1>7. SubSeq(order, 1, Len(order)) = order
  BY <1>2, <1>4
<1>8. Hk!ToSet(order) = kept
  BY <1>3, <1>4, <1>5 DEF Hk!ToSet
<1> QED
  BY <1>2, <1>4, <1>6, <1>7, <1>8

\* Thumbnails go until the rest fits.
LEMMA SurvivorsFit ==
  ASSUME NEW s, s.max_size \in Int, s.max_size >= 0,
         NEW kept \in SUBSET DOMAIN Thumbs, NEW order \in Hk!SetToSeqs(kept)
  PROVE  LET rest == Hk!Survivors(s, kept, order, Hk!Size(kept))
         IN rest \in SUBSET kept /\ Hk!Size(rest) <= s.max_size
<1> DEFINE Taken(k) == Hk!ToSet(SubSeq(order, 1, k))
           enough == {k \in 0 .. Len(order) : Hk!Size(kept) - Hk!Size(Taken(k)) <= s.max_size}
           m == IF enough = {} THEN Len(order) ELSE Hk!Min(enough)
<1>1. Hk!Survivors(s, kept, order, Hk!Size(kept)) = kept \ Taken(m)
  BY DEF Hk!Survivors
<1>2. /\ Len(order) \in Nat /\ Taken(Len(order)) = kept
      /\ \A k \in 0 .. Len(order) : Taken(k) \in SUBSET kept
  BY ThumbOrders
<1> HIDE DEF Taken
<1>3. Len(order) \in enough
  <2>1. Hk!Size(kept) \in Nat
    BY SizeOps
  <2>2. Hk!Size(kept) - Hk!Size(Taken(Len(order))) = 0
    BY <1>2, <2>1
  <2> QED
    BY <1>2, <2>2
<1>4. m \in enough
  <2>1. enough \in SUBSET Nat /\ enough # {}
    BY <1>2, <1>3
  <2>2. m = Hk!Min(enough)
    BY <1>3
  <2> HIDE DEF enough
  <2>3. \E n \in enough : \A k \in enough : n <= k
    BY <2>1, LeastElement
  <2> QED
    BY <2>2, <2>3 DEF Hk!Min
<1> HIDE DEF m
<1>5. Taken(m) \in SUBSET kept /\ Hk!Size(kept) - Hk!Size(Taken(m)) <= s.max_size
  BY <1>2, <1>4
<1>6. Hk!Size(kept \ Taken(m)) = Hk!Size(kept) - Hk!Size(Taken(m))
  BY <1>5, SizeWithout
<1> QED
  BY <1>1, <1>5, <1>6

LEMMA CleanupInv ==
  ASSUME NEW s, s \in HouseStates(s), NEW t \in Hk!Cleanup(s)
  PROVE  HkInv(t) /\ t \in HouseStates(t)
<1> DEFINE kept  == IF s.max_age < 0 THEN s.there ELSE {n \in s.there : ~Hk!TooOld(s, n)}
           total == Hk!Counted(s, kept)
           After(names) == [s EXCEPT !.there = names, !.cleaned = TRUE]
<1>1. kept \in SUBSET DOMAIN Thumbs /\ s.there \in SUBSET DOMAIN Thumbs
      /\ s.max_age \in Int /\ s.max_size \in Int
  BY DEF HouseStates
<1>2. \A names \in SUBSET DOMAIN Thumbs :
        /\ After(names) \in HouseStates(After(names)) /\ SameLimits(s, After(names))
        /\ After(names).there = names
  BY DEF HouseStates, SameLimits
<1>3. \/ s.max_age < 0 /\ s.max_size < 0 /\ t = After(s.there)
      \/ (s.max_size < 0 \/ total <= s.max_size) /\ t = After(kept)
      \/ /\ ~ (s.max_size < 0) /\ ~ (total <= s.max_size)
         /\ \E order \in Hk!Orders(s, kept) : t = After(Hk!Survivors(s, kept, order, total))
  BY DEF Hk!Cleanup
<1> HIDE DEF After
<1>4. CASE s.max_age < 0
  <2>1. \E names \in SUBSET DOMAIN Thumbs : t = After(names)
    <3>1. total = 0
      BY <1>4 DEF Hk!Counted
    <3> HIDE DEF total, kept
    <3> QED
      BY <1>1, <1>3, <3>1
  <2>2. t \in HouseStates(t) /\ t.max_age = s.max_age
    BY <1>2, <2>1 DEF SameLimits
  <2> QED
    BY <1>1, <1>4, <2>2 DEF HkInv
<1>5. CASE s.max_age >= 0
  <2>1. total = Hk!Size(kept) /\ \A n \in kept : ~Hk!TooOld(s, n)
    BY <1>1, <1>5 DEF Hk!Counted
  <2>2. ~ (s.max_age < 0)
    BY <1>1, <1>5
  <2> HIDE DEF total, kept
  <2>3. \E names \in SUBSET kept : t = After(names) /\ (s.max_size >= 0 => Hk!Size(names) <= s.max_size)
    <3>1. CASE (s.max_size < 0 \/ total <= s.max_size) /\ t = After(kept)
      BY <1>1, <2>1, <3>1
    <3>2. CASE ~ (s.max_size < 0) /\ \E order \in Hk!Orders(s, kept) : t = After(Hk!Survivors(s, kept, order, total))
      <4>1. s.max_size >= 0
        BY <1>1, <3>2
      <4>2. PICK order \in Hk!Orders(s, kept) : t = After(Hk!Survivors(s, kept, order, total))
        BY <3>2
      <4>3. order \in Hk!SetToSeqs(kept)
        BY DEF Hk!Orders
      <4> DEFINE rest == Hk!Survivors(s, kept, order, total)
      <4>4. rest \in SUBSET kept /\ Hk!Size(rest) <= s.max_size
        BY <1>1, <2>1, <4>1, <4>3, SurvivorsFit
      <4> HIDE DEF rest
      <4>5. t = After(rest)
        BY <4>2 DEF rest
      <4> QED
        BY <4>4, <4>5
    <3> QED
      BY <1>3, <2>2, <3>1, <3>2
  <2>4. PICK names \in SUBSET kept : t = After(names) /\ (s.max_size >= 0 => Hk!Size(names) <= s.max_size)
    BY <2>3
  <2>5. t \in HouseStates(t) /\ SameLimits(s, t) /\ t.there = names
    BY <1>1, <1>2, <2>4
  <2>6. Hk!WithinLimits(t)
    BY <2>1, <2>4, <2>5 DEF Hk!WithinLimits, SameLimits, Hk!TooOld
  <2> QED
    BY <2>5, <2>6 DEF HkInv
<1> QED
  BY <1>1, <1>4, <1>5

LEMMA HkNextInv ==
  ASSUME HkInv(st), [Hk!HkNext]_st
  PROVE  HkInv(st')
<1>0. st \in HouseStates(st)
  BY DEF HkInv
<1>1. CASE Hk!DoCleanupOnce
  <2>1. PICK s \in Hk!Cleanup(st) : st' = [s EXCEPT !.short_term_cb = FALSE]
    BY <1>1 DEF Hk!DoCleanupOnce
  <2>2. HkInv(s) /\ s \in HouseStates(s)
    BY <1>0, CleanupInv
  <2>3. st' \in HouseStates(st') /\ SameLimits(s, st') /\ st'.there = s.there /\ st'.cleaned = s.cleaned
    BY <2>1, <2>2 DEF HouseStates, SameLimits
  <2> QED
    BY <2>2, <2>3, SameHkInv
<1>2. CASE Hk!DoCleanup
  BY <1>0, <1>2, CleanupInv DEF Hk!DoCleanup
<1>3. CASE Hk!HkShutdown
  <2> DEFINE s == [st EXCEPT !.phase = "stopped", !.short_term_cb = FALSE, !.long_term_cb = FALSE,
                             !.reminder = FALSE, !.notification = FALSE, !.session = FALSE]
  <2>1. st' \in Hk!Cleanup(s) \/ st' = s
    BY <1>3 DEF Hk!HkShutdown
  <2>2. s \in HouseStates(s) /\ SameLimits(st, s) /\ s.there = st.there /\ s.cleaned = st.cleaned
    BY <1>0 DEF HouseStates, SameLimits
  <2> HIDE DEF s
  <2>3. HkInv(s)
    BY <2>2, SameHkInv
  <2> QED
    BY <2>1, <2>2, <2>3, CleanupInv
<1>4. CASE \/ Hk!HkStartup \/ Hk!HkSettingsChanged \/ Hk!SystemdBusGotten \/ Hk!UnitKilled
           \/ Hk!DonationTimeout \/ Hk!DonationClosed \/ Hk!DonationsToggled
  <2>1. st' \in HouseStates(st') /\ SameLimits(st, st') /\ st'.there = st.there /\ st'.cleaned = st.cleaned
    <3>1. CASE Hk!HkStartup \/ Hk!HkSettingsChanged
      BY <1>0, <3>1 DEF HouseStates, SameLimits, Hk!HkStartup, Hk!HkSettingsChanged
    <3>2. CASE Hk!SystemdBusGotten \/ Hk!UnitKilled
      BY <1>0, <3>2 DEF HouseStates, SameLimits, Hk!SystemdBusGotten, Hk!UnitKilled
    <3>3. CASE Hk!DonationTimeout
      BY <1>0, <3>3 DEF HouseStates, SameLimits, Hk!DonationTimeout
    <3>4. CASE Hk!DonationClosed \/ Hk!DonationsToggled
      BY <1>0, <3>4 DEF HouseStates, SameLimits, Hk!DonationClosed, Hk!DonationsToggled
    <3> QED
      BY <1>4, <3>1, <3>2, <3>3, <3>4
  <2> QED
    BY <2>1, SameHkInv
<1>5. CASE Hk!LimitsSet \/ Hk!TimePasses \/ \E n \in Hk!Names : Hk!ThumbTouched(n)
  <2>1. st' \in HouseStates(st') /\ ~st'.cleaned
    <3>1. CASE Hk!LimitsSet
      BY <1>0, <3>1, ThumbsAssumption DEF HouseStates, Hk!LimitsSet
    <3>2. CASE Hk!TimePasses
      BY <1>0, <3>2 DEF HouseStates, Hk!TimePasses
    <3>3. CASE \E n \in Hk!Names : Hk!ThumbTouched(n)
      <4>1. PICK n \in DOMAIN Thumbs :
              st' = [st EXCEPT !.there = @ \cup {n},
                               !.time[n] = IF @ = Hk!Unknown THEN @ ELSE st.now, !.cleaned = FALSE]
        BY <3>3 DEF Hk!ThumbTouched, Hk!Names
      <4> DEFINE time == [st.time EXCEPT ![n] = IF @ = Hk!Unknown THEN @ ELSE st.now]
      <4>2. st' = [st EXCEPT !.there = @ \cup {n}, !.time = time, !.cleaned = FALSE]
        BY <1>0, <4>1 DEF HouseStates
      <4> HIDE DEF time
      <4> QED
        BY <1>0, <4>2 DEF HouseStates
    <3> QED
      BY <1>5, <3>1, <3>2, <3>3
  <2> QED
    BY <2>1 DEF HkInv
<1>6. CASE UNCHANGED st
  BY <1>6
<1> QED
  BY <1>1, <1>2, <1>3, <1>4, <1>5, <1>6 DEF Hk!HkNext

LEMMA HkInitInv == ASSUME Hk!HkInit PROVE HkInv(st)
<1>1. st \in HouseStates(st) /\ st.cleaned = FALSE
  BY ThumbsAssumption DEF Hk!HkInit, HouseStates, Hk!Names
<1> QED
  BY <1>1 DEF HkInv

LEMMA HkInvFollows == ASSUME HkInv(st) PROVE Hk!AgedMeansWithinLimits
BY DEF HkInv, Hk!AgedMeansWithinLimits

\* When a cleanup with an age to go by is done, no thumbnail is older than the
\* age of the settings, and all of them together are no larger than the size,
\* in whatever order the comparison of times sorts them
\* (gsd-housekeeping-manager.c: purge_thumbnail_cache, sort_file_time).
THEOREM ThumbsCorrect == SessionSpec => []AgedMeansWithinLimits
<1> DEFINE Inv == daemon = "housekeeping" => HkInv(st)
<1>1. SessionInit => Inv
  BY HkInitInv DEF SessionInit
<1>2. Inv /\ [SessionNext]_vars => Inv'
  <2> SUFFICES ASSUME Inv, [SessionNext]_vars, (daemon = "housekeeping")' PROVE HkInv(st')
    OBVIOUS
  <2>1. daemon = "housekeeping" /\ [Hk!HkNext]_st
    BY DEF SessionNext, Of, vars
  <2> QED
    BY <2>1, HkNextInv
<1>3. Inv => AgedMeansWithinLimits
  BY HkInvFollows DEF AgedMeansWithinLimits
<1> QED
  BY <1>1, <1>2, <1>3, PTL DEF SessionSpec

===============================================================================
