---------------------------- MODULE HardwareProofs ----------------------------
(***************************************************************************)
(* What the daemons of Session show of hardware is so, whatever the          *)
(* constants are: the smart cards, the kill switches and the disks.  The     *)
(* parts are laid out as those of SessionProofs.                             *)
(***************************************************************************)
EXTENDS Session, FiniteSetTheorems, SequenceTheorems, TLAPS

-------------------------------------------------------------------------------
(* Sequences, as these parts and those of PrintProofs and MediaProofs use      *)
(* them.                                                                     *)

\* What is appended comes after what is there.
LEMMA Appended ==
  ASSUME NEW S, NEW seq \in Seq(S), NEW e \in S
  PROVE  /\ Append(seq, e) \in Seq(S) /\ Len(Append(seq, e)) = Len(seq) + 1
         /\ DOMAIN Append(seq, e) = 1 .. Len(seq) + 1 /\ DOMAIN seq = 1 .. Len(seq)
         /\ \A i \in 1 .. Len(seq) + 1 :
              \/ i = Len(seq) + 1 /\ Append(seq, e)[i] = e
              \/ i \in 1 .. Len(seq) /\ Append(seq, e)[i] = seq[i]
  OBVIOUS

\* What is left when the head is gone.
LEMMA Tailed ==
  ASSUME NEW S, NEW seq \in Seq(S), seq # <<>>
  PROVE  /\ Head(seq) \in S /\ Head(seq) = seq[1] /\ 1 \in DOMAIN seq
         /\ Tail(seq) \in Seq(S) /\ Len(Tail(seq)) = Len(seq) - 1
         /\ \A i \in DOMAIN Tail(seq) : i + 1 \in DOMAIN seq /\ Tail(seq)[i] = seq[i + 1]
  OBVIOUS

\* No element is there twice.
Once(seq) == \A i, j \in DOMAIN seq : seq[i] = seq[j] => i = j

\* One has the elements of the other, and x.
HasBesides(t, seq, x) ==
  /\ \A i \in DOMAIN t : t[i] = x \/ \E j \in DOMAIN seq : t[i] = seq[j]
  /\ \A j \in DOMAIN seq : \E i \in DOMAIN t : t[i] = seq[j]
  /\ \E i \in DOMAIN t : t[i] = x

\* A sequence that has every element once, without one of them.
LEMMA WithoutOps ==
  ASSUME NEW S, NEW seq \in Seq(S), Once(seq), NEW x
  PROVE  LET t == Ps!RemoveFirst(seq, x)
         IN /\ t \in Seq(S) /\ Once(t)
            /\ \A i \in DOMAIN t : t[i] # x /\ \E j \in DOMAIN seq : t[i] = seq[j]
            /\ \A j \in DOMAIN seq : seq[j] # x => \E i \in DOMAIN t : t[i] = seq[j]
            /\ seq # <<>> /\ Head(seq) # x => t # <<>> /\ Head(t) = Head(seq)
<1> DEFINE n == Len(seq)
<1>0. n \in Nat /\ DOMAIN seq = 1 .. n
  OBVIOUS
<1>1. CASE \A i \in 1 .. n : seq[i] # x
  <2>1. Ps!RemoveFirst(seq, x) = seq
    BY <1>1 DEF Ps!RemoveFirst
  <2> QED
    BY <1>0, <1>1, <2>1
<1>2. CASE \E i \in 1 .. n : seq[i] = x
  <2>1. PICK k \in 1 .. n : seq[k] = x
    BY <1>2
  <2>2. {i \in 1 .. n : seq[i] = x} = {k}
    BY <1>0, <2>1 DEF Once
  <2>3. Ps!SelectInSeq(seq, LAMBDA v : v = x) = k
    <3>1. Ps!Min({k}) = k
      BY <2>1 DEF Ps!Min
    <3> QED
      BY <2>2, <3>1 DEF Ps!SelectInSeq
  <2> DEFINE t == SubSeq(seq, 1, k - 1) \o SubSeq(seq, k + 1, n)
  <2>4. Ps!RemoveFirst(seq, x) = t
    BY <1>2, <2>3 DEF Ps!RemoveFirst, Ps!RemoveAt
  <2> DEFINE a == SubSeq(seq, 1, k - 1)
             b == SubSeq(seq, k + 1, n)
  <2>5. /\ a \in Seq(S) /\ Len(a) = k - 1 /\ \A i \in 1 .. k - 1 : a[i] = seq[i]
    BY <1>0, <2>1
  <2>6. /\ b \in Seq(S) /\ Len(b) = n - k /\ \A i \in 1 .. n - k : b[i] = seq[k + i]
    BY <1>0, <2>1
  <2> HIDE DEF a, b
  <2>7. /\ t \in Seq(S) /\ Len(t) = n - 1
        /\ \A i \in 1 .. n - 1 : t[i] = IF i <= k - 1 THEN a[i] ELSE b[i - (k - 1)]
    <3>1. t = a \o b
      BY DEF a, b
    <3>2. Len(a) + Len(b) = n - 1
      BY <1>0, <2>1, <2>5, <2>6
    <3> HIDE DEF t
    <3>3. /\ t \in Seq(S) /\ Len(t) = Len(a) + Len(b)
          /\ \A i \in 1 .. Len(a) + Len(b) : t[i] = IF i <= Len(a) THEN a[i] ELSE b[i - Len(a)]
      BY <2>5, <2>6, <3>1, ConcatProperties
    <3> HIDE DEF n
    <3>4. Len(a) = k - 1 /\ Len(a) + Len(b) = n - 1
      BY <2>5, <3>2
    <3> QED
      BY <3>3, <3>4
  <2> HIDE DEF t
  <2>8. \A i \in 1 .. n - 1 : t[i] = IF i < k THEN seq[i] ELSE seq[i + 1]
    BY <1>0, <2>1, <2>5, <2>6, <2>7
  <2>9. DOMAIN t = 1 .. n - 1
    BY <1>0, <2>1, <2>7
  <2>10. Once(t)
    <3> SUFFICES ASSUME NEW i \in 1 .. n - 1, NEW j \in 1 .. n - 1, t[i] = t[j] PROVE i = j
      BY <2>9 DEF Once
    <3> DEFINE p == IF i < k THEN i ELSE i + 1
               q == IF j < k THEN j ELSE j + 1
    <3>1. p \in 1 .. n /\ q \in 1 .. n /\ seq[p] = seq[q]
      BY <1>0, <2>1, <2>8
    <3>2. p = q
      BY <1>0, <3>1 DEF Once
    <3> QED
      BY <1>0, <2>1, <3>2
  <2>11. ASSUME NEW i \in 1 .. n - 1 PROVE t[i] # x /\ \E j \in 1 .. n : t[i] = seq[j]
    <3> DEFINE p == IF i < k THEN i ELSE i + 1
    <3>1. p \in 1 .. n /\ t[i] = seq[p] /\ p # k
      BY <1>0, <2>1, <2>8
    <3> HIDE DEF p
    <3>2. seq[p] # x
      BY <1>0, <2>1, <3>1 DEF Once
    <3> QED
      BY <3>1, <3>2
  <2>12. ASSUME NEW j \in 1 .. n, seq[j] # x PROVE \E i \in 1 .. n - 1 : t[i] = seq[j]
    <3> DEFINE i == IF j < k THEN j ELSE j - 1
    <3>1. i \in 1 .. n - 1 /\ j # k
      BY <1>0, <2>1, <2>12
    <3>2. t[i] = seq[j]
      BY <1>0, <2>1, <2>8, <3>1
    <3> QED
      BY <3>1, <3>2
  <2>13. ASSUME Head(seq) # x PROVE t # <<>> /\ Head(t) = Head(seq)
    <3>1. seq[1] # x /\ k # 1 /\ Head(seq) = seq[1]
      BY <1>0, <2>1, <2>13
    <3>2. n - 1 >= 1 /\ t[1] = seq[1]
      BY <1>0, <2>1, <2>8, <3>1
    <3> QED
      BY <1>0, <2>7, <2>9, <3>1, <3>2
  <2> QED
    BY <1>0, <2>4, <2>7, <2>9, <2>10, <2>11, <2>12, <2>13
<1> QED
  BY <1>1, <1>2

\* And with one of them at its head.
LEMMA PrependedOps ==
  ASSUME NEW S, NEW seq \in Seq(S), Once(seq), NEW x \in S, \A i \in DOMAIN seq : seq[i] # x,
         NEW t, t = <<x>> \o seq
  PROVE  /\ t \in Seq(S) /\ Once(t) /\ HasBesides(t, seq, x)
         /\ t # <<>> /\ Head(t) = x /\ Tail(t) = seq
<1> DEFINE n == Len(seq)
<1>0. n \in Nat /\ DOMAIN seq = 1 .. n
  OBVIOUS
<1> DEFINE a == <<x>>
<1>a. a \in Seq(S) /\ Len(a) = 1 /\ a[1] = x
  OBVIOUS
<1>b. t = a \o seq
  OBVIOUS
<1> HIDE DEF a
<1>1. /\ t \in Seq(S) /\ Len(t) = n + 1 /\ t[1] = x /\ \A i \in 2 .. n + 1 : t[i] = seq[i - 1]
  <2>1. Len(a) + Len(seq) = n + 1
    BY <1>0, <1>a
  <2>2. /\ t \in Seq(S) /\ Len(t) = n + 1
        /\ \A i \in 1 .. n + 1 : t[i] = IF i <= 1 THEN a[i] ELSE seq[i - 1]
    <3>1. /\ t \in Seq(S) /\ Len(t) = Len(a) + Len(seq)
          /\ \A i \in 1 .. Len(a) + Len(seq) : t[i] = IF i <= Len(a) THEN a[i] ELSE seq[i - Len(a)]
      BY <1>a, <1>b, ConcatProperties
    <3> HIDE DEF n
    <3> QED
      BY <1>a, <2>1, <3>1
  <2> QED
    BY <1>0, <1>a, <2>2
<1>c. \A i \in 1 .. n : t[i + 1] = seq[i]
  BY <1>0, <1>1
<1>2. Tail(t) = seq
  <2>1. Tail(t) \in Seq(S) /\ Len(Tail(t)) = n /\ \A i \in 1 .. n : Tail(t)[i] = t[i + 1]
    BY <1>0, <1>1
  <2> QED
    BY <1>0, <1>c, <2>1, SeqEqual
<1>3. DOMAIN t = 1 .. n + 1 /\ t # <<>> /\ Head(t) = x
  BY <1>0, <1>1
<1>5. \A i \in 1 .. n + 1 : i = 1 \/ (i - 1 \in 1 .. n /\ t[i] = seq[i - 1])
  <2>1. ASSUME NEW i \in 1 .. n + 1, i # 1 PROVE i - 1 \in 1 .. n /\ t[i] = seq[i - 1]
    <3>1. i \in 2 .. n + 1 /\ i - 1 \in 1 .. n
      BY <1>0, <2>1
    <3> QED
      BY <1>1, <3>1
  <2> HIDE DEF n
  <2>2. \A i \in 1 .. n + 1 : i # 1 => i - 1 \in 1 .. n /\ t[i] = seq[i - 1]
    BY <2>1
  <2> QED
    BY <2>2
<1>4. Once(t)
  <2> SUFFICES ASSUME NEW i \in 1 .. n + 1, NEW j \in 1 .. n + 1, t[i] = t[j] PROVE i = j
    BY <1>3 DEF Once
  <2>1. CASE i = 1
    BY <1>0, <1>1, <1>5, <2>1
  <2>2. CASE j = 1
    BY <1>0, <1>1, <1>5, <2>2
  <2>3. CASE i # 1 /\ j # 1
    <3>1. i - 1 \in 1 .. n /\ j - 1 \in 1 .. n /\ seq[i - 1] = seq[j - 1]
      BY <1>5, <2>3
    <3>2. i - 1 = j - 1
      BY <1>0, <3>1 DEF Once
    <3> QED
      BY <3>2
  <2> QED
    BY <2>1, <2>2, <2>3
<1>6. \A j \in 1 .. n : j + 1 \in 1 .. n + 1 /\ t[j + 1] = seq[j]
  BY <1>0, <1>1, <1>c
<1>7. 1 \in 1 .. n + 1
  BY <1>0
<1> HIDE DEF n
<1>8. \A i \in 1 .. n + 1 : t[i] = x \/ \E j \in 1 .. n : t[i] = seq[j]
  BY <1>1, <1>5
<1>9. HasBesides(t, seq, x)
  <2>1. \A i \in DOMAIN t : t[i] = x \/ \E j \in DOMAIN seq : t[i] = seq[j]
    BY <1>0, <1>3, <1>8
  <2>2. \A j \in DOMAIN seq : \E i \in DOMAIN t : t[i] = seq[j]
    BY <1>0, <1>3, <1>6
  <2>3. \E i \in DOMAIN t : t[i] = x
    BY <1>1, <1>3, <1>7
  <2> QED
    BY <2>1, <2>2, <2>3 DEF HasBesides
<1> QED
  BY <1>1, <1>2, <1>3, <1>4, <1>9

-------------------------------------------------------------------------------
(***************************************************************************)
(* gsd-smartcard: the objects on the bus are brought up to date by sources   *)
(* that look at the slot when they run, and the table of the thread by events   *)
(* that may be about a card long gone.  A slot of which the table is wrong has   *)
(* an event that the thread has not finished with, or is unread; one of which   *)
(* the object is wrong has a source, or will get one when the thread is done,    *)
(* or is overtaken: which ends when the main loop looks at a slot that has       *)
(* nothing else to be done, for then its table is right, and so is the object.   *)
(***************************************************************************)

\* The state is a record of these fields; ScTypeOK says as much and has the bounds.
CardStates ==
  [may : ScWorlds, login : {LoginCard, Sc!NoCard}, removal_action : Sc!Actions,
   phase : {"starting", "running", "no_drivers", "stopped", "crashed"},
   reader : [Slots -> Sc!Tokens], event : SUBSET Slots, unread : SUBSET Slots,
   overtaken : SUBSET Slots, smartcards : [Slots -> Sc!Tokens],
   errors : Nat, watch : {"none", "waiting", "seen", "removed", "ended"},
   slot : Slots \cup {Sc!NoSlot}, token : Sc!Tokens, sources : Seq(Sc!Sources),
   tokens : [Slots -> Sc!Interfaces], login_token_bound : Slots \cup {Sc!NoSlot},
   removals : Nat, moves : Nat]

\* The main loop is asked to look at the slot; the thread is busy with it.
SourceFor(s, slot) == \E i \in DOMAIN s.sources : s.sources[i].slot = slot
BusyWith(s, slot)  == s.watch \in {"seen", "removed"} /\ s.slot = slot

\* A source has an object to bring up to date, or makes one.
SourcesAreSound(s) ==
  \A i \in DOMAIN s.sources : s.sources[i].op = "sync" => s.tokens[s.sources[i].slot].there

\* The table has the token that the thread has, or none.
ThreadIsSound(s) == s.watch = "removed" => s.smartcards[s.slot] \in {Sc!NoCard, s.token}

\* What is wrong in the table, or will be, is to be told of.
TableFollows(s, slot) ==
  slot \notin s.unread =>
    /\ s.smartcards[slot] # s.reader[slot] => slot \in Sc!Signalled(s) \/ BusyWith(s, slot)
    /\ BusyWith(s, slot) /\ s.token # s.reader[slot] => slot \in s.event \/ "polling" \in s.may

\* The thread has the token that is in the slot.
TokenIsFresh(s, slot) == BusyWith(s, slot) => s.token = s.reader[slot]

\* A source of a slot comes after the thread's look at it.
SourcesAreFresh(s, slot) ==
  SourceFor(s, slot) => \/ s.smartcards[slot] = s.reader[slot]
                        \/ BusyWith(s, slot) /\ s.watch = "removed"

ObjectComes(s, slot) ==
  s.smartcards[slot] # Sc!NoCard /\ ~s.tokens[slot].there =>
    SourceFor(s, slot) /\ s.smartcards[slot] = s.reader[slot]

ObjectFollows(s, slot) ==
  ~SourceFor(s, slot) =>
    \/ s.tokens[slot].is_inserted <=> s.smartcards[slot] # Sc!NoCard
    \/ /\ BusyWith(s, slot) /\ s.watch = "removed"
       /\ s.token # Sc!NoCard /\ s.smartcards[slot] = Sc!NoCard

ObjectSettles(s, slot) ==
  slot \notin s.overtaken =>
    /\ slot \notin s.unread /\ TokenIsFresh(s, slot) /\ SourcesAreFresh(s, slot)
    /\ ObjectComes(s, slot) /\ ObjectFollows(s, slot)

SlotFollows(s, slot) == TableFollows(s, slot) /\ ObjectSettles(s, slot)

Watched(s) == s.phase = "running" /\ s.watch # "ended"

CardsFollow(s) ==
  /\ s.watch \in {"waiting", "seen", "removed"}
  /\ SourcesAreSound(s) /\ ThreadIsSound(s)
  /\ \A slot \in Slots : SlotFollows(s, slot)

ScInv(s) ==
  /\ s \in CardStates
  /\ s.watch \in {"seen", "removed"} => s.slot \in Slots
  /\ s.phase = "starting" =>
       s.watch = "none" /\ \A slot \in Slots : ~s.tokens[slot].there /\ ~s.tokens[slot].is_inserted
  /\ Watched(s) => CardsFollow(s)

\* An order of the slots with a card names each of them, and no other.
LEMMA OrderOps ==
  ASSUME NEW S \in SUBSET Slots, NEW order \in Sc!SetToSeqs(S)
  PROVE  /\ order \in Seq(S) /\ DOMAIN order = 1 .. Len(order)
         /\ \A slot \in S : \E i \in DOMAIN order : order[i] = slot
<1> DEFINE n == Cardinality(S)
<1>1. IsFiniteSet(S) /\ n \in Nat
  BY HardwareAssumption, FS_Subset, FS_CardinalityType
<1>2. IsFiniteSet(1 .. n) /\ Cardinality(1 .. n) = n
  BY <1>1, FS_Interval
<1>c. Sc!Cardinality(S) = n
  BY DEF Sc!Cardinality, Cardinality
<1>3. order \in [1 .. n -> S] /\ \A i, j \in 1 .. n : i # j => order[i] # order[j]
  BY <1>c DEF Sc!SetToSeqs
<1> HIDE DEF n
<1>4. order \in Injection(1 .. n, S)
  BY <1>3 DEF Injection, IsInjective
<1>5. order \in Surjection(1 .. n, S)
  BY <1>1, <1>2, <1>4, FS_Injection DEF n
<1>6. \A slot \in S : \E i \in 1 .. n : order[i] = slot
  BY <1>5 DEF Surjection
<1> QED
  BY <1>1, <1>3, <1>6

\* What the invariant reads of the thread and the reader.
SameThread(s, t) ==
  /\ t.may = s.may /\ t.reader = s.reader /\ t.event = s.event /\ t.smartcards = s.smartcards
  /\ t.watch = s.watch /\ t.slot = s.slot /\ t.token = s.token /\ t.unread = s.unread
  /\ t.overtaken = s.overtaken

\* What a look reads is a token.
LEMMA TokenInfoOps ==
  ASSUME NEW s \in CardStates, NEW slot \in Slots, NEW token_info \in Sc!TokenInfo(s, slot)
  PROVE  token_info \in Sc!Tokens
BY DEF CardStates, Sc!TokenInfo, Sc!Tokens

\* A look at a slot makes its object say whether there is a card, and leaves
\* the others alone.
LEMMA SynchronizeOps ==
  ASSUME NEW s \in CardStates, NEW slot \in Slots, NEW token_info \in Sc!Tokens
  PROVE  LET t == Sc!SynchronizeTokenNow(s, slot, token_info)
         IN /\ t \in CardStates /\ SameThread(s, t) /\ t.phase = s.phase /\ t.sources = s.sources
            /\ \A x \in Slots : t.tokens[x].there = s.tokens[x].there
            /\ \A x \in Slots \ {slot} : t.tokens[x] = s.tokens[x]
            /\ s.tokens[slot].there => (t.tokens[slot].is_inserted <=> s.reader[slot] # Sc!NoCard)
<1> DEFINE iface   == s.tokens[slot]
           present == s.reader[slot] # Sc!NoCard
           name    == IF iface.is_inserted THEN iface.name ELSE token_info
           login   == name = s.login
           acted   == IF ~present /\ login /\ iface.is_inserted THEN Sc!DoRemoveAction(s) ELSE s
           new     == [iface EXCEPT !.used_to_login = login, !.is_inserted = present]
           bound   == IF login /\ s.login # Sc!NoCard /\ s.login_token_bound = Sc!NoSlot
                      THEN slot ELSE s.login_token_bound
           t       == Sc!SynchronizeTokenNow(s, slot, token_info)
           synced  == [acted EXCEPT !.tokens[slot] = new, !.login_token_bound = bound]
<1>1. slot \in Slots /\ iface \in Sc!Interfaces /\ present \in BOOLEAN /\ login \in BOOLEAN
  BY DEF CardStates
<1>2. new \in Sc!Interfaces /\ new.there = iface.there /\ new.is_inserted = present
  BY <1>1 DEF Sc!Interfaces
<1>3. bound \in Slots \cup {Sc!NoSlot}
  BY <1>1 DEF CardStates
<1>4. /\ acted \in CardStates /\ SameThread(s, acted) /\ acted.phase = s.phase
      /\ acted.sources = s.sources /\ acted.tokens = s.tokens
      /\ acted.login_token_bound = s.login_token_bound
  BY DEF CardStates, Sc!DoRemoveAction, SameThread
<1>5. t = IF ~iface.there THEN s ELSE synced
  <2>1. acted.tokens[slot] = iface /\ acted.login_token_bound = s.login_token_bound
    BY <1>4
  <2> QED
    BY <2>1 DEF Sc!SynchronizeTokenNow
<1> HIDE DEF acted, new, bound, t
<1>6. /\ synced \in CardStates /\ SameThread(s, synced) /\ synced.phase = s.phase
      /\ synced.sources = s.sources /\ synced.tokens = [s.tokens EXCEPT ![slot] = new]
  BY <1>1, <1>2, <1>3, <1>4 DEF CardStates, SameThread
<1> HIDE DEF synced
<1>7. s.tokens \in [Slots -> Sc!Interfaces] /\ SameThread(s, s)
  BY DEF CardStates, SameThread
<1> SUFFICES /\ t \in CardStates /\ SameThread(s, t) /\ t.phase = s.phase /\ t.sources = s.sources
             /\ \A x \in Slots : t.tokens[x].there = s.tokens[x].there
             /\ \A x \in Slots \ {slot} : t.tokens[x] = s.tokens[x]
             /\ iface.there => (t.tokens[slot].is_inserted <=> present)
  BY DEF t
<1> QED
  BY <1>1, <1>2, <1>5, <1>6, <1>7

\* A new object is one that is there.
LEMMA RegisterOps ==
  ASSUME NEW s \in CardStates, NEW source \in Sc!Sources, source.token_info # Sc!NoCard,
         NEW token_info \in Sc!Tokens
  PROVE  LET t == Sc!RegisterNewToken(s, source, token_info)
         IN /\ t \in CardStates /\ SameThread(s, t) /\ t.phase = s.phase /\ t.sources = s.sources
            /\ \A slot \in Slots : s.tokens[slot].there => t.tokens[slot].there
            /\ \A slot \in Slots \ {source.slot} : t.tokens[slot] = s.tokens[slot]
            /\ t.tokens[source.slot].there
            /\ t.tokens[source.slot].is_inserted <=> s.reader[source.slot] # Sc!NoCard
<1> DEFINE iface == [there |-> TRUE, name |-> source.token_info,
                     used_to_login |-> FALSE, is_inserted |-> FALSE]
           r     == [s EXCEPT !.tokens[source.slot] = iface]
<1>1. source.slot \in Slots /\ iface \in Sc!Interfaces /\ iface.there
  BY DEF Sc!Sources, Sc!Interfaces
<1> HIDE DEF iface
<1>2. /\ r \in CardStates /\ SameThread(s, r) /\ r.phase = s.phase /\ r.sources = s.sources
      /\ r.tokens = [s.tokens EXCEPT ![source.slot] = iface] /\ s.tokens \in [Slots -> Sc!Interfaces]
  BY <1>1 DEF CardStates, SameThread
<1>3. Sc!RegisterNewToken(s, source, token_info) = Sc!SynchronizeTokenNow(r, source.slot, token_info)
  BY DEF Sc!RegisterNewToken, iface
<1> HIDE DEF r
<1>4. \A slot \in Slots : s.tokens[slot].there => r.tokens[slot].there
  BY <1>1, <1>2
<1>5. r.tokens[source.slot].there /\ \A slot \in Slots \ {source.slot} : r.tokens[slot] = s.tokens[slot]
  BY <1>1, <1>2
<1> DEFINE t == Sc!SynchronizeTokenNow(r, source.slot, token_info)
<1>6. /\ t \in CardStates /\ SameThread(r, t) /\ t.phase = r.phase /\ t.sources = r.sources
      /\ \A x \in Slots : t.tokens[x].there = r.tokens[x].there
      /\ \A x \in Slots \ {source.slot} : t.tokens[x] = r.tokens[x]
      /\ r.tokens[source.slot].there => (t.tokens[source.slot].is_inserted <=> r.reader[source.slot] # Sc!NoCard)
  BY <1>1, <1>2, SynchronizeOps
<1>7. Sc!RegisterNewToken(s, source, token_info) = t
  BY <1>3
<1> HIDE DEF t
<1>8. SameThread(s, t) /\ r.reader = s.reader
  BY <1>2, <1>6 DEF SameThread
<1> QED
  BY <1>1, <1>2, <1>4, <1>5, <1>6, <1>7, <1>8

\* A source of the thread's is sound.
LEMMA SyncTokenOps ==
  ASSUME NEW s \in CardStates, NEW slot \in Slots, NEW token_info \in Sc!Tokens
  PROVE  LET t == Sc!SyncToken(s, slot, token_info)
         IN /\ t \in CardStates /\ SameThread(s, t) /\ t.phase = s.phase /\ t.tokens = s.tokens
            /\ \A x \in Slots : SourceFor(t, x) <=> SourceFor(s, x) \/ x = slot
            /\ SourcesAreSound(s) => SourcesAreSound(t)
<1> DEFINE source == Sc!Source(s, slot, token_info)
           queue  == Append(s.sources, source)
           t      == [s EXCEPT !.sources = queue]
<1>1. /\ source \in Sc!Sources /\ source.slot = slot
      /\ source.op = "sync" <=> s.tokens[slot].there
  BY DEF CardStates, Sc!Sources, Sc!Source
<1> HIDE DEF source
<1>2. s.sources \in Seq(Sc!Sources)
  BY DEF CardStates
<1>a. queue \in Seq(Sc!Sources)
  BY <1>1, <1>2
<1>4. Sc!SyncToken(s, slot, token_info) = t
  BY DEF Sc!SyncToken, source
<1>b. queue = Append(s.sources, source)
  OBVIOUS
<1> HIDE DEF queue
<1>c. t \in CardStates
  BY <1>a DEF CardStates
<1>3. /\ t \in CardStates /\ SameThread(s, t) /\ t.phase = s.phase /\ t.tokens = s.tokens
      /\ t.sources = Append(s.sources, source)
  BY <1>b, <1>c DEF CardStates, SameThread
<1> HIDE DEF t
<1>5. \A x \in Slots : SourceFor(t, x) <=> SourceFor(s, x) \/ x = slot
  BY <1>1, <1>2, <1>3, Appended DEF SourceFor
<1>6. SourcesAreSound(s) => SourcesAreSound(t)
  <2> SUFFICES ASSUME SourcesAreSound(s), NEW i \in DOMAIN t.sources, t.sources[i].op = "sync"
               PROVE  s.tokens[t.sources[i].slot].there
    BY <1>3 DEF SourcesAreSound
  <2>1. CASE t.sources[i] = source
    BY <1>1, <2>1
  <2>2. CASE i \in DOMAIN s.sources /\ t.sources[i] = s.sources[i]
    BY <2>2 DEF SourcesAreSound
  <2> QED
    BY <1>1, <1>2, <1>3, <2>1, <2>2, Appended
<1> QED
  BY <1>3, <1>4, <1>5, <1>6

\* All of that but which slots are overtaken.
SameBut(s, t) ==
  /\ t.may = s.may /\ t.reader = s.reader /\ t.event = s.event /\ t.smartcards = s.smartcards
  /\ t.watch = s.watch /\ t.slot = s.slot /\ t.token = s.token /\ t.unread = s.unread

\* A slot is overtaken no longer when nothing is to be done about it.
LEMMA CaughtUpOps ==
  ASSUME NEW s \in CardStates, NEW slot \in Slots
  PROVE  LET t == Sc!CaughtUp(s, slot)
         IN /\ t \in CardStates /\ SameBut(s, t) /\ t.phase = s.phase /\ t.sources = s.sources
            /\ t.tokens = s.tokens
            /\ \A x \in Slots \ {slot} : x \in t.overtaken <=> x \in s.overtaken
            /\ slot \in s.overtaken /\ slot \notin t.overtaken =>
                 /\ ~SourceFor(t, slot) /\ ~BusyWith(t, slot)
                 /\ slot \notin t.unread /\ slot \notin Sc!Signalled(t)
            /\ slot \in t.overtaken => slot \in s.overtaken
<1> DEFINE still == Sc!UnderWay(s, slot) \/ slot \in s.unread \cup Sc!Signalled(s)
           left  == s.overtaken \ {slot}
           u     == [s EXCEPT !.overtaken = left]
           t     == Sc!CaughtUp(s, slot)
<1>1. t = IF still THEN s ELSE u
  BY DEF Sc!CaughtUp
<1>2. left \in SUBSET Slots
  BY DEF CardStates
<1>3. /\ u \in CardStates /\ SameBut(s, u) /\ u.phase = s.phase /\ u.sources = s.sources
      /\ u.tokens = s.tokens /\ u.overtaken = left
  BY <1>2 DEF CardStates, SameBut
<1>4. CASE still
  BY <1>1, <1>4 DEF SameBut
<1>5. CASE ~still
  <2>1. ~Sc!UnderWay(s, slot) /\ slot \notin s.unread /\ slot \notin Sc!Signalled(s)
    BY <1>5
  <2> HIDE DEF u, t, still
  <2>2. t = u
    BY <1>1, <1>5
  <2>3. Sc!Signalled(u) = Sc!Signalled(s)
    BY <1>3 DEF Sc!Signalled, SameBut
  <2>4. ~SourceFor(u, slot) /\ ~BusyWith(u, slot)
    BY <1>3, <2>1 DEF SourceFor, BusyWith, Sc!UnderWay, SameBut
  <2>5. u.unread = s.unread
    BY <1>3 DEF SameBut
  <2>6. slot \notin u.overtaken /\ \A x \in Slots \ {slot} : x \in u.overtaken <=> x \in s.overtaken
    BY <1>3
  <2> SUFFICES /\ u \in CardStates /\ SameBut(s, u) /\ u.phase = s.phase /\ u.sources = s.sources
               /\ u.tokens = s.tokens
               /\ \A x \in Slots \ {slot} : x \in u.overtaken <=> x \in s.overtaken
               /\ slot \in s.overtaken /\ slot \notin u.overtaken =>
                    /\ ~SourceFor(u, slot) /\ ~BusyWith(u, slot)
                    /\ slot \notin u.unread /\ slot \notin Sc!Signalled(u)
               /\ slot \in u.overtaken => slot \in s.overtaken
    BY <2>2 DEF t
  <2> QED
    BY <1>3, <2>1, <2>3, <2>4, <2>5, <2>6
<1> QED
  BY <1>4, <1>5

-------------------------------------------------------------------------------
\* The main loop runs a source.
LEMMA MainLoopInv ==
  ASSUME ScInv(st), Sc!MainLoop
  PROVE  ScInv(st')
<1> DEFINE source == Head(st.sources)
           queue  == Tail(st.sources)
           rest   == [st EXCEPT !.sources = queue]
<1>1. st \in CardStates /\ st.phase = "running" /\ st.sources # <<>>
  BY DEF ScInv, Sc!MainLoop
<1>2. /\ source \in Sc!Sources /\ queue \in Seq(Sc!Sources)
      /\ source = st.sources[1] /\ 1 \in DOMAIN st.sources
      /\ \A i \in DOMAIN queue : i + 1 \in DOMAIN st.sources /\ queue[i] = st.sources[i + 1]
      /\ \A i \in DOMAIN st.sources : st.sources[i] = source \/ \E j \in DOMAIN queue : queue[j] = st.sources[i]
  <2>1. st.sources \in Seq(Sc!Sources)
    BY <1>1 DEF CardStates
  <2>2. \A i \in DOMAIN st.sources : i = 1 \/ (i - 1 \in DOMAIN queue /\ queue[i - 1] = st.sources[i])
    BY <1>1, <2>1
  <2> QED
    BY <1>1, <2>1, <2>2, Tailed
<1>s. source.slot \in Slots
  BY <1>2 DEF Sc!Sources
<1>3. PICK token_info \in Sc!TokenInfo(st, source.slot) :
        st' = Sc!CaughtUp(IF source.op = "register" THEN Sc!RegisterNewToken(rest, source, token_info)
                          ELSE Sc!SynchronizeTokenNow(rest, source.slot, token_info), source.slot)
  BY DEF Sc!MainLoop
<1>t. token_info \in Sc!Tokens
  BY <1>1, <1>s, TokenInfoOps
<1> HIDE DEF source, queue
<1>4. /\ rest \in CardStates /\ SameThread(st, rest) /\ rest.phase = st.phase
      /\ rest.sources = queue /\ rest.tokens = st.tokens
  BY <1>1, <1>2 DEF CardStates, SameThread
<1> HIDE DEF rest
\* A label that is gone ends the daemon.
<1>6. CASE source.op = "register" /\ source.token_info = Sc!NoCard
  <2> DEFINE r == [rest EXCEPT !.phase = "crashed"]
  <2>1. st' = Sc!CaughtUp(r, source.slot)
    BY <1>3, <1>6 DEF Sc!RegisterNewToken
  <2>2. r \in CardStates /\ r.phase = "crashed" /\ r.watch = st.watch /\ r.slot = st.slot
    BY <1>4 DEF CardStates, SameThread
  <2> HIDE DEF r
  <2>3. st' \in CardStates /\ st'.phase = "crashed" /\ st'.watch = st.watch /\ st'.slot = st.slot
    BY <1>s, <2>1, <2>2, CaughtUpOps DEF SameBut
  <2> QED
    BY <2>3 DEF ScInv, Watched
<1>7. CASE source.op = "register" => source.token_info # Sc!NoCard
  <2> DEFINE looked == IF source.op = "register" THEN Sc!RegisterNewToken(rest, source, token_info)
                       ELSE Sc!SynchronizeTokenNow(rest, source.slot, token_info)
  <2>0. /\ looked \in CardStates /\ SameThread(st, looked) /\ looked.phase = "running"
        /\ looked.sources = queue
        /\ \A slot \in Slots : st.tokens[slot].there => looked.tokens[slot].there
        /\ \A slot \in Slots \ {source.slot} : looked.tokens[slot] = st.tokens[slot]
        /\ source.op = "register" \/ st.tokens[source.slot].there =>
             /\ looked.tokens[source.slot].there
             /\ looked.tokens[source.slot].is_inserted <=> st.reader[source.slot] # Sc!NoCard
    <3>1. CASE source.op = "register"
      <4> DEFINE t == Sc!RegisterNewToken(rest, source, token_info)
      <4>1. /\ t \in CardStates /\ SameThread(rest, t) /\ t.phase = rest.phase /\ t.sources = rest.sources
            /\ \A slot \in Slots : rest.tokens[slot].there => t.tokens[slot].there
            /\ \A slot \in Slots \ {source.slot} : t.tokens[slot] = rest.tokens[slot]
            /\ t.tokens[source.slot].there
            /\ t.tokens[source.slot].is_inserted <=> rest.reader[source.slot] # Sc!NoCard
        BY <1>2, <1>t, <1>4, <1>7, <3>1, RegisterOps
      <4>2. looked = t
        BY <3>1
      <4> HIDE DEF t, looked
      <4> QED
        BY <1>1, <1>4, <1>s, <4>1, <4>2 DEF SameThread
    <3>2. CASE source.op # "register"
      <4> DEFINE t == Sc!SynchronizeTokenNow(rest, source.slot, token_info)
      <4>1. /\ t \in CardStates /\ SameThread(rest, t) /\ t.phase = rest.phase /\ t.sources = rest.sources
            /\ \A slot \in Slots : t.tokens[slot].there = rest.tokens[slot].there
            /\ \A slot \in Slots \ {source.slot} : t.tokens[slot] = rest.tokens[slot]
            /\ rest.tokens[source.slot].there =>
                 (t.tokens[source.slot].is_inserted <=> rest.reader[source.slot] # Sc!NoCard)
        BY <1>s, <1>t, <1>4, SynchronizeOps
      <4>2. looked = t
        BY <3>2
      <4> HIDE DEF t, looked
      <4> QED
        BY <1>1, <1>4, <1>s, <3>2, <4>1, <4>2 DEF SameThread
    <3> QED
      BY <3>1, <3>2
  <2>a. st' = Sc!CaughtUp(looked, source.slot)
    BY <1>3
  <2> HIDE DEF looked
  <2>1. /\ st' \in CardStates /\ SameBut(st, st') /\ st'.phase = "running" /\ st'.sources = queue
        /\ st'.tokens = looked.tokens
        /\ \A slot \in Slots \ {source.slot} : slot \in st'.overtaken <=> slot \in st.overtaken
        /\ source.slot \in st.overtaken /\ source.slot \notin st'.overtaken =>
             /\ ~SourceFor(st', source.slot) /\ ~BusyWith(st', source.slot)
             /\ source.slot \notin st'.unread /\ source.slot \notin Sc!Signalled(st')
    <3>1. /\ st' \in CardStates /\ SameBut(looked, st') /\ st'.phase = looked.phase
          /\ st'.sources = looked.sources /\ st'.tokens = looked.tokens
          /\ \A slot \in Slots \ {source.slot} : slot \in st'.overtaken <=> slot \in looked.overtaken
          /\ source.slot \in looked.overtaken /\ source.slot \notin st'.overtaken =>
               /\ ~SourceFor(st', source.slot) /\ ~BusyWith(st', source.slot)
               /\ source.slot \notin st'.unread /\ source.slot \notin Sc!Signalled(st')
          /\ source.slot \in st'.overtaken => source.slot \in looked.overtaken
      BY <2>0, <2>a, <1>s, CaughtUpOps
    <3> QED
      BY <2>0, <3>1 DEF SameThread, SameBut
  <2>2. SUFFICES ASSUME Watched(st') PROVE CardsFollow(st')
    BY <2>1 DEF ScInv, SameBut
  <2>3. CardsFollow(st)
    BY <1>1, <2>1, <2>2 DEF ScInv, Watched, SameBut
  <2>4. /\ source.op # "register" => st.tokens[source.slot].there
        /\ \A slot \in Slots : SourceFor(st, slot) <=> SourceFor(st', slot) \/ slot = source.slot
    BY <1>2, <1>s, <2>1, <2>3 DEF CardsFollow, SourcesAreSound, SourceFor, Sc!Sources
  <2>l. /\ st'.tokens[source.slot].there
        /\ st'.tokens[source.slot].is_inserted <=> st.reader[source.slot] # Sc!NoCard
    BY <2>0, <2>1, <2>4
  <2>5. st'.watch \in {"waiting", "seen", "removed"} /\ ThreadIsSound(st')
    BY <2>1, <2>3 DEF CardsFollow, ThreadIsSound, SameBut
  <2>6. SourcesAreSound(st')
    <3> SUFFICES ASSUME NEW i \in DOMAIN queue, queue[i].op = "sync"
                 PROVE  st'.tokens[queue[i].slot].there
      BY <2>1 DEF SourcesAreSound
    <3>0. queue[i] \in Sc!Sources
      BY <1>2
    <3>1. i + 1 \in DOMAIN st.sources /\ queue[i] = st.sources[i + 1] /\ queue[i].slot \in Slots
      BY <1>2, <3>0 DEF Sc!Sources
    <3> QED
      BY <2>0, <2>1, <2>3, <3>1 DEF CardsFollow, SourcesAreSound
  <2>7. ASSUME NEW slot \in Slots PROVE SlotFollows(st', slot)
    <3>1. SlotFollows(st, slot)
      BY <2>3 DEF CardsFollow
    <3>2. /\ BusyWith(st', slot) <=> BusyWith(st, slot)
          /\ slot \in Sc!Signalled(st') <=> slot \in Sc!Signalled(st)
      BY <2>1 DEF BusyWith, SameBut, Sc!Signalled
    <3>3. TableFollows(st', slot)
      BY <2>1, <3>1, <3>2 DEF SlotFollows, TableFollows, SameBut
    <3>4. CASE slot \in st'.overtaken
      BY <3>3, <3>4 DEF SlotFollows, ObjectSettles
    <3>5. CASE slot \notin st.overtaken /\ slot \notin st'.overtaken
      <4>1. /\ slot \notin st'.unread /\ TokenIsFresh(st, slot) /\ SourcesAreFresh(st, slot)
            /\ ObjectComes(st, slot) /\ ObjectFollows(st, slot)
        BY <2>1, <3>1, <3>5 DEF SlotFollows, ObjectSettles, SameBut
      <4>2. TokenIsFresh(st', slot) /\ SourcesAreFresh(st', slot)
        BY <2>1, <2>4, <3>2, <4>1 DEF TokenIsFresh, SourcesAreFresh, SameBut
      <4>3. ObjectComes(st', slot)
        BY <2>0, <2>1, <2>4, <2>l, <4>1 DEF ObjectComes, SameBut
      <4>4. ObjectFollows(st', slot)
        <5>1. CASE slot = source.slot
          <6>1. \/ st.smartcards[slot] = st.reader[slot]
                \/ BusyWith(st, slot) /\ st.watch = "removed" /\ st.smartcards[slot] \in {Sc!NoCard, st.token}
                   /\ st.token = st.reader[slot]
            BY <2>3, <2>4, <4>1, <5>1
            DEF TokenIsFresh, SourcesAreFresh, CardsFollow, ThreadIsSound, BusyWith
          <6> QED
            BY <2>1, <2>l, <3>2, <5>1, <6>1 DEF ObjectFollows, SameBut
        <5>2. CASE slot # source.slot
          BY <2>0, <2>1, <2>4, <3>2, <4>1, <5>2 DEF ObjectFollows, SameBut
        <5> QED
          BY <5>1, <5>2
      <4> QED
        BY <3>3, <4>1, <4>2, <4>3, <4>4 DEF SlotFollows, ObjectSettles
    <3>6. CASE slot \in st.overtaken /\ slot \notin st'.overtaken
      <4>1. slot = source.slot /\ ~SourceFor(st', slot) /\ ~BusyWith(st', slot)
            /\ slot \notin st'.unread /\ slot \notin Sc!Signalled(st')
        BY <2>1, <3>6
      <4>2. st'.smartcards[slot] = st'.reader[slot]
        BY <3>3, <4>1 DEF TableFollows
      <4>3. st'.tokens[slot].there /\ (st'.tokens[slot].is_inserted <=> st'.reader[slot] # Sc!NoCard)
        BY <2>1, <2>l, <4>1 DEF SameBut
      <4> QED
        BY <3>3, <4>1, <4>2, <4>3
        DEF SlotFollows, ObjectSettles, TokenIsFresh, SourcesAreFresh, ObjectComes, ObjectFollows
    <3> QED
      BY <3>4, <3>5, <3>6
  <2> QED
    BY <2>5, <2>6, <2>7 DEF CardsFollow
<1> QED
  BY <1>6, <1>7

\* The thread begins: what it has not passed over it knows, and has a source for.
LEMMA ModulesInv ==
  ASSUME ScInv(st), Sc!ModulesInitialized
  PROVE  ScInv(st')
<1>1. st \in CardStates /\ st.phase = "starting"
      /\ \A slot \in Slots : ~st.tokens[slot].there /\ ~st.tokens[slot].is_inserted
  BY DEF ScInv, Sc!ModulesInitialized
<1>2. CASE st' = [st EXCEPT !.phase = "no_drivers"]
  BY <1>1, <1>2 DEF CardStates, ScInv, Watched
<1>3. ASSUME NEW read \in Sc!Readings(st), NEW again \in Sc!Readings(st),
             NEW order \in Sc!SetToSeqs({slot \in Slots : read[slot] # Sc!NoCard}),
             LET watched == [Sc!SyncInitialTokens(st, read, again, order) EXCEPT
                               !.phase = "running", !.watch = "waiting"]
             IN st' = IF st.login # Sc!NoCard /\ Sc!LoginTokens(watched) = {}
                      THEN Sc!DoRemoveAction(watched) ELSE watched
      PROVE  ScInv(st')
  <2> DEFINE full    == {slot \in Slots : read[slot] # Sc!NoCard}
             passed  == {slot \in Slots : read[slot] # st.reader[slot]}
             sources == [i \in DOMAIN order |-> Sc!Source(st, order[i], again[order[i]])]
             w       == [st EXCEPT !.smartcards = read, !.unread = passed, !.overtaken = passed,
                                   !.sources = sources, !.phase = "running", !.watch = "waiting"]
  <2>0. read \in [Slots -> Sc!Tokens] /\ again \in [Slots -> Sc!Tokens] /\ passed \in SUBSET Slots
    BY DEF Sc!Readings
  <2>1. /\ order \in Seq(full) /\ DOMAIN order = 1 .. Len(order) /\ full \subseteq Slots
        /\ \A slot \in full : \E i \in DOMAIN order : order[i] = slot
    BY OrderOps
  <2>2. \A i \in DOMAIN order :
          /\ order[i] \in Slots
          /\ Sc!Source(st, order[i], again[order[i]]) \in Sc!Sources
          /\ Sc!Source(st, order[i], again[order[i]]).slot = order[i]
          /\ Sc!Source(st, order[i], again[order[i]]).op = "register"
    <3> SUFFICES ASSUME NEW i \in DOMAIN order
                 PROVE  /\ order[i] \in Slots
                        /\ Sc!Source(st, order[i], again[order[i]]) \in Sc!Sources
                        /\ Sc!Source(st, order[i], again[order[i]]).slot = order[i]
                        /\ Sc!Source(st, order[i], again[order[i]]).op = "register"
      OBVIOUS
    <3>1. order[i] \in full
      BY <2>1
    <3>2. order[i] \in Slots /\ again[order[i]] \in Sc!Tokens /\ ~st.tokens[order[i]].there
      BY <1>1, <2>0, <3>1
    <3> QED
      BY <3>2 DEF Sc!Source, Sc!Sources
  <2>3. Len(order) \in Nat
    BY <2>1
  <2>4. /\ sources \in Seq(Sc!Sources) /\ DOMAIN sources = DOMAIN order
        /\ \A i \in DOMAIN order : sources[i] = Sc!Source(st, order[i], again[order[i]])
    BY <2>1, <2>2, <2>3
  <2>6. st' = IF st.login # Sc!NoCard /\ Sc!LoginTokens(w) = {} THEN Sc!DoRemoveAction(w) ELSE w
    BY <1>3 DEF Sc!SyncInitialTokens
  <2> HIDE DEF sources, passed, full
  <2>5. /\ w \in CardStates /\ w.smartcards = read /\ w.reader = st.reader /\ w.sources = sources
        /\ w.phase = "running" /\ w.watch = "waiting" /\ w.tokens = st.tokens /\ w.may = st.may
        /\ w.unread = passed /\ w.overtaken = passed
    BY <1>1, <2>0, <2>4 DEF CardStates
  <2> HIDE DEF w
  <2>7. /\ st' \in CardStates /\ st'.smartcards = read /\ st'.reader = st.reader
        /\ st'.sources = sources /\ st'.watch = "waiting" /\ st'.tokens = st.tokens
        /\ st'.phase = "running" /\ st'.unread = passed /\ st'.overtaken = passed
    BY <2>5, <2>6 DEF CardStates, Sc!DoRemoveAction
  <2>8. SourcesAreSound(st') /\ ThreadIsSound(st')
    BY <2>2, <2>4, <2>7 DEF SourcesAreSound, ThreadIsSound
  <2>9. ASSUME NEW slot \in Slots PROVE SlotFollows(st', slot)
    <3>1. read[slot] # Sc!NoCard => SourceFor(st', slot)
      <4> SUFFICES ASSUME slot \in full PROVE SourceFor(st', slot)
        BY DEF full
      <4>1. PICK i \in DOMAIN order : order[i] = slot
        BY <2>1
      <4> QED
        BY <2>2, <2>4, <2>7, <4>1 DEF SourceFor
    <3>2. slot \notin passed => read[slot] = st.reader[slot]
      BY DEF passed
    <3>3. ~BusyWith(st', slot)
      BY <2>7 DEF BusyWith
    <3> QED
      BY <1>1, <2>7, <3>1, <3>2, <3>3
      DEF SlotFollows, ObjectSettles, TableFollows, TokenIsFresh, SourcesAreFresh, ObjectComes, ObjectFollows
  <2> QED
    BY <2>7, <2>8, <2>9 DEF ScInv, CardsFollow
<1> QED
  BY <1>2, <1>3 DEF Sc!ModulesInitialized

\* The thread sees that something happened at a slot.
LEMMA WatchSeesInv ==
  ASSUME ScInv(st), Sc!WatchSees
  PROVE  ScInv(st')
<1>1. st \in CardStates /\ st.watch = "waiting"
  BY DEF ScInv, Sc!WatchSees
<1>2. PICK seen \in Sc!Signalled(st) \cup Sc!Misread(st) : \E token_info \in Sc!TokenInfo(st, seen) :
        LET missed == IF token_info = st.reader[seen] THEN {} ELSE {seen}
        IN st' = [st EXCEPT !.event = @ \ {seen}, !.errors = 0, !.watch = "seen", !.slot = seen,
                            !.token = token_info, !.unread = (@ \ {seen}) \cup missed,
                            !.overtaken = @ \cup missed]
  BY DEF Sc!WatchSees
<1>3. seen \in Slots
  BY <1>1, <1>2 DEF CardStates, Sc!Signalled, Sc!Misread
<1>a. PICK token_info \in Sc!TokenInfo(st, seen) :
        LET missed == IF token_info = st.reader[seen] THEN {} ELSE {seen}
        IN st' = [st EXCEPT !.event = @ \ {seen}, !.errors = 0, !.watch = "seen", !.slot = seen,
                            !.token = token_info, !.unread = (@ \ {seen}) \cup missed,
                            !.overtaken = @ \cup missed]
  BY <1>2
<1> DEFINE missed    == IF token_info = st.reader[seen] THEN {} ELSE {seen}
           event     == st.event \ {seen}
           unread    == (st.unread \ {seen}) \cup missed
           overtaken == st.overtaken \cup missed
<1>b. event \in SUBSET Slots /\ unread \in SUBSET Slots /\ overtaken \in SUBSET Slots
  BY <1>1, <1>3 DEF CardStates
<1>c. token_info \in Sc!Tokens
  BY <1>1, <1>3, TokenInfoOps
<1>d. st' = [st EXCEPT !.event = event, !.errors = 0, !.watch = "seen", !.slot = seen,
                       !.token = token_info, !.unread = unread, !.overtaken = overtaken]
  BY <1>a
<1>e. /\ seen \in event <=> FALSE
      /\ seen \notin unread => token_info = st.reader[seen]
      /\ seen \notin overtaken => token_info = st.reader[seen] /\ seen \notin st.overtaken /\ seen \notin unread
      /\ \A x \in Slots \ {seen} : /\ x \in event <=> x \in st.event
                                   /\ x \in unread <=> x \in st.unread
                                   /\ x \in overtaken <=> x \in st.overtaken
  OBVIOUS
<1> HIDE DEF event, unread, overtaken
<1>4. /\ st' \in CardStates /\ st'.event = event /\ st'.watch = "seen" /\ st'.slot = seen
      /\ st'.token = token_info /\ st'.phase = st.phase /\ st'.may = st.may
      /\ st'.reader = st.reader /\ st'.smartcards = st.smartcards /\ st'.sources = st.sources
      /\ st'.tokens = st.tokens /\ st'.unread = unread /\ st'.overtaken = overtaken
  BY <1>1, <1>3, <1>b, <1>c, <1>d DEF CardStates
<1>5. SUFFICES ASSUME Watched(st') PROVE CardsFollow(st')
  BY <1>1, <1>3, <1>4 DEF ScInv
<1>6. CardsFollow(st)
  BY <1>1, <1>4, <1>5 DEF ScInv, Watched
<1>7. SourcesAreSound(st') /\ ThreadIsSound(st')
  BY <1>3, <1>4, <1>6 DEF CardsFollow, SourcesAreSound, ThreadIsSound
<1>8. ASSUME NEW slot \in Slots PROVE SlotFollows(st', slot)
  <2>1. SlotFollows(st, slot) /\ ~BusyWith(st, slot) /\ (SourceFor(st', slot) <=> SourceFor(st, slot))
    BY <1>1, <1>4, <1>6 DEF CardsFollow, BusyWith, SourceFor
  <2>2. CASE slot = seen
    <3>1. BusyWith(st', slot) /\ st'.watch # "removed"
      BY <1>4, <2>2 DEF BusyWith
    <3>2. TableFollows(st', slot)
      BY <1>4, <1>e, <2>2, <3>1 DEF TableFollows
    <3>3. ObjectSettles(st', slot)
      BY <1>4, <1>e, <2>1, <2>2, <3>1
      DEF SlotFollows, ObjectSettles, TokenIsFresh, SourcesAreFresh, ObjectComes, ObjectFollows
    <3> QED
      BY <3>2, <3>3 DEF SlotFollows
  <2>3. CASE slot # seen
    <3>1. ~BusyWith(st', slot) /\ (slot \in Sc!Signalled(st') <=> slot \in Sc!Signalled(st))
      BY <1>4, <1>e, <2>3 DEF BusyWith, Sc!Signalled
    <3> QED
      BY <1>4, <1>e, <2>1, <2>3, <3>1
      DEF SlotFollows, TableFollows, ObjectSettles, TokenIsFresh, SourcesAreFresh, ObjectComes, ObjectFollows
  <2> QED
    BY <2>2, <2>3
<1> QED
  BY <1>4, <1>7, <1>8 DEF CardsFollow

\* It is told of an error, and not of the event that is lost.
LEMMA WatchFailsInv ==
  ASSUME ScInv(st), Sc!WatchFails
  PROVE  ScInv(st')
<1>1. st \in CardStates /\ st.watch = "waiting"
  BY DEF ScInv, Sc!WatchFails
<1>2. PICK lost \in {{}} \cup {{slot} : slot \in st.event} :
        LET failed == [st EXCEPT !.event = @ \ lost, !.unread = @ \cup lost, !.overtaken = @ \cup lost]
        IN st' = IF st.errors = ErrorLimit THEN [failed EXCEPT !.watch = "ended"]
                 ELSE [failed EXCEPT !.errors = @ + 1]
  BY DEF Sc!WatchFails
<1> DEFINE event     == st.event \ lost
           unread    == st.unread \cup lost
           overtaken == st.overtaken \cup lost
           errors    == st.errors + 1
<1>3. event \in SUBSET Slots /\ unread \in SUBSET Slots /\ overtaken \in SUBSET Slots /\ errors \in Nat
  BY <1>1, <1>2 DEF CardStates
<1>4. \/ st' = [st EXCEPT !.event = event, !.unread = unread, !.overtaken = overtaken, !.watch = "ended"]
      \/ st' = [st EXCEPT !.event = event, !.unread = unread, !.overtaken = overtaken, !.errors = errors]
  BY <1>1, <1>2 DEF CardStates
<1>5. \A x \in Slots : /\ x \notin lost => /\ x \in event <=> x \in st.event
                                           /\ x \in unread <=> x \in st.unread
                                           /\ x \in overtaken <=> x \in st.overtaken
                       /\ x \in lost => x \in unread /\ x \in overtaken
  OBVIOUS
<1> HIDE DEF event, unread, overtaken, errors
<1>6. /\ st' \in CardStates /\ st'.event = event /\ st'.watch \in {"waiting", "ended"}
      /\ st'.phase = st.phase /\ st'.may = st.may /\ st'.slot = st.slot
      /\ st'.reader = st.reader /\ st'.smartcards = st.smartcards /\ st'.sources = st.sources
      /\ st'.tokens = st.tokens /\ st'.unread = unread /\ st'.overtaken = overtaken
  BY <1>1, <1>3, <1>4 DEF CardStates
<1>7. st.phase # "starting"
  BY <1>1 DEF ScInv
<1>8. SUFFICES ASSUME Watched(st') PROVE CardsFollow(st')
  BY <1>1, <1>6, <1>7 DEF ScInv
<1>9. CardsFollow(st)
  BY <1>1, <1>6, <1>8 DEF ScInv, Watched
<1>10. st'.watch = "waiting" /\ SourcesAreSound(st') /\ ThreadIsSound(st')
  BY <1>6, <1>8, <1>9 DEF Watched, CardsFollow, SourcesAreSound, ThreadIsSound
<1>11. ASSUME NEW slot \in Slots PROVE SlotFollows(st', slot)
  <2>1. SlotFollows(st, slot) /\ ~BusyWith(st, slot) /\ (SourceFor(st', slot) <=> SourceFor(st, slot))
        /\ ~BusyWith(st', slot)
    BY <1>1, <1>6, <1>9, <1>10 DEF CardsFollow, BusyWith, SourceFor
  <2>2. CASE slot \in lost
    BY <1>5, <1>6, <2>2 DEF SlotFollows, TableFollows, ObjectSettles
  <2>3. CASE slot \notin lost
    <3>1. slot \in Sc!Signalled(st') <=> slot \in Sc!Signalled(st)
      BY <1>5, <1>6, <2>3 DEF Sc!Signalled
    <3> QED
      BY <1>5, <1>6, <2>1, <2>3, <3>1
      DEF SlotFollows, TableFollows, ObjectSettles, TokenIsFresh, SourcesAreFresh, ObjectComes, ObjectFollows
  <2> QED
    BY <2>2, <2>3
<1> QED
  BY <1>10, <1>11 DEF CardsFollow

\* It tells of a card that is gone.
LEMMA WatchDropsOldInv ==
  ASSUME ScInv(st), Sc!WatchDropsOld
  PROVE  ScInv(st')
<1>1. st \in CardStates /\ st.watch = "seen" /\ st.slot \in Slots
  BY DEF ScInv, Sc!WatchDropsOld
<1>0. PICK token_info \in Sc!TokenInfo(st, st.slot) :
        st' = [Sc!DropOldToken(st, token_info) EXCEPT !.watch = "removed"]
  BY DEF Sc!WatchDropsOld
<1>i. token_info \in Sc!Tokens
  BY <1>0, <1>1, TokenInfoOps
<1> DEFINE slot    == st.slot
           dropped == [st EXCEPT !.smartcards[slot] = Sc!NoCard]
           d       == Sc!DropOldToken(st, token_info)
<1>2. CASE st.smartcards[slot] # Sc!NoCard /\ st.token # st.smartcards[slot]
  <2>1. d = Sc!SyncToken(dropped, slot, token_info)
    BY <1>2 DEF Sc!DropOldToken
  <2>2. /\ dropped \in CardStates /\ dropped.may = st.may /\ dropped.reader = st.reader
        /\ dropped.event = st.event /\ dropped.watch = st.watch /\ dropped.slot = slot
        /\ dropped.token = st.token /\ dropped.phase = st.phase /\ dropped.sources = st.sources
        /\ dropped.tokens = st.tokens /\ dropped.unread = st.unread /\ dropped.overtaken = st.overtaken
        /\ dropped.smartcards[slot] = Sc!NoCard
        /\ \A x \in Slots \ {slot} : dropped.smartcards[x] = st.smartcards[x]
    BY <1>1, <1>2 DEF CardStates, Sc!Tokens
  <2> HIDE DEF dropped, d
  <2>3. /\ d \in CardStates /\ SameThread(dropped, d) /\ d.phase = st.phase /\ d.tokens = st.tokens
        /\ \A x \in Slots : SourceFor(d, x) <=> SourceFor(dropped, x) \/ x = slot
        /\ SourcesAreSound(dropped) => SourcesAreSound(d)
    BY <1>1, <1>i, <2>1, <2>2, SyncTokenOps
  <2>4. /\ st' \in CardStates /\ st'.may = st.may /\ st'.reader = st.reader /\ st'.event = st.event
        /\ st'.watch = "removed" /\ st'.slot = slot /\ st'.token = st.token /\ st'.phase = st.phase
        /\ st'.tokens = st.tokens /\ st'.smartcards = dropped.smartcards /\ st'.sources = d.sources
        /\ st'.unread = st.unread /\ st'.overtaken = st.overtaken
    BY <1>0, <2>2, <2>3 DEF CardStates, SameThread, d
  <2>5. SUFFICES ASSUME Watched(st') PROVE CardsFollow(st')
    BY <1>1, <2>4 DEF ScInv
  <2>6. CardsFollow(st)
    BY <1>1, <2>4, <2>5 DEF ScInv, Watched
  <2>8. SourcesAreSound(st') /\ ThreadIsSound(st')
    BY <1>1, <2>2, <2>3, <2>4, <2>6 DEF CardsFollow, SourcesAreSound, ThreadIsSound
  <2>9. \A x \in Slots : SourceFor(st', x) <=> SourceFor(st, x) \/ x = slot
    BY <2>2, <2>3, <2>4 DEF SourceFor
  <2>10. ASSUME NEW x \in Slots PROVE SlotFollows(st', x)
    <3>0. SlotFollows(st, x)
      BY <2>6 DEF CardsFollow
    <3>1. CASE x = slot
      <4>1. BusyWith(st, x) /\ BusyWith(st', x) /\ SourceFor(st', x) /\ st'.smartcards[x] = Sc!NoCard
        BY <1>1, <2>2, <2>4, <2>9, <3>1 DEF BusyWith
      <4> QED
        BY <2>4, <3>0, <4>1
        DEF SlotFollows, ObjectSettles, TableFollows, TokenIsFresh, SourcesAreFresh, ObjectComes, ObjectFollows
    <3>2. CASE x # slot
      <4>1. ~BusyWith(st, x) /\ ~BusyWith(st', x) /\ (SourceFor(st', x) <=> SourceFor(st, x))
            /\ st'.smartcards[x] = st.smartcards[x]
        BY <1>1, <2>2, <2>4, <2>9, <3>2 DEF BusyWith
      <4>2. x \in Sc!Signalled(st') <=> x \in Sc!Signalled(st)
        BY <2>4, <4>1 DEF Sc!Signalled
      <4> QED
        BY <2>4, <3>0, <4>1, <4>2
        DEF SlotFollows, ObjectSettles, TableFollows, TokenIsFresh, SourcesAreFresh, ObjectComes, ObjectFollows
    <3> QED
      BY <3>1, <3>2
  <2> QED
    BY <2>4, <2>8, <2>10 DEF CardsFollow
<1>3. CASE ~(st.smartcards[slot] # Sc!NoCard /\ st.token # st.smartcards[slot])
  <2>1. st' = [st EXCEPT !.watch = "removed"]
    BY <1>0, <1>3 DEF Sc!DropOldToken
  <2>2. /\ st' \in CardStates /\ st'.may = st.may /\ st'.reader = st.reader /\ st'.event = st.event
        /\ st'.watch = "removed" /\ st'.slot = slot /\ st'.token = st.token /\ st'.phase = st.phase
        /\ st'.tokens = st.tokens /\ st'.smartcards = st.smartcards /\ st'.sources = st.sources
        /\ st'.unread = st.unread /\ st'.overtaken = st.overtaken
    BY <1>1, <2>1 DEF CardStates
  <2>3. SUFFICES ASSUME Watched(st') PROVE CardsFollow(st')
    BY <1>1, <2>2 DEF ScInv
  <2>4. CardsFollow(st)
    BY <1>1, <2>2, <2>3 DEF ScInv, Watched
  <2>5. SourcesAreSound(st') /\ ThreadIsSound(st')
    BY <1>1, <1>3, <2>2, <2>4 DEF CardsFollow, SourcesAreSound, ThreadIsSound
  <2>6. ASSUME NEW x \in Slots PROVE SlotFollows(st', x)
    <3>1. /\ SlotFollows(st, x) /\ (BusyWith(st', x) <=> BusyWith(st, x))
          /\ (SourceFor(st', x) <=> SourceFor(st, x)) /\ (x \in Sc!Signalled(st') <=> x \in Sc!Signalled(st))
      BY <1>1, <2>2, <2>4 DEF CardsFollow, BusyWith, SourceFor, Sc!Signalled
    <3> QED
      BY <1>1, <2>2, <3>1
      DEF SlotFollows, ObjectSettles, TableFollows, TokenIsFresh, SourcesAreFresh, ObjectComes, ObjectFollows
  <2> QED
    BY <2>2, <2>5, <2>6 DEF CardsFollow
<1> QED
  BY <1>2, <1>3

\* It tells of a card that is new.
LEMMA WatchKeepsNewInv ==
  ASSUME ScInv(st), Sc!WatchKeepsNew
  PROVE  ScInv(st')
<1>0. st \in CardStates /\ st.watch = "removed" /\ st.slot \in Slots
  BY DEF ScInv, Sc!WatchKeepsNew
<1> DEFINE slot == st.slot
           done == [st EXCEPT !.watch = "waiting", !.slot = Sc!NoSlot, !.token = Sc!NoCard]
           kept == [done EXCEPT !.smartcards[slot] = st.token]
           same == st.token = Sc!NoCard \/ st.smartcards[slot] = st.token
<1>1. PICK token_info \in Sc!TokenInfo(st, st.slot) :
        st' = IF same THEN done ELSE Sc!SyncToken(kept, slot, token_info)
  BY DEF Sc!WatchKeepsNew
<1>2. st.token \in Sc!Tokens /\ Sc!NoCard \in Sc!Tokens /\ token_info \in Sc!Tokens
  BY <1>0, <1>1, TokenInfoOps DEF CardStates, Sc!Tokens
<1>3. /\ done \in CardStates /\ done.may = st.may /\ done.reader = st.reader /\ done.event = st.event
      /\ done.watch = "waiting" /\ done.phase = st.phase /\ done.tokens = st.tokens
      /\ done.smartcards = st.smartcards /\ done.sources = st.sources
      /\ done.unread = st.unread /\ done.overtaken = st.overtaken
  BY <1>0, <1>2 DEF CardStates
<1> HIDE DEF done
\* What becomes of the slot of the event, and of the others.
<1>4. ASSUME CardsFollow(st), NEW t, t.may = st.may, t.reader = st.reader, t.event = st.event,
             t.watch = "waiting", t.tokens = st.tokens, t.unread = st.unread, t.overtaken = st.overtaken,
             t.smartcards[slot] = st.token,
             \A x \in Slots \ {slot} : t.smartcards[x] = st.smartcards[x],
             \A x \in Slots : SourceFor(t, x) <=> SourceFor(st, x) \/ (x = slot /\ ~same),
             NEW x \in Slots
      PROVE  SlotFollows(t, x)
  <2>1. SlotFollows(st, x) /\ ~BusyWith(t, x) /\ st.smartcards[slot] \in {Sc!NoCard, st.token}
    BY <1>0, <1>4 DEF CardsFollow, ThreadIsSound, BusyWith
  <2>2. CASE x = slot
    <3>1. BusyWith(st, x)
      BY <1>0, <2>2 DEF BusyWith
    <3>2. TableFollows(t, x)
      BY <1>4, <2>1, <2>2, <3>1 DEF SlotFollows, TableFollows, Sc!Signalled
    <3>3. ASSUME x \notin t.overtaken
          PROVE  x \notin t.unread /\ t.smartcards[x] = t.reader[x]
                 /\ SourcesAreFresh(st, x) /\ ObjectComes(st, x) /\ ObjectFollows(st, x)
      BY <1>4, <2>1, <2>2, <3>1, <3>3 DEF SlotFollows, ObjectSettles, TokenIsFresh
    <3>4. ASSUME x \notin t.overtaken
          PROVE  TokenIsFresh(t, x) /\ SourcesAreFresh(t, x) /\ ObjectComes(t, x) /\ ObjectFollows(t, x)
      <4>1. TokenIsFresh(t, x) /\ SourcesAreFresh(t, x)
        BY <2>1, <3>3, <3>4 DEF TokenIsFresh, SourcesAreFresh
      <4>2. CASE same
        <5>1. t.smartcards[x] = st.smartcards[x] /\ (SourceFor(t, x) <=> SourceFor(st, x))
          BY <1>4, <2>1, <2>2, <4>2
        <5> QED
          BY <1>4, <2>1, <2>2, <3>3, <3>4, <4>1, <4>2, <5>1 DEF ObjectComes, ObjectFollows
      <4>3. CASE ~same
        <5>1. SourceFor(t, x)
          BY <1>4, <2>2, <4>3
        <5> QED
          BY <3>3, <3>4, <4>1, <5>1 DEF ObjectComes, ObjectFollows
      <4> QED
        BY <4>2, <4>3
    <3> QED
      BY <3>2, <3>3, <3>4 DEF SlotFollows, ObjectSettles
  <2>3. CASE x # slot
    <3>1. ~BusyWith(st, x) /\ (SourceFor(t, x) <=> SourceFor(st, x)) /\ t.smartcards[x] = st.smartcards[x]
      BY <1>0, <1>4, <2>3 DEF BusyWith
    <3>2. x \in Sc!Signalled(t) <=> x \in Sc!Signalled(st)
      BY <1>4, <3>1 DEF Sc!Signalled
    <3> QED
      BY <1>4, <2>1, <3>1, <3>2
      DEF SlotFollows, ObjectSettles, TableFollows, TokenIsFresh, SourcesAreFresh, ObjectComes, ObjectFollows
  <2> QED
    BY <2>2, <2>3
<1>5. CASE same
  <2>1. SUFFICES ASSUME Watched(st') PROVE CardsFollow(st')
    BY <1>0, <1>1, <1>3, <1>5 DEF ScInv
  <2>2. CardsFollow(st)
    BY <1>0, <1>1, <1>3, <1>5, <2>1 DEF ScInv, Watched
  <2>3. st.smartcards[slot] = st.token
    BY <1>0, <1>5, <2>2 DEF CardsFollow, ThreadIsSound
  <2>4. st' = done /\ \A x \in Slots : SourceFor(done, x) <=> SourceFor(st, x)
    BY <1>1, <1>3, <1>5 DEF SourceFor
  <2>5. SourcesAreSound(done) /\ ThreadIsSound(done)
    BY <1>3, <2>2 DEF CardsFollow, SourcesAreSound, ThreadIsSound
  <2>6. \A x \in Slots : SlotFollows(done, x)
    BY <1>3, <1>4, <1>5, <2>2, <2>3, <2>4
  <2> QED
    BY <1>3, <2>4, <2>5, <2>6 DEF CardsFollow
<1>6. CASE ~same
  <2>1. /\ kept \in CardStates /\ kept.may = st.may /\ kept.reader = st.reader /\ kept.event = st.event
        /\ kept.watch = "waiting" /\ kept.phase = st.phase /\ kept.tokens = st.tokens
        /\ kept.sources = st.sources /\ kept.smartcards[slot] = st.token
        /\ kept.unread = st.unread /\ kept.overtaken = st.overtaken
        /\ \A x \in Slots \ {slot} : kept.smartcards[x] = st.smartcards[x]
    BY <1>0, <1>2, <1>3 DEF CardStates
  <2> HIDE DEF kept
  <2>2. /\ st' \in CardStates /\ SameThread(kept, st') /\ st'.phase = st.phase /\ st'.tokens = st.tokens
        /\ \A x \in Slots : SourceFor(st', x) <=> SourceFor(kept, x) \/ x = slot
        /\ SourcesAreSound(kept) => SourcesAreSound(st')
    BY <1>0, <1>1, <1>2, <1>6, <2>1, SyncTokenOps
  <2>3. SUFFICES ASSUME Watched(st') PROVE CardsFollow(st')
    BY <1>0, <2>1, <2>2 DEF ScInv, SameThread
  <2>4. CardsFollow(st)
    BY <1>0, <2>1, <2>2, <2>3 DEF ScInv, Watched, SameThread
  <2>5. SourcesAreSound(st') /\ ThreadIsSound(st')
    BY <2>1, <2>2, <2>4 DEF CardsFollow, SourcesAreSound, ThreadIsSound, SameThread
  <2>6. \A x \in Slots : SourceFor(st', x) <=> SourceFor(st, x) \/ (x = slot /\ ~same)
    BY <1>6, <2>1, <2>2 DEF SourceFor
  <2>7. /\ st'.may = st.may /\ st'.reader = st.reader /\ st'.event = st.event
        /\ st'.watch = "waiting" /\ st'.unread = st.unread /\ st'.overtaken = st.overtaken
        /\ st'.smartcards[slot] = st.token
        /\ \A x \in Slots \ {slot} : st'.smartcards[x] = st.smartcards[x]
    BY <2>1, <2>2 DEF SameThread
  <2> HIDE DEF same
  <2>8. \A x \in Slots : SlotFollows(st', x)
    BY <1>4, <2>2, <2>4, <2>6, <2>7
  <2> QED
    BY <2>5, <2>7, <2>8 DEF CardsFollow
<1> QED
  BY <1>5, <1>6

\* A card is moved: an event tells of the slot, and it is overtaken unless
\* nothing is to be done about it, when each object that the table knows is there.
LEMMA CardMovedInv ==
  ASSUME ScInv(st), Sc!CardMoved
  PROVE  ScInv(st')
<1>1. st \in CardStates
  BY DEF ScInv
<1>2. PICK slot \in Slots, card \in Sc!Tokens :
        st' = [st EXCEPT !.reader[slot] = card, !.event = @ \cup {slot}, !.moves = @ + 1,
                         !.overtaken = @ \cup (IF Sc!UnderWay(st, slot) THEN {slot} ELSE {})]
  BY DEF Sc!CardMoved
<1> DEFINE event == st.event \cup {slot}
           moves == st.moves + 1
           overtaken == st.overtaken \cup (IF Sc!UnderWay(st, slot) THEN {slot} ELSE {})
<1>a. event \in SUBSET Slots /\ moves \in Nat /\ overtaken \in SUBSET Slots
  BY <1>1 DEF CardStates
<1>b. st' = [st EXCEPT !.reader[slot] = card, !.event = event, !.moves = moves, !.overtaken = overtaken]
  BY <1>2
<1>c. /\ \A x \in Slots \ {slot} : x \in overtaken <=> x \in st.overtaken
      /\ slot \notin overtaken => slot \notin st.overtaken /\ ~Sc!UnderWay(st, slot)
  OBVIOUS
<1> HIDE DEF event, moves, overtaken
<1>3. /\ st' \in CardStates /\ st'.may = st.may /\ st'.event = event
      /\ st'.watch = st.watch /\ st'.slot = st.slot /\ st'.token = st.token /\ st'.phase = st.phase
      /\ st'.tokens = st.tokens /\ st'.smartcards = st.smartcards /\ st'.sources = st.sources
      /\ st'.unread = st.unread /\ st'.overtaken = overtaken
      /\ \A x \in Slots \ {slot} : st'.reader[x] = st.reader[x]
  BY <1>1, <1>a, <1>b DEF CardStates
<1>4. SUFFICES ASSUME Watched(st') PROVE CardsFollow(st')
  BY <1>3 DEF ScInv
<1>5. CardsFollow(st)
  BY <1>3, <1>4 DEF ScInv, Watched
<1>6. SourcesAreSound(st') /\ ThreadIsSound(st')
  BY <1>3, <1>5 DEF CardsFollow, SourcesAreSound, ThreadIsSound
<1> USE DEF event
<1>7. ASSUME NEW x \in Slots PROVE SlotFollows(st', x)
  <2>0. SlotFollows(st, x) /\ (BusyWith(st', x) <=> BusyWith(st, x)) /\ (SourceFor(st', x) <=> SourceFor(st, x))
    BY <1>3, <1>5 DEF CardsFollow, BusyWith, SourceFor
  <2>1. CASE x = slot
    <3>1. TableFollows(st', x)
      BY <1>3, <2>0, <2>1 DEF SlotFollows, TableFollows, Sc!Signalled
    <3>2. ASSUME x \notin st'.overtaken
          PROVE  /\ x \notin st'.unread /\ TokenIsFresh(st', x) /\ SourcesAreFresh(st', x)
                 /\ ObjectComes(st', x) /\ ObjectFollows(st', x)
      <4>1. x \notin st.overtaken /\ ~BusyWith(st, x) /\ ~SourceFor(st, x)
        BY <1>c, <1>3, <2>1, <3>2 DEF Sc!UnderWay, BusyWith, SourceFor
      <4> QED
        BY <1>3, <2>0, <2>1, <4>1
        DEF SlotFollows, ObjectSettles, TokenIsFresh, SourcesAreFresh, ObjectComes, ObjectFollows
    <3> QED
      BY <3>1, <3>2 DEF SlotFollows, ObjectSettles
  <2>2. CASE x # slot
    <3>1. /\ st'.reader[x] = st.reader[x] /\ (x \in st'.event <=> x \in st.event)
          /\ (x \in st'.overtaken <=> x \in st.overtaken)
      BY <1>c, <1>3, <2>2
    <3>2. x \in Sc!Signalled(st') <=> x \in Sc!Signalled(st)
      BY <1>3, <3>1 DEF Sc!Signalled
    <3> QED
      BY <1>3, <2>0, <3>1, <3>2
      DEF SlotFollows, ObjectSettles, TableFollows, TokenIsFresh, SourcesAreFresh, ObjectComes, ObjectFollows
  <2> QED
    BY <2>1, <2>2
<1> QED
  BY <1>3, <1>5, <1>6, <1>7 DEF CardsFollow

\* A step that changes nothing the invariant reads.
SameView(s, t) ==
  SameThread(s, t) /\ t.phase = s.phase /\ t.sources = s.sources /\ t.tokens = s.tokens

LEMMA SameInv ==
  ASSUME NEW s, NEW t \in CardStates, ScInv(s), SameView(s, t)
  PROVE  ScInv(t)
<1>1. \A slot \in Slots : SlotFollows(s, slot) => SlotFollows(t, slot)
  BY DEF SameView, SameThread, SlotFollows, ObjectSettles, TableFollows, TokenIsFresh, SourcesAreFresh,
         ObjectComes, ObjectFollows, SourceFor, BusyWith, Sc!Signalled
<1>2. CardsFollow(s) => CardsFollow(t)
  BY <1>1 DEF SameView, SameThread, CardsFollow, SourcesAreSound, ThreadIsSound
<1>3. Watched(t) <=> Watched(s)
  BY DEF SameView, SameThread, Watched
<1> QED
  BY <1>2, <1>3 DEF SameView, SameThread, ScInv

LEMMA ScNextInv ==
  ASSUME ScInv(st), [Sc!ScNext]_st
  PROVE  ScInv(st')
<1>0. st \in CardStates
  BY DEF ScInv
<1>1. CASE Sc!Shutdown
  <2>1. /\ st' = [st EXCEPT !.phase = "stopped", !.watch = "ended", !.sources = <<>>]
        /\ <<>> \in Seq(Sc!Sources)
    BY <1>1 DEF Sc!Shutdown
  <2>2. st' \in CardStates /\ st'.phase = "stopped" /\ st'.watch = "ended"
    BY <1>0, <2>1 DEF CardStates
  <2> QED
    BY <2>2 DEF ScInv, Watched
<1>3. CASE Sc!RemovalActionChanged
  <2>1. PICK action \in Sc!Actions : st' = [st EXCEPT !.removal_action = action]
    BY <1>3 DEF Sc!RemovalActionChanged
  <2>2. st' \in CardStates /\ SameView(st, st')
    BY <1>0, <2>1 DEF CardStates, SameView, SameThread
  <2> QED
    BY <2>2, SameInv
<1>4. CASE UNCHANGED st
  BY <1>0, <1>4, SameInv DEF SameView, SameThread
<1> QED
  BY <1>1, <1>3, <1>4, ModulesInv, MainLoopInv, WatchSeesInv, WatchFailsInv, WatchDropsOldInv,
     WatchKeepsNewInv, CardMovedInv DEF Sc!ScNext

LEMMA ScInitInv ==
  ASSUME Sc!ScInit
  PROVE  ScInv(st)
<1> DEFINE objects == [slot \in Slots |-> [there |-> FALSE, name |-> Sc!NoCard,
                                           used_to_login |-> FALSE, is_inserted |-> FALSE]]
           table   == [slot \in Slots |-> Sc!NoCard]
<1>1. PICK may \in ScWorlds, login \in {LoginCard, Sc!NoCard}, action \in Sc!Actions,
           reader \in [Slots -> Sc!Tokens] :
        st = [may |-> may, login |-> login, removal_action |-> action, phase |-> "starting",
              reader |-> reader, event |-> {}, unread |-> {}, overtaken |-> {}, smartcards |-> table,
              errors |-> 0, watch |-> "none", slot |-> Sc!NoSlot, token |-> Sc!NoCard, sources |-> <<>>,
              tokens |-> objects, login_token_bound |-> Sc!NoSlot, removals |-> 0, moves |-> 0]
  BY DEF Sc!ScInit
<1>2. /\ objects \in [Slots -> Sc!Interfaces] /\ table \in [Slots -> Sc!Tokens]
      /\ \A slot \in Slots : ~objects[slot].there /\ ~objects[slot].is_inserted
      /\ <<>> \in Seq(Sc!Sources) /\ Sc!NoCard \in Sc!Tokens
  BY DEF Sc!Interfaces, Sc!Tokens
<1> HIDE DEF objects, table
<1> QED
  BY <1>1, <1>2 DEF ScInv, CardStates, Watched

\* Once the thread waits without an event and the main loop has no source
\* left, the table of the thread is the reader's but for slots of which an
\* event was lost or the card not read, and the object of a slot says whether
\* there is a card in it, unless it was moved before both were done with it
\* and no look was taken since with nothing else to be done
\* (gsd-smartcard-service.c: synchronize_token_now; gsd-smartcard-manager.c:
\* watch_one_event_from_module).
THEOREM ExportedCorrect == SessionSpec => []ExportedStateFollows
<1> DEFINE Inv == daemon = "smartcard" => ScInv(st)
<1>1. SessionInit => Inv
  BY ScInitInv DEF SessionInit
<1>2. Inv /\ [SessionNext]_vars => Inv'
  <2> SUFFICES ASSUME Inv, [SessionNext]_vars, (daemon = "smartcard")' PROVE ScInv(st')
    OBVIOUS
  <2>1. daemon = "smartcard" /\ [Sc!ScNext]_st
    BY DEF SessionNext, Of, vars
  <2> QED
    BY <2>1, ScNextInv
<1>3. Inv => ExportedStateFollows
  <2> SUFFICES ASSUME ScInv(st), Sc!Settled, NEW slot \in Slots
               PROVE  /\ slot \notin st.unread => st.smartcards[slot] = st.reader[slot]
                      /\ slot \notin st.overtaken =>
                           /\ st.tokens[slot].is_inserted <=> st.reader[slot] # Sc!NoCard
                           /\ slot \in Sc!InsertedTokens(st) => st.tokens[slot].there
    BY DEF ExportedStateFollows, Sc!ExportedStateFollows
  <2>1. CardsFollow(st) /\ st.watch = "waiting" /\ Sc!Signalled(st) = {} /\ ~SourceFor(st, slot)
    BY DEF Sc!Settled, ScInv, Watched, SourceFor
  <2>2. ~BusyWith(st, slot) /\ TableFollows(st, slot) /\ ObjectSettles(st, slot)
    BY <2>1 DEF CardsFollow, SlotFollows, BusyWith
  <2>3. slot \notin st.unread => st.smartcards[slot] = st.reader[slot]
    BY <2>1, <2>2 DEF TableFollows
  <2>4. slot \notin st.overtaken =>
          /\ st.tokens[slot].is_inserted <=> st.reader[slot] # Sc!NoCard
          /\ slot \in Sc!InsertedTokens(st) => st.tokens[slot].there
    BY <2>1, <2>2, <2>3 DEF ScInv, ObjectSettles, ObjectComes, ObjectFollows, Sc!InsertedTokens
  <2> QED
    BY <2>3, <2>4
<1> QED
  BY <1>1, <1>2, <1>3, PTL DEF SessionSpec

-------------------------------------------------------------------------------
(* Induction over sets of numbers.                                         *)

\* A set of numbers with 0 and the successors of its elements has them all:
\* otherwise there is an interval below a number that is not in the set, and
\* none is a smallest one.
LEMMA NumbersInduction ==
  ASSUME NEW S \in SUBSET Nat, 0 \in S, \A n \in S : n + 1 \in S
  PROVE  S = Nat
<1> DEFINE Below(n) == 0 .. n - 1
           T        == {Below(n) : n \in Nat \ S}
           R        == StrictSubsetOrdering(Nat)
<1>1. T \subseteq FiniteSubsetsOf(Nat)
  <2> SUFFICES ASSUME NEW n \in Nat PROVE 0 .. n - 1 \in FiniteSubsetsOf(Nat)
    OBVIOUS
  <2>1. IsFiniteSet(0 .. n - 1)
    BY FS_Interval
  <2>2. 0 .. n - 1 \subseteq Nat
    OBVIOUS
  <2> QED
    BY <2>1, <2>2 DEF FiniteSubsetsOf
<1>2. SUFFICES ASSUME T # {} PROVE FALSE
  BY Zenon
<1>3. IsWellFoundedOn(R, FiniteSubsetsOf(Nat))
  BY FS_StrictSubsetOrderingWellFounded
<1> HIDE DEF T, R
<1>4. PICK x \in T : \A y \in T : <<y, x>> \notin R
  BY <1>1, <1>2, <1>3, WFMin
<1>5. PICK n \in Nat \ S : x = Below(n)
  BY DEF T
<1>6. n - 1 \in Nat \ S
  BY <1>5
<1>7. Below(n - 1) \in T
  BY <1>6 DEF T
<1>8. /\ Below(n - 1) \subseteq Below(n) /\ n - 1 \in Below(n) /\ n - 1 \notin Below(n - 1)
      /\ Below(n) \subseteq Nat
  BY <1>5, <1>6
<1> HIDE DEF Below
<1>9. /\ Below(n - 1) \in SUBSET Nat /\ x \in SUBSET Nat
      /\ Below(n - 1) \subseteq x /\ Below(n - 1) # x
  BY <1>5, <1>8
<1>10. <<Below(n - 1), x>> \in R
  BY <1>9 DEF R, StrictSubsetOrdering
<1> QED
  BY <1>4, <1>7, <1>10

\* A set of numbers up to n that is not empty has a greatest element.
LEMMA GreatestElement ==
  ASSUME NEW n \in Nat, NEW X \in SUBSET (1 .. n), X # {}
  PROVE  \E x \in X : \A y \in X : y <= x
<1> DEFINE HasGreatest(m) == \A Y \in SUBSET (1 .. m) : Y # {} => \E x \in Y : \A y \in Y : y <= x
           S == {m \in Nat : HasGreatest(m)}
<1>1. 0 \in S
  <2>1. 1 .. 0 = {}
    OBVIOUS
  <2> QED
    BY <2>1
<1>2. ASSUME NEW m \in S PROVE m + 1 \in S
  <2> SUFFICES ASSUME NEW Y \in SUBSET (1 .. m + 1), Y # {}
               PROVE  \E x \in Y : \A y \in Y : y <= x
    OBVIOUS
  <2>1. CASE m + 1 \in Y
    BY <2>1
  <2>2. CASE m + 1 \notin Y
    <3>1. m \in Nat
      OBVIOUS
    <3>2. Y \in SUBSET (1 .. m)
      BY <2>2, <3>1
    <3> QED
      BY <3>2
  <2> QED
    BY <2>1, <2>2
<1> HIDE DEF S
<1>3. S = Nat
  <2>1. S \in SUBSET Nat
    BY DEF S
  <2> QED
    BY <1>1, <1>2, <2>1, NumbersInduction
<1>4. HasGreatest(n)
  BY <1>3 DEF S
<1> QED
  BY <1>4

-------------------------------------------------------------------------------
(***************************************************************************)
(* gsd-rfkill: what the daemon shows is what it knows, and what it knows is     *)
(* what the kernel has once the events that wait are put in its tables.  The    *)
(* last write that is not cancelled is for the task, so that the timer, which   *)
(* such a write starts, finds the task it is for.                            *)
(***************************************************************************)

RfWriteSet == [event : Rf!ChangeAll, again : BOOLEAN, cancelled : BOOLEAN, refused : BOOLEAN]
RfEventSet == [radio : Radios, op : {"add", "change", "del"}, state : Rf!States]
Unblock    == [type |-> "bluetooth", soft |-> FALSE]

ShownStates ==
  [airplane : BOOLEAN, hardware : BOOLEAN, has : BOOLEAN, bt : BOOLEAN, bt_hardware : BOOLEAN,
   bt_has : BOOLEAN, wwan : BOOLEAN, wwan_hardware : BOOLEAN, wwan_has : BOOLEAN]

\* The state is a record of these fields; RfTypeOK says as much.
RadioStates ==
  [may : RfWorlds, kernel : [Radios -> Rf!States], killswitches : [Radios -> Rf!States],
   events : Seq(RfEventSet), stream : BOOLEAN, task : Rf!ChangeAll \cup {Rf!NoTask}, timer : BOOLEAN,
   writes : Seq(RfWriteSet), noinput : BOOLEAN, noinput_fd : BOOLEAN, session_is_active : BOOLEAN,
   nm_client : BOOLEAN, nm : {"away", "on", "off"}, wwan_enabled : BOOLEAN, wwan_interesting : BOOLEAN,
   modem : BOOLEAN, nm_calls : Seq(BOOLEAN),
   shown : ShownStates]

\* The tables and the events together are what the kernel has.
EventsFollow(s) == \A r \in Radios : Rf!RfkillChanged(s)[r] = s.kernel[r]

\* Only the last write counts, and it is for the task.
LastWriteCounts(s) ==
  \A i \in DOMAIN s.writes : ~s.writes[i].cancelled => i = Len(s.writes) /\ s.writes[i].event = s.task
AllCancelled(s) == \A i \in DOMAIN s.writes : s.writes[i].cancelled
TimerIsForTask(s) == s.timer => s.task = Unblock /\ AllCancelled(s)

\* What is known of the modem is so, but for a NetworkManager that has left.
ModemIsKnown(s) ==
  /\ s.wwan_interesting = s.modem
  /\ s.nm_client => s.nm = "away" \/ s.wwan_enabled = (s.nm = "on")

RfInv(s) ==
  /\ s \in RadioStates /\ s.shown = Rf!Getters(s)
  /\ EventsFollow(s)
  /\ LastWriteCounts(s) /\ TimerIsForTask(s)
  /\ ModemIsKnown(s)

\* The sequence of a set of radios names each of them once.
LEMMA RadioSeq ==
  ASSUME NEW S \in SUBSET Radios
  PROVE  LET told == Rf!SetToSeq(S)
         IN /\ told \in Seq(S) /\ DOMAIN told = 1 .. Len(told) /\ Len(told) \in Nat
            /\ \A i, j \in DOMAIN told : told[i] = told[j] => i = j
            /\ \A r \in S : \E i \in DOMAIN told : told[i] = r
<1> DEFINE n    == Cardinality(S)
           told == Rf!SetToSeq(S)
<1>1. IsFiniteSet(S) /\ n \in Nat /\ ExistsBijection(1 .. n, S)
  BY HardwareAssumption, FS_Subset, FS_CardinalityType
<1>2. IsFiniteSet(1 .. n) /\ Cardinality(1 .. n) = n
  BY <1>1, FS_Interval
<1>3. Rf!Cardinality(S) = n
  BY DEF Rf!Cardinality, Cardinality
<1>4. told = CHOOSE f \in [1 .. n -> S] : Rf!IsInjective(f)
  BY <1>3 DEF Rf!SetToSeq
<1> HIDE DEF n, told
<1>5. \E f \in [1 .. n -> S] : Rf!IsInjective(f)
  <2>1. PICK f : f \in Bijection(1 .. n, S)
    BY <1>1 DEF ExistsBijection
  <2> QED
    BY <2>1 DEF Bijection, Injection, IsInjective, Rf!IsInjective
<1>6. told \in [1 .. n -> S] /\ Rf!IsInjective(told)
  BY <1>4, <1>5
<1>7. told \in Injection(1 .. n, S)
  BY <1>6 DEF Injection, IsInjective, Rf!IsInjective
<1>8. told \in Surjection(1 .. n, S)
  BY <1>1, <1>2, <1>7, FS_Injection DEF n
<1>9. \A r \in S : \E i \in 1 .. n : told[i] = r
  BY <1>8 DEF Surjection
<1>10. \A i, j \in 1 .. n : told[i] = told[j] => i = j
  BY <1>6 DEF Rf!IsInjective
<1> QED
  BY <1>1, <1>6, <1>9, <1>10 DEF told

\* The last of the events of a radio.
LEMMA LastTold ==
  ASSUME NEW S \in SUBSET Int, NEW i \in S, \A j \in S : j <= i
  PROVE  Rf!Max(S) = i
<1>1. \A x \in S : (\A y \in S : x >= y) => x = i
  BY Z3
<1>2. \E x \in S : \A y \in S : x >= y
  BY Z3
<1> QED
  BY <1>1, <1>2 DEF Rf!Max

\* What a radio is after the events: what the last of its events says.
LEMMA ChangedTo ==
  ASSUME NEW s \in RadioStates, NEW r \in Radios, NEW i \in DOMAIN s.events, s.events[i].radio = r,
         \A j \in DOMAIN s.events : s.events[j].radio = r => j <= i
  PROVE  Rf!RfkillChanged(s)[r] = IF s.events[i].op = "del" THEN "gone" ELSE s.events[i].state
<1> DEFINE told == {j \in DOMAIN s.events : s.events[j].radio = r}
<1>1. i \in told /\ told \in SUBSET Int /\ \A j \in told : j <= i
  <2>1. s.events \in Seq(RfEventSet)
    BY DEF RadioStates
  <2>2. DOMAIN s.events \subseteq Int
    BY <2>1
  <2> QED
    BY <2>2
<1>2. Rf!Max(told) = i
  BY <1>1, LastTold
<1>3. told # {}
  BY <1>1
<1> QED
  BY <1>2, <1>3 DEF Rf!RfkillChanged

LEMMA ChangedNot ==
  ASSUME NEW s, NEW r \in Radios, \A j \in DOMAIN s.events : s.events[j].radio # r
  PROVE  Rf!RfkillChanged(s)[r] = s.killswitches[r]
<1>1. {j \in DOMAIN s.events : s.events[j].radio = r} = {}
  OBVIOUS
<1> QED
  BY <1>1 DEF Rf!RfkillChanged

\* Events of other radios, appended, make no difference to one.
LEMMA ChangedByOthers ==
  ASSUME NEW s \in RadioStates, NEW t \in RadioStates, NEW r \in Radios,
         t.killswitches = s.killswitches, Len(s.events) <= Len(t.events),
         \A j \in DOMAIN s.events : t.events[j] = s.events[j],
         \A j \in DOMAIN t.events : j > Len(s.events) => t.events[j].radio # r
  PROVE  Rf!RfkillChanged(t)[r] = Rf!RfkillChanged(s)[r]
<1> DEFINE toldS == {j \in DOMAIN s.events : s.events[j].radio = r}
           toldT == {j \in DOMAIN t.events : t.events[j].radio = r}
<1>1. s.events \in Seq(RfEventSet) /\ t.events \in Seq(RfEventSet)
  BY DEF RadioStates
<1>2. /\ DOMAIN s.events = 1 .. Len(s.events) /\ DOMAIN t.events = 1 .. Len(t.events)
      /\ Len(s.events) \in Nat /\ Len(t.events) \in Nat
  BY <1>1
<1>3. DOMAIN s.events \subseteq DOMAIN t.events
      /\ \A j \in DOMAIN t.events : j \in DOMAIN s.events \/ j > Len(s.events)
  BY <1>2
<1>4. toldS = toldT
  BY <1>3
<1>5. CASE toldS = {}
  BY <1>4, <1>5 DEF Rf!RfkillChanged
<1>6. CASE toldS # {}
  <2> DEFINE m == Rf!Max(toldS)
  <2>1. m \in toldS
    <3>0. toldS \in SUBSET (1 .. Len(s.events))
      BY <1>2
    <3>1. \E x \in toldS : \A y \in toldS : y <= x
      BY <1>2, <1>6, <3>0, GreatestElement
    <3>2. \E x \in toldS : \A y \in toldS : x >= y
      BY <3>0, <3>1
    <3> QED
      BY <3>2 DEF Rf!Max
  <2>2. t.events[m] = s.events[m]
    BY <2>1
  <2> QED
    BY <1>4, <1>6, <2>2 DEF Rf!RfkillChanged
<1> QED
  BY <1>5, <1>6

\* What the tables, the events and the kernel say.
SameRadios(s, t) ==
  t.kernel = s.kernel /\ t.killswitches = s.killswitches /\ t.events = s.events
SameShown(s, t) ==
  /\ t.killswitches = s.killswitches /\ t.wwan_enabled = s.wwan_enabled
  /\ t.wwan_interesting = s.wwan_interesting /\ t.shown = s.shown
SameWrites(s, t) == t.writes = s.writes /\ t.task = s.task /\ t.timer = s.timer
SameModem(s, t) ==
  /\ t.wwan_interesting = s.wwan_interesting /\ t.wwan_enabled = s.wwan_enabled
  /\ t.modem = s.modem /\ t.nm = s.nm /\ t.nm_client = s.nm_client

LEMMA SameRadiosFollow ==
  ASSUME NEW s, NEW t, SameRadios(s, t), EventsFollow(s)
  PROVE  EventsFollow(t)
<1>1. Rf!RfkillChanged(t) = Rf!RfkillChanged(s)
  BY DEF SameRadios, Rf!RfkillChanged
<1> QED
  BY <1>1 DEF SameRadios, EventsFollow

\* What is shown is read from the tables and what is known of the modem.
LEMMA SameGetters ==
  ASSUME NEW s, NEW t, t.killswitches = s.killswitches, t.wwan_enabled = s.wwan_enabled,
         t.wwan_interesting = s.wwan_interesting
  PROVE  Rf!Getters(t) = Rf!Getters(s)
<1>1. \A type : Rf!Table(t, type) = Rf!Table(s, type)
  BY DEF Rf!Table
<1>2. \A type : Rf!AllDown(t, type) = Rf!AllDown(s, type) /\ Rf!AllHard(t, type) = Rf!AllHard(s, type)
  BY <1>1 DEF Rf!AllDown, Rf!AllHard
<1>3. Rf!AirplaneMode(t) = Rf!AirplaneMode(s) /\ Rf!WwanAirplaneMode(t) = Rf!WwanAirplaneMode(s)
  BY <1>1, <1>2 DEF Rf!AirplaneMode, Rf!WwanAirplaneMode
<1> QED
  BY <1>1, <1>2, <1>3 DEF Rf!Getters

LEMMA GettersType ==
  ASSUME NEW s, s.wwan_enabled \in BOOLEAN, s.wwan_interesting \in BOOLEAN
  PROVE  Rf!Getters(s) \in ShownStates
<1>1. \A type : Rf!AllDown(s, type) \in BOOLEAN /\ Rf!AllHard(s, type) \in BOOLEAN
  BY DEF Rf!AllDown, Rf!AllHard
<1>2. Rf!AirplaneMode(s) \in BOOLEAN
  BY DEF Rf!AirplaneMode
<1>3. Rf!WwanAirplaneMode(s) \in BOOLEAN
  BY <1>1 DEF Rf!WwanAirplaneMode
<1> QED
  BY <1>1, <1>2, <1>3 DEF Rf!Getters, ShownStates

LEMMA AnnounceOps ==
  ASSUME NEW s \in RadioStates
  PROVE  LET t == Rf!Announce(s)
         IN /\ t \in RadioStates /\ t.shown = Rf!Getters(t)
            /\ SameRadios(s, t) /\ SameWrites(s, t) /\ SameModem(s, t) /\ t.stream = s.stream
<1> DEFINE g == Rf!Getters(s)
           t == [s EXCEPT !.shown = g]
<1>1. s.wwan_enabled \in BOOLEAN /\ s.wwan_interesting \in BOOLEAN
  BY DEF RadioStates
<1>2. g \in ShownStates
  BY <1>1, GettersType
<1>3. Rf!Announce(s) = t
  BY DEF Rf!Announce
<1> HIDE DEF g
<1>4. /\ t \in RadioStates /\ t.shown = g
      /\ SameRadios(s, t) /\ SameWrites(s, t) /\ SameModem(s, t) /\ t.stream = s.stream
  BY <1>2 DEF RadioStates, SameRadios, SameWrites, SameModem
<1>5. Rf!Getters(t) = g
  BY <1>4, SameGetters DEF g, SameRadios, SameModem
<1> QED
  BY <1>3, <1>4, <1>5

\* A sequence after another.
LEMMA Joined ==
  ASSUME NEW S, NEW a \in Seq(S), NEW b \in Seq(S), NEW c, c = a \o b
  PROVE  /\ c \in Seq(S) /\ Len(c) = Len(a) + Len(b) /\ DOMAIN c = 1 .. Len(a) + Len(b)
         /\ Len(a) \in Nat /\ DOMAIN a = 1 .. Len(a)
         /\ \A i \in DOMAIN a : c[i] = a[i]
         /\ \A i \in DOMAIN b : c[Len(a) + i] = b[i]
  OBVIOUS

\* The kernel takes a write: the events it adds are of the radios it changes,
\* and say what it has changed them to.
LEMMA KernelTakesOps ==
  ASSUME NEW s \in RadioStates, NEW event \in Rf!ChangeAll, EventsFollow(s)
  PROVE  LET t == Rf!KernelTakes(s, event)
         IN /\ t \in RadioStates /\ EventsFollow(t)
            /\ SameShown(s, t) /\ SameWrites(s, t) /\ SameModem(s, t) /\ t.stream = s.stream
<1> DEFINE state    == IF event.soft THEN "soft" ELSE "unblocked"
           affected == Rf!Affected(s, event)
           told     == Rf!SetToSeq(affected)
           news     == [i \in DOMAIN told |-> [radio |-> told[i], op |-> "change", state |-> state]]
           events   == s.events \o news
           kernel   == [r \in Radios |-> IF r \in affected THEN state ELSE s.kernel[r]]
           t        == [s EXCEPT !.kernel = kernel, !.events = events]
<1>1. affected \in SUBSET Radios
  BY DEF Rf!Affected
<1>2. Rf!KernelTakes(s, event) = t
  BY DEF Rf!KernelTakes
<1> HIDE DEF affected
<1>3. /\ told \in Seq(affected) /\ DOMAIN told = 1 .. Len(told) /\ Len(told) \in Nat
      /\ \A i, j \in DOMAIN told : told[i] = told[j] => i = j
      /\ \A r \in affected : \E i \in DOMAIN told : told[i] = r
  BY <1>1, RadioSeq
<1> HIDE DEF told
<1>4. state \in Rf!States /\ s.kernel \in [Radios -> Rf!States] /\ s.events \in Seq(RfEventSet)
  BY DEF Rf!States, RadioStates
<1> HIDE DEF state
<1>5. \A i \in DOMAIN told : told[i] \in affected /\ told[i] \in Radios
  BY <1>1, <1>3
<1>6. /\ news \in Seq(RfEventSet) /\ Len(news) = Len(told) /\ DOMAIN news = DOMAIN told
      /\ \A i \in DOMAIN told : news[i].radio = told[i] /\ news[i].op = "change" /\ news[i].state = state
  <2>1. \A i \in DOMAIN told : [radio |-> told[i], op |-> "change", state |-> state] \in RfEventSet
    BY <1>4, <1>5 DEF RfEventSet
  <2> QED
    BY <1>3, <2>1
<1> HIDE DEF news
<1>7. /\ events \in Seq(RfEventSet) /\ Len(events) = Len(s.events) + Len(told)
      /\ DOMAIN events = 1 .. Len(s.events) + Len(told)
      /\ Len(s.events) \in Nat /\ DOMAIN s.events = 1 .. Len(s.events)
      /\ \A i \in DOMAIN s.events : events[i] = s.events[i]
      /\ \A i \in DOMAIN told : events[Len(s.events) + i] = news[i]
  <2>1. /\ events \in Seq(RfEventSet) /\ Len(events) = Len(s.events) + Len(news)
        /\ DOMAIN events = 1 .. Len(s.events) + Len(news)
        /\ Len(s.events) \in Nat /\ DOMAIN s.events = 1 .. Len(s.events)
        /\ \A i \in DOMAIN s.events : events[i] = s.events[i]
        /\ \A i \in DOMAIN news : events[Len(s.events) + i] = news[i]
    <3>1. s.events \in Seq(RfEventSet) /\ news \in Seq(RfEventSet) /\ events = s.events \o news
      BY <1>4, <1>6
    <3> HIDE DEF events
    <3> QED
      BY <3>1, Joined
  <2> QED
    BY <1>6, <2>1
<1>8. kernel \in [Radios -> Rf!States]
  BY <1>4
<1> HIDE DEF events, kernel
<1>9. /\ t \in RadioStates /\ t.kernel = kernel /\ t.events = events /\ t.killswitches = s.killswitches
      /\ SameShown(s, t) /\ SameWrites(s, t) /\ SameModem(s, t) /\ t.stream = s.stream
  BY <1>7, <1>8 DEF RadioStates, SameShown, SameWrites, SameModem
<1> HIDE DEF t
<1>10. ASSUME NEW r \in Radios PROVE Rf!RfkillChanged(t)[r] = t.kernel[r]
  <2>1. CASE r \in affected
    <3>1. PICK i \in DOMAIN told : told[i] = r
      BY <1>3, <2>1
    <3> DEFINE k == Len(s.events) + i
    <3>2. k \in DOMAIN t.events /\ t.events[k] = news[i]
      BY <1>3, <1>7, <1>9
    <3>3. \A j \in DOMAIN t.events : t.events[j].radio = r => j <= k
      <4> SUFFICES ASSUME NEW j \in DOMAIN t.events, t.events[j].radio = r, j > k PROVE FALSE
        BY <1>3, <1>7, <1>9
      <4> DEFINE m == j - Len(s.events)
      <4>1. m \in DOMAIN told /\ m > i /\ j = Len(s.events) + m
        <5>1. j \in 1 .. Len(s.events) + Len(told) /\ i \in 1 .. Len(told)
          BY <1>3, <1>7, <1>9
        <5> QED
          BY <1>3, <1>7, <5>1
      <4>2. t.events[j] = news[m]
        BY <1>7, <1>9, <4>1
      <4>3. told[m] = r
        BY <1>6, <4>1, <4>2
      <4> QED
        BY <1>3, <3>1, <4>1, <4>3
    <3>4. t.events[k].radio = r /\ t.events[k].op = "change" /\ t.events[k].state = state
      BY <1>6, <3>1, <3>2
    <3> HIDE DEF k
    <3>5. Rf!RfkillChanged(t)[r] = state
      BY <1>9, <3>2, <3>3, <3>4, ChangedTo
    <3> QED
      BY <1>9, <2>1, <3>5 DEF kernel
  <2>2. CASE r \notin affected
    <3>1. \A j \in DOMAIN t.events : j > Len(s.events) => t.events[j].radio # r
      <4> SUFFICES ASSUME NEW j \in DOMAIN t.events, j > Len(s.events) PROVE t.events[j].radio # r
        OBVIOUS
      <4> DEFINE m == j - Len(s.events)
      <4>1. m \in DOMAIN told /\ j = Len(s.events) + m
        BY <1>3, <1>7, <1>9
      <4>2. t.events[j] = news[m]
        BY <1>7, <1>9, <4>1
      <4> QED
        BY <1>5, <1>6, <2>2, <4>1, <4>2
    <3>2. Len(s.events) <= Len(t.events) /\ \A j \in DOMAIN s.events : t.events[j] = s.events[j]
      BY <1>3, <1>7, <1>9
    <3>3. Rf!RfkillChanged(t)[r] = Rf!RfkillChanged(s)[r]
      BY <1>9, <3>1, <3>2, ChangedByOthers
    <3>4. t.kernel[r] = s.kernel[r]
      BY <1>9, <2>2 DEF kernel
    <3> QED
      BY <3>3, <3>4 DEF EventsFollow
  <2> QED
    BY <2>1, <2>2
<1> QED
  BY <1>2, <1>9, <1>10 DEF t, EventsFollow

\* A write: it comes last, and the kernel takes it unless one is under way.
LEMMA WriteAsyncOps ==
  ASSUME NEW s \in RadioStates, NEW event \in Rf!ChangeAll, NEW again \in BOOLEAN,
         EventsFollow(s), AllCancelled(s), s.task = event
  PROVE  LET t == Rf!WriteAsync(s, event, again)
         IN /\ t \in RadioStates /\ EventsFollow(t) /\ LastWriteCounts(t)
            /\ SameShown(s, t) /\ SameModem(s, t) /\ t.stream = s.stream
            /\ t.task = s.task /\ t.timer = s.timer
<1> DEFINE w      == Rf!Write(event, again, Rf!Busy(s))
           writes == Append(s.writes, w)
           queued == [s EXCEPT !.writes = writes]
<1>1. Rf!WriteAsync(s, event, again) = IF Rf!Busy(s) THEN queued ELSE Rf!KernelTakes(queued, event)
  BY DEF Rf!WriteAsync
<1>2. w \in RfWriteSet /\ w.event = event
  BY DEF Rf!Write, Rf!Busy, RfWriteSet
<1> HIDE DEF w
<1>3. s.writes \in Seq(RfWriteSet)
  BY DEF RadioStates
<1>4. writes \in Seq(RfWriteSet)
  BY <1>2, <1>3
<1>5. \A i \in DOMAIN writes : ~writes[i].cancelled => i = Len(writes) /\ writes[i].event = event
  BY <1>2, <1>3, Appended DEF AllCancelled
<1> HIDE DEF writes
<1>6. /\ queued \in RadioStates /\ queued.writes = writes /\ SameRadios(s, queued)
      /\ SameShown(s, queued) /\ SameModem(s, queued) /\ queued.stream = s.stream
      /\ queued.task = s.task /\ queued.timer = s.timer
  BY <1>4 DEF RadioStates, SameRadios, SameShown, SameModem
<1> HIDE DEF queued
<1>7. EventsFollow(queued)
  BY <1>6, SameRadiosFollow
<1>8. LastWriteCounts(queued)
  BY <1>5, <1>6 DEF LastWriteCounts
<1>9. CASE Rf!Busy(s)
  BY <1>1, <1>6, <1>7, <1>8, <1>9
<1>10. CASE ~Rf!Busy(s)
  <2> DEFINE t == Rf!KernelTakes(queued, event)
  <2>1. /\ t \in RadioStates /\ EventsFollow(t)
        /\ SameShown(queued, t) /\ SameWrites(queued, t) /\ SameModem(queued, t)
        /\ t.stream = queued.stream
    BY <1>6, <1>7, KernelTakesOps
  <2>2. Rf!WriteAsync(s, event, again) = t
    BY <1>1, <1>10
  <2> HIDE DEF t
  <2>3. LastWriteCounts(t)
    BY <1>8, <2>1 DEF LastWriteCounts, SameWrites
  <2>4. SameShown(s, t) /\ SameModem(s, t) /\ t.stream = s.stream
    BY <1>6, <2>1 DEF SameShown, SameModem
  <2>5. t.task = s.task /\ t.timer = s.timer
    BY <1>6, <2>1 DEF SameWrites
  <2> QED
    BY <2>1, <2>2, <2>3, <2>4, <2>5
<1> QED
  BY <1>9, <1>10

\* What is shown stays what the getters answer.
LEMMA ShownStays ==
  ASSUME NEW s, NEW t, SameShown(s, t), s.shown = Rf!Getters(s)
  PROVE  t.shown = Rf!Getters(t)
BY SameGetters DEF SameShown

LEMMA CancelTaskOps ==
  ASSUME NEW s \in RadioStates
  PROVE  LET t == Rf!CancelCurrentTask(s)
         IN /\ t \in RadioStates /\ AllCancelled(t) /\ ~t.timer /\ SameRadios(s, t)
            /\ SameShown(s, t) /\ SameModem(s, t) /\ t.stream = s.stream
<1> DEFINE writes == [i \in DOMAIN s.writes |-> [s.writes[i] EXCEPT !.cancelled = TRUE]]
           t      == [s EXCEPT !.task = Rf!NoTask, !.timer = FALSE, !.writes = writes]
<1>1. s.writes \in Seq(RfWriteSet)
  BY DEF RadioStates
<1>2. \A w \in RfWriteSet : /\ [w EXCEPT !.cancelled = TRUE] \in RfWriteSet
                            /\ [w EXCEPT !.cancelled = TRUE].cancelled
  BY DEF RfWriteSet
<1>3. writes \in Seq(RfWriteSet) /\ \A i \in DOMAIN writes : writes[i].cancelled
  BY <1>1, <1>2
<1>4. Rf!CancelCurrentTask(s) = t
  BY DEF Rf!CancelCurrentTask
<1> HIDE DEF writes
<1>5. /\ t \in RadioStates /\ t.writes = writes /\ ~t.timer /\ SameRadios(s, t)
      /\ SameShown(s, t) /\ SameModem(s, t) /\ t.stream = s.stream
  BY <1>3 DEF RadioStates, SameRadios, SameShown, SameModem, Rf!NoTask
<1> QED
  BY <1>3, <1>4, <1>5 DEF AllCancelled

\* A new request cancels the one before and is the task.
LEMMA SendChangeAllOps ==
  ASSUME NEW s, RfInv(s), NEW event \in Rf!ChangeAll
  PROVE  RfInv(Rf!SendChangeAll(s, event))
<1>1. CASE ~s.stream
  BY <1>1 DEF Rf!SendChangeAll
<1>2. CASE s.stream
  <2> DEFINE c == Rf!CancelCurrentTask(s)
             d == [c EXCEPT !.task = event]
             t == Rf!WriteAsync(d, event, FALSE)
  <2>1. /\ c \in RadioStates /\ AllCancelled(c) /\ ~c.timer /\ SameRadios(s, c)
        /\ SameShown(s, c) /\ SameModem(s, c)
    BY CancelTaskOps DEF RfInv
  <2>2. Rf!SendChangeAll(s, event) = t
    BY <1>2 DEF Rf!SendChangeAll
  <2> HIDE DEF c
  <2>3. /\ d \in RadioStates /\ d.task = event /\ d.timer = c.timer /\ d.writes = c.writes
        /\ SameRadios(c, d) /\ SameShown(c, d) /\ SameModem(c, d)
    BY <2>1 DEF RadioStates, SameRadios, SameShown, SameModem
  <2> HIDE DEF d
  <2>4. AllCancelled(d) /\ ~d.timer
    BY <2>1, <2>3 DEF AllCancelled
  <2>5. EventsFollow(d)
    BY <2>1, <2>3, SameRadiosFollow DEF RfInv
  <2>6. SameShown(s, d) /\ SameModem(s, d)
    BY <2>1, <2>3 DEF SameShown, SameModem
  <2>7. /\ t \in RadioStates /\ EventsFollow(t) /\ LastWriteCounts(t)
        /\ SameShown(d, t) /\ SameModem(d, t) /\ t.timer = d.timer
    BY <2>3, <2>4, <2>5, WriteAsyncOps
  <2> HIDE DEF t
  <2>8. SameShown(s, t) /\ ModemIsKnown(t)
    BY <2>6, <2>7 DEF SameShown, SameModem, RfInv, ModemIsKnown
  <2>9. t.shown = Rf!Getters(t)
    BY <2>8, ShownStays DEF RfInv
  <2>10. TimerIsForTask(t)
    BY <2>4, <2>7 DEF TimerIsForTask
  <2> QED
    BY <2>2, <2>7, <2>8, <2>9, <2>10 DEF RfInv
<1> QED
  BY <1>1, <1>2

\* A state in which the writes alone are different.
LEMMA OtherWrites ==
  ASSUME NEW s, RfInv(s), NEW t \in RadioStates, SameRadios(s, t), SameShown(s, t), SameModem(s, t),
         LastWriteCounts(t), TimerIsForTask(t)
  PROVE  RfInv(t)
<1>1. EventsFollow(t) /\ t.shown = Rf!Getters(t)
  BY SameRadiosFollow, ShownStays DEF RfInv
<1>2. ModemIsKnown(t)
  BY DEF RfInv, ModemIsKnown, SameModem
<1> QED
  BY <1>1, <1>2 DEF RfInv

\* The callback of a write: one that is not cancelled is the last.
LEMMA WriteDoneOps ==
  ASSUME NEW s, RfInv(s), s.writes # <<>>, NEW fails \in BOOLEAN
  PROVE  RfInv(Rf!WriteDone(s, fails))
<1> DEFINE w       == Head(s.writes)
           rest    == [s EXCEPT !.writes = Tail(s.writes)]
           ended   == w.again \/ w.refused \/ w.cancelled \/ fails \/ w.event.soft \/ w.event.type # "bluetooth"
           cleared == [rest EXCEPT !.task = Rf!NoTask]
           timed   == [rest EXCEPT !.timer = TRUE]
<1>1. s \in RadioStates /\ s.writes \in Seq(RfWriteSet) /\ LastWriteCounts(s) /\ TimerIsForTask(s)
  BY DEF RfInv, RadioStates
<1>2. /\ w \in RfWriteSet /\ w = s.writes[1] /\ 1 \in DOMAIN s.writes
      /\ Tail(s.writes) \in Seq(RfWriteSet) /\ Len(Tail(s.writes)) = Len(s.writes) - 1
      /\ \A i \in DOMAIN Tail(s.writes) :
           i + 1 \in DOMAIN s.writes /\ Tail(s.writes)[i] = s.writes[i + 1]
  BY <1>1, Tailed
<1>3. Rf!WriteDone(s, fails) =
        IF ended THEN IF w.cancelled THEN rest ELSE cleared ELSE timed
  BY DEF Rf!WriteDone, Rf!ClearTask
<1> HIDE DEF w
<1>4. \A i \in DOMAIN Tail(s.writes) :
        ~Tail(s.writes)[i].cancelled => i = Len(Tail(s.writes)) /\ Tail(s.writes)[i].event = s.task
  <2>1. \A i \in DOMAIN Tail(s.writes) : i \in Nat
    BY <1>2
  <2>2. \A i \in DOMAIN s.writes : ~s.writes[i].cancelled => i = Len(s.writes) /\ s.writes[i].event = s.task
    BY <1>1 DEF LastWriteCounts
  <2>3. Len(s.writes) \in Nat
    BY <1>1
  <2> QED
    BY <1>2, <2>1, <2>2, <2>3
<1>5. ~w.cancelled => /\ w.event = s.task /\ ~s.timer
                      /\ Len(s.writes) = 1 /\ DOMAIN Tail(s.writes) = {}
  <2> SUFFICES ASSUME ~w.cancelled
               PROVE  w.event = s.task /\ ~s.timer /\ Len(s.writes) = 1 /\ DOMAIN Tail(s.writes) = {}
    OBVIOUS
  <2>1. w.event = s.task /\ Len(s.writes) = 1
    BY <1>1, <1>2 DEF LastWriteCounts
  <2>2. ~s.timer
    BY <1>1, <1>2 DEF TimerIsForTask, AllCancelled
  <2>3. DOMAIN Tail(s.writes) = {}
    BY <1>2, <2>1
  <2> QED
    BY <2>1, <2>2, <2>3
<1> DEFINE tail == Tail(s.writes)
<1>6. tail \in Seq(RfWriteSet)
  BY <1>2
<1>7. s.timer => \A i \in DOMAIN tail : tail[i].cancelled
  BY <1>1, <1>2 DEF TimerIsForTask, AllCancelled
<1> HIDE DEF tail
<1>8. rest = [s EXCEPT !.writes = tail]
  BY DEF tail
<1> HIDE DEF rest
<1>9. /\ rest \in RadioStates /\ SameRadios(s, rest) /\ SameShown(s, rest) /\ SameModem(s, rest)
      /\ rest.writes = tail /\ rest.task = s.task /\ rest.timer = s.timer
  BY <1>1, <1>6, <1>8 DEF RadioStates, SameRadios, SameShown, SameModem
<1>10. CASE w.cancelled
  <2>1. LastWriteCounts(rest)
    BY <1>4, <1>9 DEF LastWriteCounts, tail
  <2>2. TimerIsForTask(rest)
    BY <1>1, <1>7, <1>9 DEF TimerIsForTask, AllCancelled
  <2>3. RfInv(rest)
    BY <1>9, <2>1, <2>2, OtherWrites
  <2> QED
    BY <1>3, <1>10, <2>3
<1>11. CASE ended /\ ~w.cancelled
  <2>1. /\ cleared \in RadioStates /\ SameRadios(rest, cleared) /\ SameShown(rest, cleared)
        /\ SameModem(rest, cleared) /\ cleared.writes = tail /\ cleared.timer = s.timer
    BY <1>9 DEF RadioStates, SameRadios, SameShown, SameModem, Rf!NoTask
  <2> HIDE DEF cleared
  <2>2. LastWriteCounts(cleared) /\ TimerIsForTask(cleared)
    BY <1>5, <1>11, <2>1 DEF LastWriteCounts, TimerIsForTask, tail
  <2>3. SameRadios(s, cleared) /\ SameShown(s, cleared) /\ SameModem(s, cleared)
    BY <1>9, <2>1 DEF SameRadios, SameShown, SameModem
  <2>4. RfInv(cleared)
    BY <2>1, <2>2, <2>3, OtherWrites
  <2> QED
    BY <1>3, <1>11, <2>4
<1>12. CASE ~ended
  <2>1. w.event = Unblock
    BY <1>2, <1>12 DEF RfWriteSet, Rf!ChangeAll, Unblock
  <2>2. /\ timed \in RadioStates /\ SameRadios(rest, timed) /\ SameShown(rest, timed)
        /\ SameModem(rest, timed) /\ timed.writes = tail /\ timed.task = s.task
    BY <1>9 DEF RadioStates, SameRadios, SameShown, SameModem
  <2> HIDE DEF timed
  <2>3. LastWriteCounts(timed) /\ TimerIsForTask(timed)
    BY <1>5, <1>12, <2>1, <2>2 DEF LastWriteCounts, TimerIsForTask, AllCancelled, tail
  <2>4. SameRadios(s, timed) /\ SameShown(s, timed) /\ SameModem(s, timed)
    BY <1>9, <2>2 DEF SameRadios, SameShown, SameModem
  <2>5. RfInv(timed)
    BY <2>2, <2>3, <2>4, OtherWrites
  <2> QED
    BY <1>3, <1>12, <2>5
<1> QED
  BY <1>10, <1>11, <1>12

\* What the events say is what the kernel has: the tables get it.
LEMMA TablesAreKernel ==
  ASSUME NEW s, EventsFollow(s), s.kernel \in [Radios -> Rf!States]
  PROVE  Rf!RfkillChanged(s) = s.kernel
<1>1. \A r \in Radios : Rf!RfkillChanged(s)[r] = s.kernel[r]
  BY DEF EventsFollow
<1>2. \E f : Rf!RfkillChanged(s) = [r \in Radios |-> f[r]]
  <2>1. Rf!RfkillChanged(s) = [r \in Radios |-> Rf!RfkillChanged(s)[r]]
    BY DEF Rf!RfkillChanged
  <2> QED
    BY <2>1
<1> QED
  BY <1>1, <1>2

\* The events are read: the tables are what the kernel has.
LEMMA EventsReadOps ==
  ASSUME NEW s, RfInv(s)
  PROVE  RfInv(Rf!EventsRead(s))
<1> DEFINE table  == Rf!RfkillChanged(s)
           told   == [s EXCEPT !.killswitches = table, !.events = <<>>]
           seen   == Rf!Announce(told)
           change == \E i \in DOMAIN s.events : s.events[i].op = "change"
           again  == Rf!WriteAsync(seen, s.task, TRUE)
           t      == [again EXCEPT !.timer = FALSE]
<1>0. s \in RadioStates /\ s.kernel \in [Radios -> Rf!States] /\ s.timer \in BOOLEAN
  BY DEF RfInv, RadioStates
<1>1. table = s.kernel
  BY <1>0, TablesAreKernel DEF RfInv
<1>2. Rf!EventsRead(s) = IF s.timer /\ change THEN t ELSE seen
  BY DEF Rf!EventsRead
<1> HIDE DEF table
<1>3. /\ told \in RadioStates /\ told.kernel = s.kernel /\ told.killswitches = s.kernel
      /\ told.events = <<>> /\ SameWrites(s, told) /\ SameModem(s, told)
  <2>1. told = [s EXCEPT !.killswitches = s.kernel, !.events = <<>>] /\ <<>> \in Seq(RfEventSet)
    BY <1>1
  <2> HIDE DEF told
  <2> QED
    BY <1>0, <2>1 DEF RadioStates, SameWrites, SameModem
<1> HIDE DEF told
<1>4. EventsFollow(told)
  BY <1>3, ChangedNot DEF EventsFollow
<1>5. /\ seen \in RadioStates /\ seen.shown = Rf!Getters(seen)
      /\ SameRadios(told, seen) /\ SameWrites(told, seen) /\ SameModem(told, seen)
  BY <1>3, AnnounceOps
<1> HIDE DEF seen
<1>6. EventsFollow(seen)
  BY <1>4, <1>5, SameRadiosFollow
<1>7. LastWriteCounts(seen) /\ TimerIsForTask(seen) /\ ModemIsKnown(seen)
  <2>1. SameWrites(s, seen) /\ SameModem(s, seen)
    BY <1>3, <1>5 DEF SameWrites, SameModem
  <2> QED
    BY <2>1 DEF RfInv, LastWriteCounts, TimerIsForTask, AllCancelled, ModemIsKnown, SameWrites, SameModem
<1>8. RfInv(seen)
  BY <1>5, <1>6, <1>7 DEF RfInv
<1>9. CASE s.timer /\ change
  <2>1. s.task = Unblock /\ seen.task = s.task /\ AllCancelled(seen)
    BY <1>3, <1>5, <1>7, <1>9 DEF RfInv, TimerIsForTask, AllCancelled, SameWrites
  <2>2. s.task \in Rf!ChangeAll
    BY <2>1 DEF Unblock, Rf!ChangeAll
  <2>3. /\ again \in RadioStates /\ EventsFollow(again) /\ LastWriteCounts(again)
        /\ SameShown(seen, again) /\ SameModem(seen, again)
    BY <1>5, <1>6, <2>1, <2>2, WriteAsyncOps
  <2> HIDE DEF again
  <2>4. /\ t \in RadioStates /\ ~t.timer /\ SameRadios(again, t) /\ SameShown(again, t)
        /\ SameModem(again, t) /\ t.writes = again.writes /\ t.task = again.task
    BY <2>3 DEF RadioStates, SameRadios, SameShown, SameModem
  <2> HIDE DEF t
  <2>5. EventsFollow(t) /\ LastWriteCounts(t) /\ TimerIsForTask(t)
    BY <2>3, <2>4, SameRadiosFollow DEF LastWriteCounts, TimerIsForTask
  <2>6. SameShown(seen, t) /\ ModemIsKnown(t)
    BY <1>7, <2>3, <2>4 DEF SameShown, SameModem, ModemIsKnown
  <2>7. t.shown = Rf!Getters(t)
    BY <1>5, <2>6, ShownStays
  <2> QED
    BY <1>2, <1>9, <2>4, <2>5, <2>6, <2>7 DEF RfInv
<1>10. CASE ~(s.timer /\ change)
  BY <1>2, <1>8, <1>10
<1> QED
  BY <1>9, <1>10

\* What is learned of the modem is announced.
LEMMA ModemOps ==
  ASSUME NEW s \in RadioStates, EventsFollow(s), LastWriteCounts(s), TimerIsForTask(s), ModemIsKnown(s)
  PROVE  RfInv(Rf!Announce(s))
<1> DEFINE t == Rf!Announce(s)
<1>1. /\ t \in RadioStates /\ t.shown = Rf!Getters(t)
      /\ SameRadios(s, t) /\ SameWrites(s, t) /\ SameModem(s, t)
  BY AnnounceOps
<1> HIDE DEF t
<1>2. EventsFollow(t)
  BY <1>1, SameRadiosFollow
<1>3. LastWriteCounts(t) /\ TimerIsForTask(t) /\ ModemIsKnown(t)
  BY <1>1 DEF LastWriteCounts, TimerIsForTask, AllCancelled, ModemIsKnown, SameWrites, SameModem
<1> QED
  BY <1>1, <1>2, <1>3 DEF RfInv, t

LEMMA SyncWwanOps ==
  ASSUME NEW s, RfInv(s), NEW t \in RadioStates, SameRadios(s, t), SameWrites(s, t), SameShown(s, t),
         t.wwan_interesting = t.modem
  PROVE  RfInv(Rf!SyncWwanEnabled(t))
<1>0. s \in RadioStates /\ EventsFollow(t) /\ t.shown = Rf!Getters(t)
  BY SameRadiosFollow, ShownStays DEF RfInv
<1>1. LastWriteCounts(t) /\ TimerIsForTask(t)
  BY DEF RfInv, LastWriteCounts, TimerIsForTask, AllCancelled, SameWrites
<1>2. CASE t.nm = "away"
  BY <1>0, <1>1, <1>2 DEF Rf!SyncWwanEnabled, RfInv, ModemIsKnown
<1>3. CASE t.nm # "away"
  <2> DEFINE on == (t.nm = "on")
             u  == [t EXCEPT !.wwan_enabled = on]
  <2>1. Rf!SyncWwanEnabled(t) = Rf!Announce(u)
    BY <1>3 DEF Rf!SyncWwanEnabled
  <2>2. on \in BOOLEAN
    OBVIOUS
  <2>3. /\ u \in RadioStates /\ u.wwan_enabled = on /\ u.nm = t.nm /\ u.modem = t.modem
        /\ u.wwan_interesting = t.wwan_interesting /\ SameRadios(t, u) /\ SameWrites(t, u)
    BY <2>2 DEF RadioStates, SameRadios, SameWrites
  <2>4. ModemIsKnown(u)
    BY <2>3 DEF ModemIsKnown
  <2> HIDE DEF u
  <2>5. EventsFollow(u) /\ LastWriteCounts(u) /\ TimerIsForTask(u)
    BY <1>0, <1>1, <2>3, SameRadiosFollow
       DEF LastWriteCounts, TimerIsForTask, AllCancelled, SameWrites
  <2> QED
    BY <2>1, <2>3, <2>4, <2>5, ModemOps
<1> QED
  BY <1>2, <1>3

\* The device file makes no difference to what is known.
LEMMA InhibitOps ==
  ASSUME NEW s, RfInv(s), NEW t \in RadioStates, SameRadios(s, t), SameWrites(s, t), SameShown(s, t),
         SameModem(s, t), NEW inhibit \in BOOLEAN, NEW opens \in BOOLEAN
  PROVE  RfInv(Rf!InhibitInput(t, inhibit, opens))
<1> DEFINE u == Rf!InhibitInput(t, inhibit, opens)
<1>1. \/ u = t
      \/ u = [t EXCEPT !.noinput = inhibit]
      \/ u = [t EXCEPT !.noinput_fd = inhibit, !.noinput = inhibit]
  BY DEF Rf!InhibitInput
<1> HIDE DEF u
<1>2. u \in RadioStates /\ SameRadios(t, u) /\ SameWrites(t, u) /\ SameShown(t, u) /\ SameModem(t, u)
  <2>1. CASE u = t
    BY <2>1 DEF SameRadios, SameWrites, SameShown, SameModem
  <2>2. CASE u = [t EXCEPT !.noinput = inhibit]
    BY <2>2 DEF RadioStates, SameRadios, SameWrites, SameShown, SameModem
  <2>3. CASE u = [t EXCEPT !.noinput_fd = inhibit, !.noinput = inhibit]
    BY <2>3 DEF RadioStates, SameRadios, SameWrites, SameShown, SameModem
  <2> QED
    BY <1>1, <2>1, <2>2, <2>3
<1>3. SameRadios(s, u) /\ SameWrites(s, u) /\ SameShown(s, u) /\ SameModem(s, u)
  BY <1>2 DEF SameRadios, SameWrites, SameShown, SameModem
<1>4. LastWriteCounts(u) /\ TimerIsForTask(u)
  BY <1>3 DEF RfInv, LastWriteCounts, TimerIsForTask, AllCancelled, SameWrites
<1> QED
  BY <1>2, <1>3, <1>4, OtherWrites DEF u

\* A switch changes: the event that says so is the last of it.
LEMMA KernelChangeInv == ASSUME RfInv(st), Rf!KernelChange PROVE RfInv(st')
<1>0. st \in RadioStates
  BY DEF RfInv
<1>1. PICK r \in Radios, state \in Rf!States :
        st' = [st EXCEPT !.kernel[r] = state,
                         !.events = Append(@, [radio |-> r, state |-> state,
                                               op |-> IF state = "gone" THEN "del"
                                                      ELSE IF st.kernel[r] = "gone" THEN "add"
                                                      ELSE "change"])]
  BY DEF Rf!KernelChange
<1> DEFINE op     == IF state = "gone" THEN "del" ELSE IF st.kernel[r] = "gone" THEN "add" ELSE "change"
           event  == [radio |-> r, state |-> state, op |-> op]
           kernel == [st.kernel EXCEPT ![r] = state]
           events == Append(st.events, event)
<1>2. st.events \in Seq(RfEventSet) /\ st.kernel \in [Radios -> Rf!States] /\ event \in RfEventSet
  BY <1>0 DEF RadioStates, RfEventSet
<1>3. st' = [st EXCEPT !.kernel = kernel, !.events = events]
  BY <1>1
<1>4. event.radio = r /\ event.state = state /\ (event.op = "del" <=> state = "gone")
  OBVIOUS
<1>5. kernel \in [Radios -> Rf!States] /\ kernel[r] = state /\ \A q \in Radios \ {r} : kernel[q] = st.kernel[q]
  BY <1>2
<1> HIDE DEF event, kernel
<1>6. /\ events \in Seq(RfEventSet) /\ Len(events) = Len(st.events) + 1
      /\ DOMAIN events = 1 .. Len(st.events) + 1 /\ DOMAIN st.events = 1 .. Len(st.events)
      /\ Len(st.events) \in Nat
      /\ \A i \in 1 .. Len(st.events) + 1 :
           \/ i = Len(st.events) + 1 /\ events[i] = event
           \/ i \in 1 .. Len(st.events) /\ events[i] = st.events[i]
  BY <1>2, Appended
<1> HIDE DEF events
<1>7. /\ st' \in RadioStates /\ st'.kernel = kernel /\ st'.events = events
      /\ st'.killswitches = st.killswitches
      /\ SameShown(st, st') /\ SameWrites(st, st') /\ SameModem(st, st')
  BY <1>0, <1>3, <1>5, <1>6 DEF RadioStates, SameShown, SameWrites, SameModem
<1>8. ASSUME NEW q \in Radios PROVE Rf!RfkillChanged(st')[q] = st'.kernel[q]
  <2>1. CASE q = r
    <3> DEFINE k == Len(st.events) + 1
    <3>1. k \in DOMAIN st'.events /\ st'.events[k] = event
      BY <1>6, <1>7
    <3>2. \A j \in DOMAIN st'.events : st'.events[j].radio = q => j <= k
      BY <1>6, <1>7
    <3>3. st'.events[k].radio = q
      BY <1>4, <2>1, <3>1
    <3> HIDE DEF k
    <3>4. Rf!RfkillChanged(st')[q] =
            IF st'.events[k].op = "del" THEN "gone" ELSE st'.events[k].state
      BY <1>7, <3>1, <3>2, <3>3, ChangedTo
    <3> QED
      BY <1>4, <1>5, <1>7, <2>1, <3>1, <3>4
  <2>2. CASE q # r
    <3>1. \A j \in DOMAIN st'.events : j > Len(st.events) => st'.events[j].radio # q
      BY <1>4, <1>6, <1>7, <2>2
    <3>2. Len(st.events) <= Len(st'.events) /\ \A j \in DOMAIN st.events : st'.events[j] = st.events[j]
      BY <1>6, <1>7
    <3>3. Rf!RfkillChanged(st')[q] = Rf!RfkillChanged(st)[q]
      BY <1>0, <1>7, <3>1, <3>2, ChangedByOthers
    <3> QED
      BY <1>5, <1>7, <2>2, <3>3 DEF RfInv, EventsFollow
  <2> QED
    BY <2>1, <2>2
<1>9. st'.shown = Rf!Getters(st')
  BY <1>7, ShownStays DEF RfInv
<1>10. LastWriteCounts(st') /\ TimerIsForTask(st') /\ ModemIsKnown(st')
  BY <1>7 DEF RfInv, LastWriteCounts, TimerIsForTask, AllCancelled, ModemIsKnown, SameWrites, SameModem
<1> QED
  BY <1>7, <1>8, <1>9, <1>10 DEF RfInv, EventsFollow

LEMMA RfNextInv == ASSUME RfInv(st), [Rf!RfNext]_st PROVE RfInv(st')
<1>0. st \in RadioStates /\ EventsFollow(st) /\ LastWriteCounts(st) /\ TimerIsForTask(st) /\ ModemIsKnown(st)
  BY DEF RfInv
<1>1. CASE Rf!SetAirplaneMode
  <2>1. PICK event \in Rf!ChangeAll :
          LET s == Rf!SendChangeAll(st, event)
          IN st' = IF st.nm_client /\ event.type # "bluetooth"
                   THEN [s EXCEPT !.nm_calls = Append(@, ~event.soft)]
                   ELSE s
    BY <1>1 DEF Rf!SetAirplaneMode
  <2> DEFINE s     == Rf!SendChangeAll(st, event)
             on    == ~event.soft
             calls == Append(s.nm_calls, on)
  <2>2. RfInv(s)
    BY SendChangeAllOps
  <2>3. st' = s \/ st' = [s EXCEPT !.nm_calls = calls]
    BY <2>1
  <2> HIDE DEF s
  <2>4. s.nm_calls \in Seq(BOOLEAN) /\ on \in BOOLEAN
    BY <2>2 DEF RfInv, RadioStates
  <2> HIDE DEF on
  <2>5. calls \in Seq(BOOLEAN)
    BY <2>4
  <2> HIDE DEF calls
  <2>6. CASE st' = s
    BY <2>2, <2>6
  <2>7. CASE st' = [s EXCEPT !.nm_calls = calls]
    <3>1. /\ st' \in RadioStates /\ SameRadios(s, st') /\ SameShown(s, st') /\ SameModem(s, st')
          /\ SameWrites(s, st')
      BY <2>2, <2>5, <2>7 DEF RfInv, RadioStates, SameRadios, SameShown, SameModem, SameWrites
    <3>2. LastWriteCounts(st') /\ TimerIsForTask(st')
      BY <2>2, <3>1 DEF RfInv, LastWriteCounts, TimerIsForTask, AllCancelled, SameWrites
    <3> QED
      BY <2>2, <3>1, <3>2, OtherWrites
  <2> QED
    BY <2>3, <2>6, <2>7
<1>2. CASE Rf!WriteCompletes
  <2>1. PICK fails \in BOOLEAN : st' = Rf!WriteDone(st, fails)
    BY <1>2 DEF Rf!WriteCompletes
  <2> QED
    BY <1>2, <2>1, WriteDoneOps DEF Rf!WriteCompletes
<1>3. CASE Rf!WriteTimeout
  <2>1. st.timer /\ st' = [st EXCEPT !.timer = FALSE, !.task = Rf!NoTask]
    BY <1>3 DEF Rf!WriteTimeout
  <2>2. /\ st' \in RadioStates /\ SameRadios(st, st') /\ SameShown(st, st') /\ SameModem(st, st')
        /\ ~st'.timer /\ st'.writes = st.writes
    BY <1>0, <2>1 DEF RadioStates, SameRadios, SameShown, SameModem, Rf!NoTask
  <2>3. LastWriteCounts(st') /\ TimerIsForTask(st')
    BY <1>0, <2>1, <2>2 DEF LastWriteCounts, TimerIsForTask, AllCancelled
  <2> QED
    BY <2>2, <2>3, OtherWrites
<1>4. CASE Rf!ReadEvents
  BY <1>4, EventsReadOps DEF Rf!ReadEvents
<1>5. CASE Rf!KernelChange
  BY <1>5, KernelChangeInv
<1>6. CASE Rf!DeviceFileAppears
  <2> DEFINE t == [st EXCEPT !.stream = TRUE]
  <2>1. PICK opens \in BOOLEAN : st' = Rf!InhibitInput(t, st.noinput, opens)
    BY <1>6 DEF Rf!DeviceFileAppears
  <2>2. /\ t \in RadioStates /\ st.noinput \in BOOLEAN
        /\ SameRadios(st, t) /\ SameWrites(st, t) /\ SameShown(st, t) /\ SameModem(st, t)
    BY <1>0 DEF RadioStates, SameRadios, SameWrites, SameShown, SameModem
  <2> HIDE DEF t
  <2> QED
    BY <2>1, <2>2, InhibitOps
<1>7. CASE Rf!SessionSwitches
  <2> DEFINE active == ~st.session_is_active
             t      == [st EXCEPT !.session_is_active = active]
  <2>1. PICK opens \in BOOLEAN : st' = Rf!InhibitInput(t, active, opens)
    BY <1>7 DEF Rf!SessionSwitches
  <2>2. active \in BOOLEAN
    OBVIOUS
  <2> HIDE DEF active
  <2>3. /\ t \in RadioStates
        /\ SameRadios(st, t) /\ SameWrites(st, t) /\ SameShown(st, t) /\ SameModem(st, t)
    BY <1>0, <2>2 DEF RadioStates, SameRadios, SameWrites, SameShown, SameModem
  <2> HIDE DEF t
  <2> QED
    BY <2>1, <2>2, <2>3, InhibitOps
<1>8. CASE Rf!NmProxyGotten
  <2> DEFINE t == [st EXCEPT !.nm_client = TRUE]
  <2>1. st' = Rf!SyncWwanEnabled(t)
    BY <1>8 DEF Rf!NmProxyGotten
  <2>2. /\ t \in RadioStates /\ SameRadios(st, t) /\ SameWrites(st, t) /\ SameShown(st, t)
        /\ t.wwan_interesting = t.modem
    BY <1>0 DEF RadioStates, SameRadios, SameWrites, SameShown, ModemIsKnown
  <2> HIDE DEF t
  <2> QED
    BY <2>1, <2>2, SyncWwanOps
<1>9. CASE Rf!NmChanges
  <2>1. CASE st.nm_calls # <<>> /\
             st' = LET s == [st EXCEPT !.nm_calls = Tail(@)]
                   IN IF s.nm = "away" THEN s
                      ELSE Rf!SyncWwanEnabled([s EXCEPT !.nm = IF Head(st.nm_calls) THEN "on" ELSE "off"])
    <3> DEFINE rest == Tail(st.nm_calls)
               s    == [st EXCEPT !.nm_calls = rest]
               nm   == IF Head(st.nm_calls) THEN "on" ELSE "off"
               t    == [s EXCEPT !.nm = nm]
    <3>1. st' = IF s.nm = "away" THEN s ELSE Rf!SyncWwanEnabled(t)
      BY <2>1
    <3>2. rest \in Seq(BOOLEAN)
      BY <1>0, <2>1, Tailed DEF RadioStates
    <3>3. nm \in {"on", "off"}
      OBVIOUS
    <3> HIDE DEF rest, nm
    <3>4. /\ s \in RadioStates /\ SameRadios(st, s) /\ SameWrites(st, s) /\ SameShown(st, s)
          /\ SameModem(st, s)
      BY <1>0, <3>2 DEF RadioStates, SameRadios, SameWrites, SameShown, SameModem
    <3>5. s.wwan_interesting = s.modem
      BY <1>0, <3>4 DEF SameModem, ModemIsKnown
    <3> HIDE DEF s
    <3>6. /\ t \in RadioStates /\ SameRadios(s, t) /\ SameWrites(s, t) /\ SameShown(s, t)
          /\ t.wwan_interesting = t.modem
      BY <3>3, <3>4, <3>5 DEF RadioStates, SameRadios, SameWrites, SameShown
    <3> HIDE DEF t
    <3>7. LastWriteCounts(s) /\ TimerIsForTask(s)
      BY <1>0, <3>4 DEF LastWriteCounts, TimerIsForTask, AllCancelled, SameWrites
    <3>8. RfInv(s)
      BY <3>4, <3>7, OtherWrites
    <3>9. RfInv(Rf!SyncWwanEnabled(t))
      BY <3>6, <3>8, SyncWwanOps
    <3> QED
      BY <3>1, <3>8, <3>9
  <2>2. CASE \E nm \in {"away", "on", "off"} \ {st.nm} : st' = Rf!SyncWwanEnabled([st EXCEPT !.nm = nm])
    <3>1. PICK nm \in {"away", "on", "off"} : st' = Rf!SyncWwanEnabled([st EXCEPT !.nm = nm])
      BY <2>2
    <3> DEFINE t == [st EXCEPT !.nm = nm]
    <3>2. /\ t \in RadioStates /\ SameRadios(st, t) /\ SameWrites(st, t) /\ SameShown(st, t)
          /\ t.wwan_interesting = t.modem
      BY <1>0 DEF RadioStates, SameRadios, SameWrites, SameShown, ModemIsKnown
    <3>3. st' = Rf!SyncWwanEnabled(t)
      BY <3>1
    <3> HIDE DEF t
    <3> QED
      BY <3>2, <3>3, SyncWwanOps
  <2> QED
    BY <1>9, <2>1, <2>2 DEF Rf!NmChanges
<1>10. CASE Rf!ModemChanges
  <2> DEFINE modem == ~st.modem
             t     == [st EXCEPT !.modem = modem]
             u     == [t EXCEPT !.wwan_interesting = t.modem]
  <2>1. st' = Rf!Announce(u)
    BY <1>10 DEF Rf!ModemChanges, Rf!SyncWwanInteresting
  <2>2. modem \in BOOLEAN
    OBVIOUS
  <2> HIDE DEF modem
  <2>3. /\ t \in RadioStates /\ SameRadios(st, t) /\ SameWrites(st, t)
        /\ t.nm = st.nm /\ t.nm_client = st.nm_client /\ t.wwan_enabled = st.wwan_enabled
    BY <1>0, <2>2 DEF RadioStates, SameRadios, SameWrites
  <2> HIDE DEF t
  <2>4. /\ u \in RadioStates /\ SameRadios(st, u) /\ SameWrites(st, u) /\ u.wwan_interesting = u.modem
        /\ u.nm = st.nm /\ u.nm_client = st.nm_client /\ u.wwan_enabled = st.wwan_enabled
    BY <2>3 DEF RadioStates, SameRadios, SameWrites
  <2> HIDE DEF u
  <2>5. EventsFollow(u)
    BY <1>0, <2>4, SameRadiosFollow
  <2>6. LastWriteCounts(u) /\ TimerIsForTask(u) /\ ModemIsKnown(u)
    BY <1>0, <2>4 DEF LastWriteCounts, TimerIsForTask, AllCancelled, ModemIsKnown, SameWrites
  <2> QED
    BY <2>1, <2>4, <2>5, <2>6, ModemOps
<1>11. CASE UNCHANGED st
  BY <1>11
<1> QED
  BY <1>1, <1>2, <1>3, <1>4, <1>5, <1>6, <1>7, <1>8, <1>9, <1>10, <1>11 DEF Rf!RfNext

LEMMA RfInitInv == ASSUME Rf!RfInit PROVE RfInv(st)
<1>1. PICK may \in RfWorlds, present \in SUBSET Radios :
        LET table == [r \in Radios |-> IF r \in present THEN "soft" ELSE "gone"]
            s == [may |-> may, kernel |-> table, killswitches |-> table, events |-> <<>>,
                  stream |-> "late" \notin may, task |-> Rf!NoTask, timer |-> FALSE, writes |-> <<>>,
                  noinput |-> TRUE, noinput_fd |-> "late" \notin may, session_is_active |-> TRUE,
                  nm_client |-> FALSE, nm |-> "on", wwan_enabled |-> FALSE,
                  wwan_interesting |-> FALSE, modem |-> FALSE, nm_calls |-> <<>>,
                  shown |-> [p \in Rf!Properties |-> FALSE]]
        IN st = Rf!Announce(s)
  BY DEF Rf!RfInit
<1> DEFINE table  == [r \in Radios |-> IF r \in present THEN "soft" ELSE "gone"]
           stream == "late" \notin may
           shown  == [p \in Rf!Properties |-> FALSE]
           s == [may |-> may, kernel |-> table, killswitches |-> table, events |-> <<>>,
                 stream |-> stream, task |-> Rf!NoTask, timer |-> FALSE, writes |-> <<>>,
                 noinput |-> TRUE, noinput_fd |-> stream, session_is_active |-> TRUE,
                 nm_client |-> FALSE, nm |-> "on", wwan_enabled |-> FALSE,
                 wwan_interesting |-> FALSE, modem |-> FALSE, nm_calls |-> <<>>, shown |-> shown]
           g == Rf!Getters(s)
<1>2. st = [s EXCEPT !.shown = g]
  BY <1>1 DEF Rf!Announce
<1>3. table \in [Radios -> Rf!States] /\ stream \in BOOLEAN
  BY DEF Rf!States
<1>4. <<>> \in Seq(RfEventSet) /\ <<>> \in Seq(RfWriteSet) /\ <<>> \in Seq(BOOLEAN)
  OBVIOUS
<1>5. s.wwan_enabled \in BOOLEAN /\ s.wwan_interesting \in BOOLEAN
  OBVIOUS
<1>6. g \in ShownStates
  <2> HIDE DEF s
  <2> QED
    BY <1>5, GettersType
<1> HIDE DEF table, stream, shown, g
<1>7. st = [may |-> may, kernel |-> table, killswitches |-> table, events |-> <<>>,
            stream |-> stream, task |-> Rf!NoTask, timer |-> FALSE, writes |-> <<>>,
            noinput |-> TRUE, noinput_fd |-> stream, session_is_active |-> TRUE,
            nm_client |-> FALSE, nm |-> "on", wwan_enabled |-> FALSE,
            wwan_interesting |-> FALSE, modem |-> FALSE, nm_calls |-> <<>>, shown |-> g]
  BY <1>2
<1>8. /\ st \in RadioStates /\ st.kernel = table /\ st.killswitches = table /\ st.events = <<>>
      /\ st.writes = <<>> /\ ~st.timer /\ st.wwan_interesting = st.modem /\ ~st.nm_client
      /\ st.shown = g
  BY <1>3, <1>4, <1>6, <1>7 DEF RadioStates, Rf!NoTask
<1>9. st.shown = Rf!Getters(st)
  <2>1. st.killswitches = s.killswitches /\ st.wwan_enabled = s.wwan_enabled
        /\ st.wwan_interesting = s.wwan_interesting
    BY <1>7
  <2> QED
    BY <1>8, <2>1, SameGetters DEF g
<1>10. EventsFollow(st)
  BY <1>8, ChangedNot DEF EventsFollow
<1>11. LastWriteCounts(st) /\ TimerIsForTask(st) /\ ModemIsKnown(st)
  BY <1>8 DEF LastWriteCounts, TimerIsForTask, ModemIsKnown
<1> QED
  BY <1>8, <1>9, <1>10, <1>11 DEF RfInv

LEMMA RfInvFollows == ASSUME RfInv(st) PROVE Rf!TimerHasTask /\ Rf!AirplaneModeIsOff
<1>0. st \in RadioStates /\ TimerIsForTask(st) /\ ModemIsKnown(st) /\ EventsFollow(st)
  BY DEF RfInv
<1>1. Rf!TimerHasTask
  BY <1>0 DEF TimerIsForTask, AllCancelled, Unblock, Rf!TimerHasTask
<1>2. ASSUME st.events = <<>>, st.shown.airplane
      PROVE  /\ \A r \in Radios : st.kernel[r] # "unblocked"
             /\ st.modem /\ st.nm_client => st.nm # "on"
  <2>1. Rf!AllDown(st, "all") /\ (st.wwan_interesting => ~st.wwan_enabled)
    <3>1. st.shown = Rf!Getters(st)
      BY DEF RfInv
    <3>2. Rf!Getters(st).airplane = Rf!AirplaneMode(st)
      BY DEF Rf!Getters
    <3>3. Rf!AirplaneMode(st)
      BY <1>2, <3>1, <3>2
    <3> QED
      BY <3>3 DEF Rf!AirplaneMode
  <2>2. \A r \in Radios : st.kernel[r] = st.killswitches[r]
    BY <1>0, <1>2, ChangedNot DEF EventsFollow
  <2>3. \A r \in Radios : st.kernel[r] # "unblocked"
    BY <2>1, <2>2 DEF Rf!AllDown, Rf!Table
  <2> QED
    BY <1>0, <2>1, <2>3 DEF ModemIsKnown
<1> QED
  BY <1>1, <1>2 DEF Rf!AirplaneModeIsOff

\* Once every event of the kernel has been read, clients have been told that
\* airplane mode is on only if no radio is (gsd-rfkill-manager.c:
\* engine_properties_changed), and the timer of the second Bluetooth write runs
\* only while the newest request is what it is for (rfkill-glib.c: rfkill->task).
THEOREM KillSwitchesCorrect == SessionSpec => []KillSwitchesFollow
<1> DEFINE Inv == daemon = "rfkill" => RfInv(st)
<1>1. SessionInit => Inv
  BY RfInitInv DEF SessionInit
<1>2. Inv /\ [SessionNext]_vars => Inv'
  <2> SUFFICES ASSUME Inv, [SessionNext]_vars, (daemon = "rfkill")' PROVE RfInv(st')
    OBVIOUS
  <2>1. daemon = "rfkill" /\ [Rf!RfNext]_st
    BY DEF SessionNext, Of, vars
  <2> QED
    BY <2>1, RfNextInv
<1>3. Inv => KillSwitchesFollow
  BY RfInvFollows DEF KillSwitchesFollow
<1> QED
  BY <1>1, <1>2, <1>3, PTL DEF SessionSpec

-------------------------------------------------------------------------------
(***************************************************************************)
(* Disk space: while a volume that was warned about has an entry, the entry   *)
(* is no older than the warning, as the time of an entry is that of the last   *)
(* check that would have warned of the volume.                                *)
(***************************************************************************)

\* A set of numbers that is not empty has a smallest one.
LEMMA LeastElement ==
  ASSUME NEW T \in SUBSET Nat, T # {}
  PROVE  \E n \in T : \A m \in T : n <= m
<1> DEFINE S == {n \in Nat : \A m \in T : n <= m}
<1> SUFFICES ASSUME ~ \E n \in T : \A m \in T : n <= m PROVE FALSE
  OBVIOUS
<1>1. 0 \in S
  OBVIOUS
<1>2. ASSUME NEW n \in S PROVE n + 1 \in S
  OBVIOUS
<1>3. S = Nat
  <2>1. S \in SUBSET Nat
    OBVIOUS
  <2> HIDE DEF S
  <2> QED
    BY <1>1, <1>2, <2>1, NumbersInduction
<1>4. PICK n \in T : TRUE
  OBVIOUS
<1>5. n + 1 \in S
  BY <1>3, <1>4
<1> QED
  BY <1>4, <1>5

DiskEntries == [free : 0 .. FullSpace, time : Nat, known : BOOLEAN]

\* The state is a record of these fields.  Which volumes are mounted and which
\* are ignored has not to be known.
DiskStates(s) ==
  [may : {s.may}, free : [Dk!Volumes -> 0 .. FullSpace], mounted : {s.mounted},
   mounts_changed : {s.mounts_changed}, ignore : {s.ignore}, ignore_paths : {s.ignore_paths},
   hash : [Dk!Volumes -> DiskEntries], notification : {s.notification}, minute : Nat,
   shown : [Dk!Volumes -> Nat], warned : {s.warned}]

EntriesFollow(s) ==
  \A v \in Dk!Volumes : /\ s.shown[v] <= s.minute
                        /\ v \in s.warned /\ s.hash[v].known => s.shown[v] <= s.hash[v].time

DkInv(s) == s \in DiskStates(s) /\ EntriesFollow(s)

\* All but the hash is as it was.
SameDisk(s, t) ==
  /\ t.may = s.may /\ t.free = s.free /\ t.mounted = s.mounted
  /\ t.ignore_paths = s.ignore_paths /\ t.notification = s.notification
  /\ t.minute = s.minute /\ t.shown = s.shown /\ t.warned = s.warned

\* Entries that are dropped, or follow, keep the invariant.
LEMMA HashInv ==
  ASSUME NEW s, DkInv(s), NEW hash \in [Dk!Volumes -> DiskEntries],
         \A v \in Dk!Volumes : \/ hash[v] = s.hash[v] \/ ~hash[v].known
                               \/ hash[v].time \in {s.minute, s.hash[v].time} /\ s.hash[v].known
                               \/ hash[v].time = s.minute
  PROVE  DkInv([s EXCEPT !.hash = hash]) /\ SameDisk(s, [s EXCEPT !.hash = hash])
<1> DEFINE t == [s EXCEPT !.hash = hash]
<1>1. s \in DiskStates(s)
  BY DEF DkInv
<1>2. t \in DiskStates(t) /\ SameDisk(s, t) /\ t.hash = hash
  BY <1>1 DEF DiskStates, SameDisk
<1> HIDE DEF t
<1>3. EntriesFollow(t)
  <2> SUFFICES ASSUME NEW v \in Dk!Volumes
               PROVE  /\ t.shown[v] <= t.minute
                      /\ v \in t.warned /\ t.hash[v].known => t.shown[v] <= t.hash[v].time
    BY DEF EntriesFollow
  <2>1. /\ s.shown[v] <= s.minute
        /\ v \in s.warned /\ s.hash[v].known => s.shown[v] <= s.hash[v].time
    BY DEF DkInv, EntriesFollow
  <2>2. t.shown[v] = s.shown[v] /\ t.minute = s.minute /\ t.hash[v] = hash[v] /\ t.warned = s.warned
    BY <1>2 DEF SameDisk
  <2> QED
    BY <2>1, <2>2
<1> QED
  BY <1>2, <1>3 DEF DkInv, t

\* Who is told of what: the volume was low, and it is long ago that it was told of.
ToldInTime(s, t) ==
  \A v \in Dk!Volumes :
    s.notification = "none" /\ t.notification = v =>
      /\ v \in Dk!Checked(s) /\ ~Dk!HasSpace(s, v)
      /\ v \in s.warned /\ s.hash[v].known => s.minute > s.shown[v] + MinNotifyPeriod

LEMMA NotifyInv ==
  ASSUME NEW s, DkInv(s), NEW v \in Dk!Volumes, s.hash[v].time = s.minute
  PROVE  DkInv(Dk!LdsmNotify(s, v)) /\ Dk!LdsmNotify(s, v).minute = s.minute
         /\ (s.notification = "none" => Dk!LdsmNotify(s, v).notification = v)
<1>1. s \in DiskStates(s) /\ EntriesFollow(s)
  BY DEF DkInv
<1>2. CASE s.notification # "none"
  BY <1>2 DEF Dk!LdsmNotify
<1>3. CASE s.notification = "none"
  <2> DEFINE shown == [s.shown EXCEPT ![v] = s.minute]
             warned == s.warned \cup {v}
             t == Dk!LdsmNotify(s, v)
  <2>1. t = [s EXCEPT !.notification = v, !.shown = shown, !.warned = warned]
    BY <1>1, <1>3 DEF Dk!LdsmNotify, DiskStates
  <2>2. /\ shown \in [Dk!Volumes -> Nat] /\ shown[v] = s.minute
        /\ \A w \in Dk!Volumes : w # v => shown[w] = s.shown[w]
    BY <1>1 DEF DiskStates
  <2> HIDE DEF shown, t, warned
  <2>3. /\ t \in DiskStates(t) /\ t.shown = shown /\ t.warned = warned /\ t.hash = s.hash
        /\ t.minute = s.minute /\ t.notification = v
    BY <1>1, <2>1, <2>2 DEF DiskStates
  <2>4. EntriesFollow(t)
    <3> SUFFICES ASSUME NEW w \in Dk!Volumes
                 PROVE  /\ shown[w] <= s.minute
                        /\ w \in warned /\ s.hash[w].known => shown[w] <= s.hash[w].time
      BY <2>3 DEF EntriesFollow
    <3>1. s.minute \in Nat
      BY <1>1 DEF DiskStates
    <3>2. CASE w = v
      BY <2>2, <3>1, <3>2
    <3>3. CASE w # v
      <4>1. shown[w] = s.shown[w] /\ (w \in warned => w \in s.warned)
        BY <2>2, <3>3 DEF warned
      <4> QED
        BY <1>1, <4>1 DEF EntriesFollow
    <3> QED
      BY <3>2, <3>3
  <2> QED
    BY <2>3, <2>4 DEF DkInv, t
<1> QED
  BY <1>2, <1>3

\* A volume of which is told at once has a verdict for that.
LEMMA VerdictOps ==
  ASSUME NEW s, DkInv(s), NEW v \in Dk!Volumes
  PROVE  /\ Dk!Verdict(s, v) = "warn" /\ v \in s.warned /\ s.hash[v].known
              => s.minute > s.shown[v] + MinNotifyPeriod
         /\ Dk!Noted(s, v) \in DiskEntries
         /\ Dk!Verdict(s, v) = "warn" => Dk!Noted(s, v).time = s.minute
         /\ Dk!Noted(s, v).time \in {s.minute, s.hash[v].time}
         /\ Dk!Verdict(s, v) = "too_soon" => s.hash[v].known
<1>1. s \in DiskStates(s) /\ EntriesFollow(s)
  BY DEF DkInv
<1>2. /\ s.hash[v] \in DiskEntries /\ s.free[v] \in 0 .. FullSpace /\ s.minute \in Nat
      /\ s.shown[v] \in Nat
  BY <1>1 DEF DiskStates
<1>3. /\ s.hash[v].time \in Nat /\ s.hash[v].known \in BOOLEAN
  BY <1>2 DEF DiskEntries
<1>4. /\ Dk!Noted(s, v) \in DiskEntries
      /\ Dk!Verdict(s, v) = "warn" => Dk!Noted(s, v).time = s.minute
      /\ Dk!Noted(s, v).time \in {s.minute, s.hash[v].time}
  BY <1>2, <1>3 DEF Dk!Noted, DiskEntries
<1>5. Dk!Verdict(s, v) = "too_soon" => s.hash[v].known
  BY DEF Dk!Verdict
<1>6. ASSUME Dk!Verdict(s, v) = "warn", v \in s.warned, s.hash[v].known
      PROVE  s.minute > s.shown[v] + MinNotifyPeriod
  <2>1. s.minute > s.hash[v].time + MinNotifyPeriod
    BY <1>6 DEF Dk!Verdict
  <2>2. s.shown[v] <= s.hash[v].time
    BY <1>1, <1>6 DEF EntriesFollow
  <2>3. s.minute > s.shown[v] + MinNotifyPeriod
    <3>1. MinNotifyPeriod \in Nat
      BY DiskAssumption
    <3> QED
      BY <1>2, <1>3, <2>1, <2>2, <3>1
  <2> QED
    BY <2>3
<1> QED
  BY <1>4, <1>5, <1>6

LEMMA MaybeWarnMountsInv ==
  ASSUME NEW s, DkInv(s)
  PROVE  /\ DkInv(Dk!MaybeWarnMounts(s)) /\ ToldInTime(s, Dk!MaybeWarnMounts(s))
         /\ Dk!MaybeWarnMounts(s).minute = s.minute
<1> DEFINE low     == {i \in DOMAIN Fstab : Fstab[i] \in Dk!Checked(s) /\ ~Dk!HasSpace(s, Fstab[i])}
           warn    == {i \in low : Dk!Verdict(s, Fstab[i]) = "warn"}
           reached == {Fstab[i] : i \in {k \in low : \A j \in warn : k <= j}}
           noted   == {v \in reached : Dk!Verdict(s, v) # "leave"}
           hash    == [v \in Dk!Volumes |-> IF v \in noted THEN Dk!Noted(s, v) ELSE s.hash[v]]
           t       == [s EXCEPT !.hash = hash]
           u       == Dk!MaybeWarnMounts(s)
<1>0. s \in DiskStates(s) /\ EntriesFollow(s)
  BY DEF DkInv
<1>1. u = IF warn = {} THEN t ELSE Dk!LdsmNotify(t, Fstab[Dk!Min(warn)])
  BY <1>0 DEF Dk!MaybeWarnMounts, DiskStates
<1>2. \A i \in DOMAIN Fstab : Fstab[i] \in Dk!Volumes /\ i \in Nat
  BY DiskAssumption
<1>3. hash \in [Dk!Volumes -> DiskEntries]
  BY <1>0, VerdictOps DEF DiskStates
<1>4. \A v \in Dk!Volumes : \/ hash[v] = s.hash[v]
                            \/ hash[v].time \in {s.minute, s.hash[v].time} /\ s.hash[v].known
                            \/ hash[v].time = s.minute
  <2> SUFFICES ASSUME NEW v \in Dk!Volumes, v \in noted
               PROVE  \/ hash[v].time \in {s.minute, s.hash[v].time} /\ s.hash[v].known
                      \/ hash[v].time = s.minute
    OBVIOUS
  <2>1. hash[v] = Dk!Noted(s, v)
    OBVIOUS
  <2>2. Dk!Verdict(s, v) \in {"warn", "too_soon"}
    BY DEF Dk!Verdict
  <2> HIDE DEF hash
  <2> QED
    BY <2>1, <2>2, VerdictOps
<1>5. ASSUME warn # {} PROVE Dk!Min(warn) \in warn /\ \A j \in warn : Dk!Min(warn) <= j
  <2>1. warn \in SUBSET Nat
    BY <1>2
  <2> HIDE DEF warn
  <2>2. \E n \in warn : \A m \in warn : n <= m
    BY <1>5, <2>1, LeastElement
  <2> QED
    BY <2>2 DEF Dk!Min
<1>6. CASE warn = {}
  <2>1. u = t
    BY <1>1, <1>6
  <2> HIDE DEF t, hash, u
  <2>2. DkInv(t) /\ SameDisk(s, t)
    BY <1>3, <1>4, HashInv DEF t
  <2>3. \A v \in Dk!Volumes : s.notification = "none" => t.notification # v
    BY <2>2, DiskAssumption DEF SameDisk
  <2> QED
    BY <2>1, <2>2, <2>3 DEF ToldInTime, u, SameDisk
<1>7. CASE warn # {}
  <2> DEFINE v == Fstab[Dk!Min(warn)]
  <2>1. u = Dk!LdsmNotify(t, v)
    BY <1>1, <1>7
  <2>2. /\ v \in Dk!Volumes /\ v \in Dk!Checked(s) /\ ~Dk!HasSpace(s, v)
        /\ Dk!Verdict(s, v) = "warn" /\ v \in noted
    <3> DEFINE i == Dk!Min(warn)
    <3>1. i \in warn /\ \A j \in warn : i <= j
      BY <1>5, <1>7
    <3> HIDE DEF i
    <3>2. v = Fstab[i]
      BY DEF i
    <3> QED
      BY <1>2, <3>1, <3>2
  <2> HIDE DEF v
  <2>3. hash[v].time = s.minute
    BY <2>2, VerdictOps
  <2> HIDE DEF t, hash, u
  <2>5. DkInv(t) /\ SameDisk(s, t)
    BY <1>3, <1>4, HashInv DEF t
  <2>6. t.hash = hash
    BY <1>0 DEF t, DiskStates
  <2>7. t.hash[v].time = t.minute
    BY <2>3, <2>5, <2>6 DEF SameDisk
  <2>8. DkInv(u) /\ u.minute = t.minute /\ (t.notification = "none" => u.notification = v)
    BY <2>1, <2>2, <2>5, <2>7, NotifyInv
  <2>9. v \in s.warned /\ s.hash[v].known => s.minute > s.shown[v] + MinNotifyPeriod
    BY <2>2, VerdictOps
  <2> QED
    BY <2>2, <2>5, <2>8, <2>9 DEF ToldInTime, SameDisk, u
<1> QED
  BY <1>6, <1>7

LEMMA CheckAllMountsInv ==
  ASSUME NEW s, DkInv(s)
  PROVE  /\ DkInv(Dk!LdsmCheckAllMounts(s)) /\ ToldInTime(s, Dk!LdsmCheckAllMounts(s))
         /\ Dk!LdsmCheckAllMounts(s).minute = s.minute
<1> DEFINE hash == [v \in Dk!Volumes |-> IF v \in Dk!Checked(s) /\ Dk!HasSpace(s, v) THEN Dk!NoEntry
                                         ELSE s.hash[v]]
           t    == [s EXCEPT !.hash = hash]
           u    == Dk!MaybeWarnMounts(t)
<1>0. s \in DiskStates(s)
  BY DEF DkInv
<1>1. Dk!LdsmCheckAllMounts(s) = u
  BY <1>0 DEF Dk!LdsmCheckAllMounts, Dk!ForgetRecovered, DiskStates
<1>2. hash \in [Dk!Volumes -> DiskEntries] /\ \A v \in Dk!Volumes : hash[v] = s.hash[v] \/ ~hash[v].known
  BY <1>0, DiskAssumption DEF DiskStates, DiskEntries, Dk!NoEntry
<1> HIDE DEF hash, u
<1>3. DkInv(t) /\ SameDisk(s, t)
  BY <1>2, HashInv
<1>4. t.hash = hash
  BY <1>0 DEF DiskStates
<1> HIDE DEF t
<1>5. DkInv(u) /\ ToldInTime(t, u) /\ u.minute = t.minute
  BY <1>3, MaybeWarnMountsInv DEF u
<1>6. ToldInTime(s, u)
  <2> SUFFICES ASSUME NEW v \in Dk!Volumes, s.notification = "none", u.notification = v
               PROVE  /\ v \in Dk!Checked(s) /\ ~Dk!HasSpace(s, v)
                      /\ v \in s.warned /\ s.hash[v].known => s.minute > s.shown[v] + MinNotifyPeriod
    BY DEF ToldInTime
  <2>1. /\ v \in Dk!Checked(t) /\ ~Dk!HasSpace(t, v)
        /\ v \in t.warned /\ t.hash[v].known => t.minute > t.shown[v] + MinNotifyPeriod
    BY <1>3, <1>5 DEF ToldInTime, SameDisk
  <2>2. v \in Dk!Checked(s) /\ ~Dk!HasSpace(s, v)
    BY <1>3, <2>1 DEF SameDisk, Dk!Checked, Dk!HasSpace
  <2>3. t.hash[v] = s.hash[v]
    BY <1>4, <2>2 DEF hash
  <2> QED
    BY <1>3, <2>1, <2>2, <2>3 DEF SameDisk
<1> QED
  BY <1>1, <1>3, <1>5, <1>6 DEF SameDisk

\* What a step of the daemon means for the volumes it tells of.
RepeatWaits(s, t) ==
  \A v \in Dk!Volumes :
    v \in s.warned /\ s.notification = "none" /\ t.notification = v /\ s.hash[v].known
      => t.minute > s.shown[v] + MinNotifyPeriod

LEMMA ChecksInv ==
  ASSUME DkInv(st), Dk!CheckTimer \/ Dk!MountsChanged
  PROVE  DkInv(st') /\ RepeatWaits(st, st')
<1>0. st \in DiskStates(st) /\ EntriesFollow(st)
  BY DEF DkInv
<1>1. CASE Dk!CheckTimer
  <2> DEFINE s == [st EXCEPT !.minute = @ + 1]
  <2>1. st' = Dk!LdsmCheckAllMounts(s)
    BY <1>1 DEF Dk!CheckTimer
  <2>2. /\ s \in DiskStates(s) /\ s.minute = st.minute + 1 /\ s.hash = st.hash
        /\ s.shown = st.shown /\ s.warned = st.warned /\ s.notification = st.notification
    BY <1>0 DEF DiskStates
  <2> HIDE DEF s
  <2>3. EntriesFollow(s)
    BY <1>0, <2>2 DEF EntriesFollow, DiskStates
  <2>4. DkInv(st') /\ ToldInTime(s, st') /\ st'.minute = s.minute
    BY <2>1, <2>2, <2>3, CheckAllMountsInv DEF DkInv
  <2> QED
    BY <2>2, <2>4 DEF ToldInTime, RepeatWaits
<1>2. CASE Dk!MountsChanged
  <2> DEFINE hash == [v \in Dk!Volumes |-> IF v \in st.mounted THEN st.hash[v] ELSE Dk!NoEntry]
             r == [st EXCEPT !.mounts_changed = FALSE]
             s == [r EXCEPT !.hash = hash]
  <2>1. st' = Dk!LdsmCheckAllMounts(s)
    BY <1>0, <1>2 DEF Dk!MountsChanged, DiskStates
  <2>2. r \in DiskStates(r) /\ SameDisk(st, r) /\ r.hash = st.hash
    BY <1>0 DEF DiskStates, SameDisk
  <2>3. /\ hash \in [Dk!Volumes -> DiskEntries]
        /\ \A v \in Dk!Volumes : hash[v] = st.hash[v] \/ ~hash[v].known
        /\ \A v \in Dk!Volumes : v \in st.mounted => hash[v] = st.hash[v]
    BY <1>0, DiskAssumption DEF DiskStates, DiskEntries, Dk!NoEntry
  <2> HIDE DEF r, hash
  <2>4. EntriesFollow(r)
    BY <1>0, <2>2 DEF EntriesFollow, SameDisk
  <2>5. DkInv(s) /\ SameDisk(r, s)
    BY <2>2, <2>3, <2>4, HashInv DEF DkInv
  <2>6. s.hash = hash
    BY <2>2 DEF DiskStates
  <2> HIDE DEF s
  <2>7. DkInv(st') /\ ToldInTime(s, st') /\ st'.minute = s.minute
    BY <2>1, <2>5, CheckAllMountsInv
  <2>8. ASSUME NEW v \in Dk!Volumes, v \in st.warned, st.notification = "none", st'.notification = v,
               st.hash[v].known
        PROVE  st'.minute > st.shown[v] + MinNotifyPeriod
    <3>1. v \in Dk!Checked(s) /\ (v \in s.warned /\ s.hash[v].known => s.minute > s.shown[v] + MinNotifyPeriod)
      BY <2>2, <2>5, <2>7, <2>8 DEF ToldInTime, SameDisk
    <3>2. v \in st.mounted
      BY <2>2, <2>5, <3>1 DEF Dk!Checked, SameDisk
    <3>3. s.hash[v] = st.hash[v]
      BY <2>3, <2>6, <3>2
    <3> QED
      BY <2>2, <2>5, <2>7, <2>8, <3>1, <3>3 DEF SameDisk
  <2> QED
    BY <2>7, <2>8 DEF RepeatWaits
<1> QED
  BY <1>1, <1>2

\* A step after which no more is displayed tells of nothing.
LEMMA QuietDiskInv ==
  ASSUME NEW s, NEW t, DkInv(s), t \in DiskStates(t), t.hash = s.hash, t.minute = s.minute,
         t.shown = s.shown, t.warned = s.warned, t.notification \in {"none", s.notification}
  PROVE  DkInv(t) /\ RepeatWaits(s, t)
BY DiskAssumption DEF DkInv, EntriesFollow, RepeatWaits

LEMMA DkNextInv ==
  ASSUME DkInv(st), [Dk!DkNext]_st
  PROVE  DkInv(st') /\ RepeatWaits(st, st')
<1>0. st \in DiskStates(st)
  BY DEF DkInv
<1>1. CASE Dk!CheckTimer \/ Dk!MountsChanged
  BY <1>1, ChecksInv
<1>2. CASE Dk!UpdateConfig
  <2> DEFINE hash == [v \in Dk!Volumes |-> IF v \in st.ignore THEN Dk!NoEntry ELSE st.hash[v]]
             r == [st EXCEPT !.ignore_paths = st.ignore]
  <2>1. st' = [r EXCEPT !.hash = hash]
    BY <1>0, <1>2 DEF Dk!UpdateConfig, Dk!GetConfig, DiskStates
  <2>2. /\ r \in DiskStates(r) /\ r.hash = st.hash /\ r.minute = st.minute /\ r.shown = st.shown
        /\ r.warned = st.warned /\ r.notification = st.notification
    BY <1>0 DEF DiskStates
  <2>3. /\ hash \in [Dk!Volumes -> DiskEntries]
        /\ \A v \in Dk!Volumes : hash[v] = st.hash[v] \/ ~hash[v].known
    BY <1>0, DiskAssumption DEF DiskStates, DiskEntries, Dk!NoEntry
  <2> HIDE DEF r, hash
  <2>4. DkInv(r)
    BY <2>2, QuietDiskInv
  <2>5. DkInv(st') /\ SameDisk(r, st')
    BY <2>1, <2>2, <2>3, <2>4, HashInv
  <2>6. st'.notification = st.notification
    BY <2>2, <2>5 DEF SameDisk
  <2> QED
    BY <2>5, <2>6, DiskAssumption DEF RepeatWaits
<1>3. CASE Dk!DkNotificationClosed
  <2>1. /\ st' \in DiskStates(st') /\ st'.hash = st.hash /\ st'.minute = st.minute
        /\ st'.shown = st.shown /\ st'.warned = st.warned /\ st'.notification = "none"
    BY <1>0, <1>3 DEF Dk!DkNotificationClosed, DiskStates
  <2> QED
    BY <2>1, QuietDiskInv
<1>4. ASSUME NEW v \in Dk!Volumes, Dk!SpaceChanges(v) \/ Dk!MountOrUnmount(v) \/ Dk!IgnoreToggled(v)
      PROVE  DkInv(st') /\ RepeatWaits(st, st')
  <2>1. CASE Dk!SpaceChanges(v)
    <3>1. PICK free \in 0 .. FullSpace : st' = [st EXCEPT !.free[v] = free]
      BY <2>1 DEF Dk!SpaceChanges
    <3>2. /\ st' \in DiskStates(st') /\ st'.hash = st.hash /\ st'.minute = st.minute
          /\ st'.shown = st.shown /\ st'.warned = st.warned /\ st'.notification = st.notification
      BY <1>0, <3>1 DEF DiskStates
    <3> QED
      BY <3>2, QuietDiskInv
  <2>2. CASE Dk!MountOrUnmount(v) \/ Dk!IgnoreToggled(v)
    <3>1. /\ st' \in DiskStates(st') /\ st'.hash = st.hash /\ st'.minute = st.minute
          /\ st'.shown = st.shown /\ st'.warned = st.warned /\ st'.notification = st.notification
      BY <1>0, <2>2 DEF DiskStates, Dk!MountOrUnmount, Dk!IgnoreToggled
    <3> QED
      BY <3>1, QuietDiskInv
  <2> QED
    BY <1>4, <2>1, <2>2
<1>5. CASE UNCHANGED st
  BY <1>5, DiskAssumption DEF RepeatWaits
<1> QED
  BY <1>1, <1>2, <1>3, <1>4, <1>5 DEF Dk!DkNext

LEMMA DkInitInv == ASSUME Dk!DkInit PROVE DkInv(st)
<1> DEFINE hash == [v \in Dk!Volumes |-> Dk!NoEntry]
           shown == [v \in Dk!Volumes |-> 0]
<1>1. /\ hash \in [Dk!Volumes -> DiskEntries] /\ \A v \in Dk!Volumes : ~hash[v].known
      /\ shown \in [Dk!Volumes -> Nat] /\ \A v \in Dk!Volumes : shown[v] = 0
  BY DiskAssumption DEF Dk!NoEntry, DiskEntries
<1>2. st \in DiskStates(st) /\ st.hash = hash /\ st.shown = shown /\ st.minute = 0
  BY <1>1, DiskAssumption DEF Dk!DkInit, DiskStates
<1> QED
  BY <1>1, <1>2 DEF DkInv, EntriesFollow

\* While a volume that gsd-disk-space.c has warned of keeps the entry of that
\* warning, it is warned of again only when the period of the settings has passed
\* since (ldsm_maybe_warn_mounts, and the times it keeps in ldsm_notified_hash).
THEOREM DiskCorrect == SessionSpec => DiskWarningsWait
<1> DEFINE Inv == daemon = "disk" => DkInv(st)
<1>1. SessionInit => Inv
  BY DkInitInv DEF SessionInit
<1>2. Inv /\ [SessionNext]_vars => Inv' /\ [daemon = "disk" => Dk!RepeatsWait]_vars
  <2>1. CASE UNCHANGED vars
    BY <2>1 DEF vars
  <2>2. CASE SessionNext
    <3> SUFFICES ASSUME Inv, SessionNext, daemon = "disk" \/ (daemon = "disk")'
                 PROVE  DkInv(st') /\ Dk!RepeatsWait
      BY <2>2
    <3>1. daemon = "disk" /\ Dk!DkNext
      BY DEF SessionNext, Of
    <3>2. DkInv(st') /\ RepeatWaits(st, st')
      BY <3>1, DkNextInv
    <3> QED
      BY <3>2 DEF RepeatWaits, Dk!RepeatsWait, Dk!WarnsAgain
  <2> QED
    BY <2>1, <2>2
<1> QED
  BY <1>1, <1>2, PTL DEF SessionSpec, DiskWarningsWait

==============================================================================
