------------------------- MODULE ShimInstallProofs -------------------------
(***************************************************************************)
(* Proofs about ShimInstall and Doctor, for any shapes of host, any number *)
(* of layers that other packages put on and any number of assignments that *)
(* fail: what the plugin puts into a host comes out whole, and what it     *)
(* says of itself is so.                                                   *)
(***************************************************************************)
EXTENDS Doctor, SequenceTheorems, TLAPS

(* The inductive invariant.                                                *)

\* A chain is what other packages put over a layer that is not theirs, its
\* base.
Base(c)   == IF c = <<>> THEN "none" ELSE c[Len(c)]
Proper(c) == /\ c \in Seq(Layers)
             /\ \A i \in 1..(Len(c) - 1) : c[i] \in Others
             /\ Base(c) \notin Others

\* What an attribute is without the plugin, and whether the plugin would ever
\* replace it.
Untaken(s) == IF s \in host.has THEN "host" ELSE "none"
Taken(s)   == s \in Always \/ s \notin host.has

StateInv == /\ host \in Hosts
            /\ DOMAIN chain = Slots
            /\ installed \in BOOLEAN /\ own \in BOOLEAN /\ lost \in BOOLEAN
            /\ DOMAIN originals \subseteq ShimSlots
            /\ stuck \subseteq Slots
            /\ ~installed => originals = NoOriginals /\ ~own

\* What the plugin took is its own while it is installed and is what it was
\* otherwise, unless putting it back raised; what it would restore is what an
\* attribute is without it.
SlotInv(s) ==
  /\ Proper(chain[s]) /\ Base(chain[s]) \in {Untaken(s), "ours"}
  /\ ~Taken(s) => Base(chain[s]) = "host" /\ s \notin stuck /\ s \notin DOMAIN originals
  /\ installed /\ Taken(s) => /\ Base(chain[s]) = "ours"
                              /\ s \in DOMAIN originals \/ s \in stuck
  /\ ~installed /\ s \notin stuck => Base(chain[s]) = Untaken(s)
  /\ s \in DOMAIN originals =>
       /\ Proper(originals[s]) /\ Base(originals[s]) \in {Untaken(s), "ours"}
       /\ s \notin stuck => Base(originals[s]) = Untaken(s)

\* A cron attribute is always the host's, under layers of others and at most
\* one of the plugin's.
Stacked(c) == /\ c \in Seq(Layers) /\ c # <<>>
              /\ c[Len(c)] = "host"
              /\ \A i \in 1..(Len(c) - 1) : c[i] # "host"
Once(c)    == \A i, j \in DOMAIN c : c[i] = "ours" /\ c[j] = "ours" => i = j
CronInv(s) ==
  /\ Stacked(chain[s]) /\ Once(chain[s])
  /\ own => Has(s, "ours")
  /\ ~own /\ ~lost /\ s \notin stuck => ~Has(s, "ours")

IInv == /\ StateInv
        /\ \A s \in ShimSlots : SlotInv(s)
        /\ \A s \in CronSlots : CronInv(s)

-----------------------------------------------------------------------------
(* What layers do to a chain.                                              *)

LEMMA Push ==
  ASSUME NEW c \in Seq(Layers), NEW l \in Layers
  PROVE  LET t == <<l>> \o c
         IN  /\ t \in Seq(Layers) /\ t # <<>> /\ Len(t) = Len(c) + 1
             /\ DOMAIN t = 1..(Len(c) + 1)
             /\ Head(t) = l /\ t[1] = l
             /\ \A i \in 1..Len(c) : t[i + 1] = c[i]
<1> DEFINE t == <<l>> \o c
<1>1. <<l>> \in Seq(Layers) /\ Len(<<l>>) = 1 /\ <<l>>[1] = l
  OBVIOUS
<1>2. Len(c) \in Nat
  BY LenProperties
<1>3. /\ t \in Seq(Layers) /\ Len(t) = Len(c) + 1
      /\ \A i \in 1..Len(c) + 1 : t[i] = IF i <= 1 THEN l ELSE c[i - 1]
  BY <1>1, <1>2, ConcatProperties
<1> HIDE DEF t
<1>4. DOMAIN t = 1..(Len(c) + 1) /\ t # <<>>
  BY <1>2, <1>3, LenProperties
<1>5. t[1] = l /\ Head(t) = l
  BY <1>2, <1>3, <1>4
<1>6. \A i \in 1..Len(c) : t[i + 1] = c[i]
  BY <1>2, <1>3
<1> QED BY <1>3, <1>4, <1>5, <1>6 DEF t

LEMMA Pop ==
  ASSUME NEW c \in Seq(Layers), c # <<>>
  PROVE  LET t == Tail(c)
         IN  /\ t \in Seq(Layers) /\ Len(t) = Len(c) - 1 /\ Len(c) > 0
             /\ DOMAIN t = 1..(Len(c) - 1) /\ DOMAIN c = 1..Len(c)
             /\ Head(c) = c[1]
             /\ \A i \in 1..(Len(c) - 1) : t[i] = c[i + 1]
<1> DEFINE t == Tail(c)
<1>1. Len(c) \in Nat /\ Len(c) > 0 /\ DOMAIN c = 1..Len(c) /\ Head(c) = c[1]
  BY LenProperties
<1>2. t \in Seq(Layers) /\ Len(t) = Len(c) - 1 /\ \A i \in 1..(Len(c) - 1) : t[i] = c[i + 1]
  BY <1>1, HeadTailProperties
<1> HIDE DEF t
<1>3. DOMAIN t = 1..(Len(c) - 1)
  BY <1>2, LenProperties
<1> QED BY <1>1, <1>2, <1>3 DEF t

\* The attributes' chains.
LEMMA Plain == /\ Proper(<<>>) /\ Base(<<>>) = "none"
               /\ Proper(<<"host">>) /\ Base(<<"host">>) = "host"
               /\ Proper(<<"ours">>) /\ Base(<<"ours">>) = "ours"
BY DEF Proper, Base, Layers, Others

LEMMA ProperPush ==
  ASSUME NEW c, Proper(c), c # <<>>, NEW l \in Others
  PROVE  Proper(<<l>> \o c) /\ Base(<<l>> \o c) = Base(c)
<1> DEFINE t == <<l>> \o c
<1>1. c \in Seq(Layers) /\ l \in Layers /\ Len(c) \in Nat /\ Len(c) > 0
  BY LenProperties DEF Proper, Layers
<1>2. /\ t \in Seq(Layers) /\ t # <<>> /\ Len(t) = Len(c) + 1
      /\ t[1] = l /\ \A i \in 1..Len(c) : t[i + 1] = c[i]
  BY <1>1, Push
<1> HIDE DEF t
<1>3. Base(t) = Base(c)
  BY <1>1, <1>2 DEF Base
<1>4. ASSUME NEW i \in 1..(Len(t) - 1) PROVE t[i] \in Others
  <2>1. CASE i = 1
    BY <1>2, <2>1
  <2>2. CASE i # 1
    <3>1. i - 1 \in 1..(Len(c) - 1) /\ i - 1 \in 1..Len(c) /\ (i - 1) + 1 = i
      BY <1>1, <1>2, <2>2
    <3>2. t[i] = c[i - 1]
      BY <1>2, <3>1
    <3> QED BY <3>1, <3>2 DEF Proper
  <2> QED BY <2>1, <2>2
<1> QED BY <1>2, <1>3, <1>4 DEF Proper, t

LEMMA ProperPop ==
  ASSUME NEW c, Proper(c), c # <<>>, Head(c) \in Others
  PROVE  Proper(Tail(c)) /\ Base(Tail(c)) = Base(c)
<1> DEFINE t == Tail(c)
<1>1. c \in Seq(Layers) /\ Len(c) \in Nat
  BY LenProperties DEF Proper
<1>2. /\ t \in Seq(Layers) /\ Len(t) = Len(c) - 1 /\ Len(c) > 0 /\ Head(c) = c[1]
      /\ \A i \in 1..(Len(c) - 1) : t[i] = c[i + 1]
  BY <1>1, Pop
<1> HIDE DEF t
<1>3. Len(c) > 1
  BY <1>1, <1>2 DEF Proper, Base
<1>4. t # <<>> /\ t[Len(t)] = c[Len(c)]
  BY <1>1, <1>2, <1>3
<1>5. Base(t) = Base(c)
  BY <1>4 DEF Base
<1>6. \A i \in 1..(Len(t) - 1) : t[i] \in Others
  <2> SUFFICES ASSUME NEW i \in 1..(Len(t) - 1) PROVE t[i] \in Others
    OBVIOUS
  <2>1. i \in 1..(Len(c) - 1) /\ i + 1 \in 1..(Len(c) - 1)
    BY <1>1, <1>2
  <2> QED BY <1>2, <2>1 DEF Proper
<1> QED BY <1>2, <1>5, <1>6 DEF Proper, t

\* Of what is not other packages' a chain has its base and nothing else.
LEMMA HasBase ==
  ASSUME NEW c, Proper(c), NEW l, l \notin Others
  PROVE  l \in ToSet(c) <=> c # <<>> /\ Base(c) = l
<1>1. c \in Seq(Layers) /\ Len(c) \in Nat /\ DOMAIN c = 1..Len(c)
  BY LenProperties DEF Proper
<1>2. ASSUME l \in ToSet(c) PROVE c # <<>> /\ Base(c) = l
  <2>1. PICK i \in 1..Len(c) : c[i] = l
    BY <1>1, <1>2 DEF ToSet
  <2>2. i # Len(c) => i \in 1..(Len(c) - 1)
    <3>1. PICK n \in Nat : n = Len(c)
      BY <1>1
    <3>2. i \in 1..n /\ (i # n => i \in 1..(n - 1))
      BY <3>1
    <3> QED BY <3>1, <3>2
  <2>3. i = Len(c)
    BY <2>1, <2>2 DEF Proper
  <2> QED BY <1>1, <2>1, <2>3 DEF Base
<1>3. ASSUME c # <<>>, Base(c) = l PROVE l \in ToSet(c)
  <2>1. Len(c) \in DOMAIN c
    BY <1>1, <1>3
  <2> QED BY <1>3, <2>1 DEF Base, ToSet
<1> QED BY <1>2, <1>3

\* The cron attributes' chains.
LEMMA StackedPush ==
  ASSUME NEW c, Stacked(c), NEW l \in Others \cup {"ours"}
  PROVE  /\ Stacked(<<l>> \o c)
         /\ ToSet(<<l>> \o c) = ToSet(c) \cup {l}
         /\ Once(c) /\ (l = "ours" => "ours" \notin ToSet(c)) => Once(<<l>> \o c)
<1> DEFINE t == <<l>> \o c
<1>1. /\ c \in Seq(Layers) /\ l \in Layers /\ l # "host"
      /\ Len(c) \in Nat /\ Len(c) > 0 /\ DOMAIN c = 1..Len(c)
  BY LenProperties DEF Stacked, Layers, Others
<1>2. /\ t \in Seq(Layers) /\ t # <<>> /\ Len(t) = Len(c) + 1 /\ DOMAIN t = 1..(Len(c) + 1)
      /\ t[1] = l /\ \A i \in 1..Len(c) : t[i + 1] = c[i]
  BY <1>1, Push
<1> HIDE DEF t
<1>3. PICK n \in Nat : n = Len(c) /\ n > 0
  BY <1>1
<1>4. \A i \in 1..(n + 1) : i = 1 \/ (i - 1 \in 1..n /\ t[i] = c[i - 1])
  <2> SUFFICES ASSUME NEW i \in 1..(n + 1), i # 1 PROVE i - 1 \in 1..n /\ t[i] = c[i - 1]
    OBVIOUS
  <2>1. i - 1 \in 1..n /\ (i - 1) + 1 = i
    BY <1>3
  <2> QED BY <1>2, <1>3, <2>1
<1>5. t[Len(t)] = "host"
  BY <1>2, <1>3 DEF Stacked
<1>6. \A i \in 1..(Len(t) - 1) : t[i] # "host"
  <2> SUFFICES ASSUME NEW i \in 1..n, t[i] = "host" PROVE FALSE
    BY <1>2, <1>3
  <2>1. i - 1 \in 1..(n - 1) /\ i \in 1..(n + 1) /\ i # 1
    BY <1>1, <1>2, <1>3
  <2> QED BY <1>3, <1>4, <2>1 DEF Stacked
<1>7. ToSet(t) = ToSet(c) \cup {l}
  <2>1. ASSUME NEW m \in ToSet(t), m # l PROVE m \in ToSet(c)
    <3>1. PICK i \in 1..(n + 1) : t[i] = m
      BY <1>2, <1>3, <2>1 DEF ToSet
    <3> QED BY <1>1, <1>2, <1>3, <1>4, <2>1, <3>1 DEF ToSet
  <2>2. ASSUME NEW m \in ToSet(c) PROVE m \in ToSet(t)
    <3>1. PICK i \in 1..n : c[i] = m
      BY <1>1, <1>3, <2>2 DEF ToSet
    <3>2. t[i + 1] = m /\ i + 1 \in 1..(n + 1)
      BY <1>2, <1>3, <3>1
    <3> QED BY <1>2, <1>3, <3>2 DEF ToSet
  <2>3. l \in ToSet(t)
    BY <1>2, <1>3 DEF ToSet
  <2> QED BY <2>1, <2>2, <2>3
<1>8. Once(c) /\ (l = "ours" => "ours" \notin ToSet(c)) => Once(t)
  <2> SUFFICES ASSUME Once(c), l = "ours" => "ours" \notin ToSet(c),
                      NEW i \in 1..(n + 1), NEW j \in 1..(n + 1),
                      t[i] = "ours", t[j] = "ours"
               PROVE  i = j
    BY <1>2, <1>3 DEF Once
  <2>1. \A k \in 1..n : c[k] \in ToSet(c)
    BY <1>1, <1>3 DEF ToSet
  <2>2. CASE l = "ours"
    BY <1>4, <2>1, <2>2
  <2>3. CASE l # "ours"
    <3>1. i # 1 /\ j # 1
      BY <1>2, <2>3
    <3>2. c[i - 1] = "ours" /\ c[j - 1] = "ours" /\ i - 1 \in DOMAIN c /\ j - 1 \in DOMAIN c
      BY <1>1, <1>3, <1>4, <3>1
    <3>3. i - 1 = j - 1
      BY <3>2 DEF Once
    <3> QED BY <3>3
  <2> QED BY <2>2, <2>3
<1> QED BY <1>2, <1>5, <1>6, <1>7, <1>8 DEF Stacked, t

LEMMA StackedPop ==
  ASSUME NEW c, Stacked(c), Head(c) # "host"
  PROVE  /\ Stacked(Tail(c))
         /\ \A l : l # Head(c) => (l \in ToSet(Tail(c)) <=> l \in ToSet(c))
         /\ Once(c) => Once(Tail(c)) /\ (Head(c) = "ours" => "ours" \notin ToSet(Tail(c)))
<1> DEFINE t == Tail(c)
<1>1. c \in Seq(Layers) /\ c # <<>>
  BY DEF Stacked
<1>2. /\ t \in Seq(Layers) /\ Len(t) = Len(c) - 1 /\ Len(c) > 0
      /\ DOMAIN t = 1..(Len(c) - 1) /\ DOMAIN c = 1..Len(c) /\ Head(c) = c[1]
      /\ \A i \in 1..(Len(c) - 1) : t[i] = c[i + 1]
  BY <1>1, Pop
<1> HIDE DEF t
<1>3. PICK n \in Nat : Len(c) = n + 1 /\ n > 0
  <2>1. PICK m \in Nat : m = Len(c) /\ m > 0
    BY <1>1, <1>2, LenProperties
  <2>2. m # 1
    BY <1>2, <2>1 DEF Stacked
  <2>3. m - 1 \in Nat /\ m = (m - 1) + 1 /\ m - 1 > 0
    BY <2>1, <2>2
  <2> QED BY <2>1, <2>3
<1>4. DOMAIN t = 1..n /\ DOMAIN c = 1..(n + 1) /\ \A i \in 1..n : t[i] = c[i + 1]
  BY <1>2, <1>3
<1>5. Stacked(t)
  <2>1. Len(t) = n /\ t # <<>>
    BY <1>2, <1>3
  <2>2. t[n] = "host"
    BY <1>3, <1>4 DEF Stacked
  <2>3. \A i \in 1..(n - 1) : t[i] # "host"
    <3> SUFFICES ASSUME NEW i \in 1..(n - 1) PROVE t[i] # "host"
      OBVIOUS
    <3>1. i \in 1..n /\ i + 1 \in 1..(Len(c) - 1)
      BY <1>3
    <3> QED BY <1>4, <3>1 DEF Stacked
  <2> QED BY <1>2, <2>1, <2>2, <2>3 DEF Stacked
<1>6. ASSUME NEW l, l \in ToSet(t) PROVE \E i \in 2..(n + 1) : c[i] = l
  <2>1. PICK i \in 1..n : t[i] = l
    BY <1>4, <1>6 DEF ToSet
  <2>2. i + 1 \in 2..(n + 1) /\ c[i + 1] = l
    BY <1>4, <2>1
  <2> QED BY <2>2
<1>7. \A l : l # Head(c) => (l \in ToSet(t) <=> l \in ToSet(c))
  <2> SUFFICES ASSUME NEW l, l # c[1] PROVE l \in ToSet(t) <=> l \in ToSet(c)
    BY <1>2
  <2>1. l \in ToSet(t) => l \in ToSet(c)
    BY <1>4, <1>6 DEF ToSet
  <2>2. ASSUME l \in ToSet(c) PROVE l \in ToSet(t)
    <3>1. PICK i \in 1..(n + 1) : c[i] = l
      BY <1>4, <2>2 DEF ToSet
    <3>2. i - 1 \in 1..n /\ (i - 1) + 1 = i
      BY <3>1
    <3>3. t[i - 1] = l
      BY <1>4, <3>1, <3>2
    <3> QED BY <1>4, <3>2, <3>3 DEF ToSet
  <2> QED BY <2>1, <2>2
<1>8. ASSUME Once(c) PROVE Once(t) /\ (Head(c) = "ours" => "ours" \notin ToSet(t))
  <2>1. Once(t)
    <3> SUFFICES ASSUME NEW i \in 1..n, NEW j \in 1..n, t[i] = "ours", t[j] = "ours"
                 PROVE  i = j
      BY <1>4 DEF Once
    <3>1. i + 1 \in DOMAIN c /\ j + 1 \in DOMAIN c /\ c[i + 1] = "ours" /\ c[j + 1] = "ours"
      BY <1>4
    <3>2. i + 1 = j + 1
      BY <1>8, <3>1 DEF Once
    <3> QED BY <3>2
  <2>2. ASSUME Head(c) = "ours", "ours" \in ToSet(t) PROVE FALSE
    <3>1. PICK i \in 2..(n + 1) : c[i] = "ours"
      BY <1>6, <2>2
    <3>2. 1 \in DOMAIN c /\ i \in DOMAIN c /\ c[1] = "ours" /\ i # 1
      BY <1>2, <1>4, <2>2, <3>1
    <3> QED BY <1>8, <3>1, <3>2 DEF Once
  <2> QED BY <2>1, <2>2
<1> QED BY <1>5, <1>7, <1>8 DEF t

\* The plugin's layer does not move the layers under it.
LEMMA OthersUnder ==
  ASSUME NEW c \in Seq(Layers)
  PROVE  OtherLayers(<<"ours">> \o c) = OtherLayers(c)
<1> DEFINE t == <<"ours">> \o c
<1>1. PICK n \in Nat : n = Len(c) /\ DOMAIN c = 1..n
  BY LenProperties
<1>2. /\ Len(t) = n + 1 /\ DOMAIN t = 1..(n + 1)
      /\ t[1] = "ours" /\ \A i \in 1..n : t[i + 1] = c[i]
  BY <1>1, Push DEF Layers
<1> HIDE DEF t
<1>3. ASSUME NEW i \in 1..n, c[i] \in Others
      PROVE  /\ <<n - i, c[i]>> = <<(n + 1) - (i + 1), t[i + 1]>>
             /\ i + 1 \in 1..(n + 1) /\ t[i + 1] \in Others
  BY <1>2, <1>3
<1>4. ASSUME NEW i \in 1..(n + 1), t[i] \in Others
      PROVE  /\ i - 1 \in 1..n /\ c[i - 1] \in Others
             /\ <<(n + 1) - i, t[i]>> = <<n - (i - 1), c[i - 1]>>
  <2>1. i # 1
    BY <1>2, <1>4 DEF Others
  <2>2. i - 1 \in 1..n /\ (i - 1) + 1 = i
    BY <2>1
  <2>3. t[i] = c[i - 1]
    BY <1>2, <2>2
  <2> QED BY <1>4, <2>2, <2>3
<1>5. OtherLayers(c) = {<<n - i, c[i]>> : i \in {j \in 1..n : c[j] \in Others}}
  BY <1>1 DEF OtherLayers
<1>6. OtherLayers(t) = {<<(n + 1) - i, t[i]>> : i \in {j \in 1..(n + 1) : t[j] \in Others}}
  BY <1>2 DEF OtherLayers
<1>7. OtherLayers(c) \subseteq OtherLayers(t)
  BY <1>3, <1>5, <1>6
<1>8. OtherLayers(t) \subseteq OtherLayers(c)
  BY <1>4, <1>5, <1>6
<1> QED BY <1>7, <1>8 DEF t

LEMMA OthersUncovered ==
  ASSUME NEW c \in Seq(Layers), c # <<>>, Head(c) = "ours"
  PROVE  OtherLayers(Tail(c)) = OtherLayers(c)
<1>1. Tail(c) \in Seq(Layers)
  BY Pop
<1>2. c = <<"ours">> \o Tail(c)
  OBVIOUS
<1> QED BY <1>1, <1>2, OthersUnder

-----------------------------------------------------------------------------
(* The invariant holds at the start and is kept.                           *)

LEMMA Attributes ==
  /\ ShimSlots = {"lookup_by_session_key", "create_session_wake_receipt",
                  "update_session_wake_receipt", "wake_session",
                  "_lookup_session_entry_for_wake", "_wake_message_ids_after",
                  "_kanban_internal_wake_target", "_kanban_notifier_watcher"}
  /\ Len(Order) = 8
  /\ ShimSlots = {Order[i] : i \in 1..8}
  /\ Always \subseteq ShimSlots /\ ShimSlots \cap CronSlots = {}
  /\ Slots = ShimSlots \cup CronSlots
BY DEF ShimSlots, Order, ToSet, Always, CronSlots, Slots

LEMMA AssignedFacts ==
  /\ \A k \in 0..8 : /\ Assigned(k) \subseteq ShimSlots
                     /\ \A s \in Assigned(k) : chain[s] = <<>> \/ s \in Always
  /\ Assigned(Len(Order)) = {s \in ShimSlots : chain[s] = <<>> \/ s \in Always}
<1>1. \A k \in 0..8 : {Order[i] : i \in 1..k} \subseteq ShimSlots
  <2> SUFFICES ASSUME NEW k \in 0..8, NEW i \in 1..k PROVE Order[i] \in ShimSlots
    OBVIOUS
  <2>1. i \in 1..8
    OBVIOUS
  <2> QED BY <2>1, Attributes
<1>2. Assigned(8) = {s \in ShimSlots : chain[s] = <<>> \/ s \in Always}
  BY Attributes DEF Assigned
<1> QED BY <1>1, <1>2, Attributes DEF Assigned

\* What may be replaced is what the plugin may take; the base of a chain is a
\* layer.
LEMMA Replaced ==
  ASSUME NEW s \in ShimSlots, SlotInv(s)
  PROVE  /\ chain[s] = <<>> \/ s \in Always => Taken(s)
         /\ chain[s] = <<>> <=> Base(chain[s]) = "none"
<1>1. chain[s] # <<>> => chain[s][Len(chain[s])] \in Layers
  <2> SUFFICES ASSUME chain[s] # <<>> PROVE chain[s][Len(chain[s])] \in Layers
    OBVIOUS
  <2>1. chain[s] \in Seq(Layers)
    BY DEF SlotInv, Proper
  <2>2. Len(chain[s]) \in DOMAIN chain[s]
    BY <2>1
  <2> QED BY <2>1, <2>2
<1>2. chain[s] = <<>> <=> Base(chain[s]) = "none"
  BY <1>1 DEF Base, Layers, Others
<1>3. chain[s] = <<>> \/ s \in Always => Taken(s)
  BY <1>2 DEF SlotInv, Taken
<1> QED BY <1>2, <1>3

LEMMA Fresh ==
  ASSUME host' \in Hosts, chain' = Untouched(host'),
         installed' = FALSE, originals' = NoOriginals,
         own' = FALSE, lost' = FALSE, stuck' = {}
  PROVE  IInv'
<1>1. DOMAIN NoOriginals = {}
  BY DEF NoOriginals
<1>2. StateInv'
  BY <1>1 DEF StateInv, Untouched
<1>3. ASSUME NEW s \in ShimSlots PROVE SlotInv(s)'
  <2>1. chain'[s] = IF s \in host'.has THEN <<"host">> ELSE <<>>
    BY <1>3, Attributes DEF Untouched
  <2>2. (s \in Always /\ s \notin host'.has) \/ s \in host'.has \/ s \notin Always
    OBVIOUS
  <2> QED BY <1>1, <2>1, Plain DEF SlotInv, Untaken, Taken
<1>4. ASSUME NEW s \in CronSlots PROVE CronInv(s)'
  <2>1. chain'[s] = <<"host">>
    BY <1>4, Attributes DEF Untouched
  <2>2. Stacked(<<"host">>) /\ Once(<<"host">>) /\ "ours" \notin ToSet(<<"host">>)
    BY DEF Stacked, Once, ToSet, Layers
  <2> QED BY <2>1, <2>2 DEF CronInv, Has
<1> QED BY <1>2, <1>3, <1>4 DEF IInv

LEMMA FailsKeeps == ASSUME IInv, ~installed, InstallFails PROVE IInv'
<1>k. PICK k \in 0..7 : \E bad \in SUBSET Assigned(k) :
        /\ chain' = [s \in Slots |-> IF s \in bad THEN <<"ours">> ELSE chain[s]]
        /\ stuck' = stuck \cup bad
  BY Attributes DEF InstallFails
<1>1. PICK bad \in SUBSET Assigned(k) :
        /\ chain' = [s \in Slots |-> IF s \in bad THEN <<"ours">> ELSE chain[s]]
        /\ stuck' = stuck \cup bad
  BY <1>k
<1>2. UNCHANGED <<host, db, installed, originals, own, lost>>
  BY DEF InstallFails
<1>3. bad \subseteq ShimSlots /\ \A s \in bad : chain[s] = <<>> \/ s \in Always
  <2>1. k \in 0..8
    OBVIOUS
  <2> QED BY <2>1, AssignedFacts
<1>4. StateInv'
  BY <1>1, <1>2, <1>3, Attributes DEF IInv, StateInv
<1>5. ASSUME NEW s \in ShimSlots PROVE SlotInv(s)'
  <2>1. SlotInv(s)
    BY DEF IInv
  <2>2. CASE s \in bad
    <3>1. Taken(s)
      BY <1>3, <2>1, <2>2, Replaced
    <3>2. chain'[s] = <<"ours">> /\ s \in stuck'
      BY <1>1, <2>2, Attributes
    <3>3. s \notin DOMAIN originals
      BY DEF IInv, StateInv, NoOriginals
    <3> QED BY <1>2, <3>1, <3>2, <3>3, Plain DEF SlotInv, Taken, Untaken
  <2>3. CASE s \notin bad
    <3>1. chain'[s] = chain[s] /\ (s \in stuck' <=> s \in stuck)
      BY <1>1, <2>3, Attributes
    <3> QED BY <1>2, <2>1, <3>1 DEF SlotInv, Taken, Untaken
  <2> QED BY <2>2, <2>3
<1>6. ASSUME NEW s \in CronSlots PROVE CronInv(s)'
  <2>1. chain'[s] = chain[s] /\ (s \in stuck' <=> s \in stuck)
    BY <1>1, <1>3, Attributes
  <2> QED BY <1>2, <2>1 DEF IInv, CronInv, Has
<1> QED BY <1>4, <1>5, <1>6 DEF IInv

\* A cron attribute in sight as the host's has nothing of the plugin's.
LEMMA SightIsClean ==
  ASSUME NEW s \in CronSlots, Stacked(chain[s]), Seen(s, "host")
  PROVE  ~Has(s, "ours")
<1>1. PICK i \in DOMAIN chain[s] :
        chain[s][i] = "host" /\ \A j \in 1..(i - 1) : chain[s][j] = "clear"
  BY DEF Seen
<1>2. PICK n \in Nat : n = Len(chain[s]) /\ DOMAIN chain[s] = 1..n
  BY LenProperties DEF Stacked
<1>3. i = n
  <2>1. i # n => i \in 1..(n - 1)
    BY <1>2
  <2> QED BY <1>1, <1>2, <2>1 DEF Stacked
<1>4. ASSUME NEW j \in DOMAIN chain[s], chain[s][j] = "ours" PROVE FALSE
  <2>1. j = n \/ j \in 1..(n - 1)
    BY <1>2
  <2> QED BY <1>1, <1>3, <1>4, <2>1
<1> QED BY <1>4 DEF Has, ToSet

LEMMA WholeKeeps == ASSUME IInv, ~installed, InstallWhole PROVE IInv'
<1> DEFINE A == Assigned(Len(Order))
<1>1. PICK got \in SUBSET CronSlots :
        /\ CronInstall(got)
        /\ chain' = [s \in Slots |-> IF s \in A THEN <<"ours">>
                                     ELSE IF s \in got THEN <<"ours">> \o chain[s]
                                     ELSE chain[s]]
  BY DEF InstallWhole
<1>2. /\ originals' = [s \in A |-> chain[s]] /\ installed' = TRUE
      /\ UNCHANGED <<host, lost>>
  BY DEF InstallWhole
<1>3. A = {s \in ShimSlots : chain[s] = <<>> \/ s \in Always}
  BY AssignedFacts
<1> HIDE DEF A
<1>4. ~own /\ own' \in BOOLEAN /\ stuck' \in {stuck, stuck \cup got}
  BY <1>1 DEF IInv, StateInv, CronInstall
<1>5. StateInv'
  BY <1>1, <1>2, <1>3, <1>4, Attributes DEF IInv, StateInv
<1>6. ASSUME NEW s \in ShimSlots PROVE SlotInv(s)'
  <2>1. SlotInv(s) /\ (s \in stuck' <=> s \in stuck) /\ s \notin got
    BY <1>1, <1>4, Attributes DEF IInv
  <2>2. CASE s \in A
    <3>1. Taken(s)
      BY <1>3, <2>1, <2>2, Replaced
    <3>2. chain'[s] = <<"ours">> /\ s \in DOMAIN originals' /\ originals'[s] = chain[s]
      BY <1>1, <1>2, <2>2, Attributes
    <3> QED BY <1>2, <2>1, <3>1, <3>2, Plain DEF SlotInv, Taken, Untaken
  <2>3. CASE s \notin A
    <3>1. chain'[s] = chain[s] /\ s \notin DOMAIN originals' /\ chain[s] # <<>> /\ s \notin Always
      BY <1>1, <1>2, <1>3, <2>1, <2>3, Attributes
    <3>2. Base(chain[s]) # "none"
      BY <2>1, <3>1, Replaced
    <3> QED BY <1>2, <2>1, <3>1, <3>2 DEF SlotInv, Taken, Untaken
  <2> QED BY <2>2, <2>3
<1>7. ASSUME NEW s \in CronSlots PROVE CronInv(s)'
  <2>1. CronInv(s) /\ s \notin A /\ s \in Slots
    BY <1>3, Attributes DEF IInv
  <2>2. CASE got = {} /\ UNCHANGED <<own, stuck>>
    BY <1>1, <1>2, <2>1, <2>2 DEF CronInv, Has
  <2>3. CASE ~(got = {} /\ UNCHANGED <<own, stuck>>)
    <3>1. CronAdoptable
      BY <1>1, <2>3 DEF CronInstall
    <3>2. ~Has(s, "ours")
      BY <2>1, <3>1, SightIsClean DEF CronAdoptable, CronInv
    <3>3. s \in got => /\ Stacked(chain'[s]) /\ Once(chain'[s])
                       /\ ToSet(chain'[s]) = ToSet(chain[s]) \cup {"ours"}
      BY <1>1, <2>1, <3>2, StackedPush DEF CronInv, Has
    <3>4. s \notin got => chain'[s] = chain[s]
      BY <1>1, <2>1
    <3>5. \/ got = CronSlots /\ own' = TRUE
          \/ stuck' = stuck \cup got /\ own' = own
      BY <1>1, <2>3 DEF CronInstall
    <3> QED BY <1>2, <1>4, <2>1, <3>2, <3>3, <3>4, <3>5 DEF CronInv, Has
  <2> QED BY <2>2, <2>3
<1> QED BY <1>5, <1>6, <1>7 DEF IInv

LEMMA UninstallKeeps == ASSUME IInv, UninstallShim PROVE IInv'
<1>1. PICK bad \in SUBSET (DOMAIN originals \cup StillOurs) :
        /\ chain' = [s \in Slots |-> IF s \in bad THEN chain[s]
                                     ELSE IF s \in DOMAIN originals THEN originals[s]
                                     ELSE IF s \in StillOurs THEN Tail(chain[s])
                                     ELSE chain[s]]
        /\ stuck' = stuck \cup bad
  BY DEF UninstallShim
<1>2. /\ installed /\ lost' = (lost \/ (own /\ StillOurs # CronSlots))
      /\ installed' = FALSE /\ originals' = NoOriginals /\ own' = FALSE
      /\ UNCHANGED host
  BY DEF UninstallShim
<1>3. StillOurs \subseteq CronSlots /\ DOMAIN originals \subseteq ShimSlots
  BY DEF StillOurs, IInv, StateInv
<1>4. StateInv'
  BY <1>1, <1>2, <1>3, Attributes DEF IInv, StateInv, NoOriginals
<1>5. ASSUME NEW s \in ShimSlots PROVE SlotInv(s)'
  <2>1. SlotInv(s) /\ s \notin StillOurs /\ s \in Slots /\ s \notin DOMAIN originals'
    BY <1>2, <1>3, Attributes DEF IInv, NoOriginals
  <2>2. CASE s \in bad
    BY <1>1, <1>2, <2>1, <2>2 DEF SlotInv, Taken, Untaken
  <2>3. CASE s \notin bad /\ s \in DOMAIN originals
    <3>1. chain'[s] = originals[s] /\ (s \in stuck' <=> s \in stuck)
      BY <1>1, <2>1, <2>3
    <3> QED BY <1>2, <2>1, <2>3, <3>1 DEF SlotInv, Taken, Untaken
  <2>4. CASE s \notin bad /\ s \notin DOMAIN originals
    <3>1. chain'[s] = chain[s] /\ (s \in stuck' <=> s \in stuck)
      BY <1>1, <2>1, <2>4
    <3> QED BY <1>2, <2>1, <2>4, <3>1 DEF SlotInv, Taken, Untaken
  <2> QED BY <2>2, <2>3, <2>4
<1>6. ASSUME NEW s \in CronSlots PROVE CronInv(s)'
  <2>1. CronInv(s) /\ s \notin DOMAIN originals /\ s \in Slots
    BY <1>3, Attributes DEF IInv
  <2>2. s \in StillOurs <=> own /\ Head(chain[s]) = "ours"
    BY DEF StillOurs
  <2>3. CASE s \in bad \/ s \notin StillOurs
    <3>1. chain'[s] = chain[s] /\ (s \in bad => s \in stuck')
      BY <1>1, <2>1, <2>3
    <3>2. s \in stuck' <=> s \in stuck \/ s \in bad
      BY <1>1
    <3>3. own /\ s \notin StillOurs => lost'
      BY <1>2
    <3> QED BY <1>2, <2>1, <2>3, <3>1, <3>2, <3>3 DEF CronInv, Has
  <2>4. CASE s \notin bad /\ s \in StillOurs
    <3>1. chain'[s] = Tail(chain[s])
      BY <1>1, <2>1, <2>4
    <3>2. /\ Stacked(chain'[s]) /\ Once(chain'[s])
          /\ "ours" \notin ToSet(chain'[s])
      BY <2>1, <2>2, <2>4, <3>1, StackedPop DEF CronInv
    <3> QED BY <1>2, <3>2 DEF CronInv, Has
  <2> QED BY <2>3, <2>4
<1> QED BY <1>4, <1>5, <1>6 DEF IInv

\* Another package puts a layer on an attribute, or takes its own off.
LEMMA OthersKeep ==
  ASSUME IInv, NEW s \in Slots, NEW c,
         chain' = [chain EXCEPT ![s] = c],
         UNCHANGED <<host, installed, originals, own, lost, stuck>>,
         s \in ShimSlots => Proper(c) /\ Base(c) = Base(chain[s]),
         s \in CronSlots => /\ Stacked(c) /\ Once(c)
                            /\ "ours" \in ToSet(c) <=> Has(s, "ours")
  PROVE  IInv'
<1>1. chain'[s] = c /\ DOMAIN chain' = Slots /\ \A t \in Slots \ {s} : chain'[t] = chain[t]
  BY DEF IInv, StateInv
<1>2. StateInv'
  BY <1>1 DEF IInv, StateInv
<1>3. ASSUME NEW t \in ShimSlots PROVE SlotInv(t)'
  <2>1. Proper(chain'[t]) /\ Base(chain'[t]) = Base(chain[t])
    BY <1>1, Attributes DEF IInv, SlotInv
  <2> QED BY <2>1 DEF IInv, SlotInv, Taken, Untaken
<1>4. ASSUME NEW t \in CronSlots PROVE CronInv(t)'
  <2>1. /\ Stacked(chain'[t]) /\ Once(chain'[t])
        /\ "ours" \in ToSet(chain'[t]) <=> Has(t, "ours")
    BY <1>1, Attributes DEF IInv, CronInv, Has
  <2> QED BY <2>1 DEF IInv, CronInv, Has
<1> QED BY <1>2, <1>3, <1>4 DEF IInv

LEMMA WrapKeeps == ASSUME IInv, Wrap PROVE IInv'
<1>1. PICK s \in Wrapped, l \in Others :
        Callable(s) /\ chain' = [chain EXCEPT ![s] = <<l>> \o chain[s]]
  BY DEF Wrap
<1>2. s \in Slots
  BY InstallAssumption
<1>3. s \in ShimSlots => /\ Proper(<<l>> \o chain[s])
                         /\ Base(<<l>> \o chain[s]) = Base(chain[s])
  BY <1>1, ProperPush DEF IInv, SlotInv, Callable
<1>4. s \in CronSlots => /\ Stacked(<<l>> \o chain[s]) /\ Once(<<l>> \o chain[s])
                         /\ "ours" \in ToSet(<<l>> \o chain[s]) <=> Has(s, "ours")
  <2>1. l \in Others \cup {"ours"} /\ l # "ours"
    BY DEF Others
  <2>2. s \in CronSlots => Stacked(chain[s]) /\ Once(chain[s])
    BY DEF IInv, CronInv
  <2> QED BY <2>1, <2>2, StackedPush DEF Has
<1> QED BY <1>1, <1>2, <1>3, <1>4, OthersKeep DEF Wrap, plugin

LEMMA UnwrapKeeps == ASSUME IInv, Unwrap PROVE IInv'
<1>1. PICK s \in Wrapped : /\ Callable(s) /\ Head(chain[s]) \in Others
                           /\ chain' = [chain EXCEPT ![s] = Tail(chain[s])]
  BY DEF Unwrap
<1>2. s \in Slots
  BY InstallAssumption
<1>3. s \in ShimSlots => /\ Proper(Tail(chain[s]))
                         /\ Base(Tail(chain[s])) = Base(chain[s])
  BY <1>1, ProperPop DEF IInv, SlotInv, Callable
<1>4. s \in CronSlots => /\ Stacked(Tail(chain[s])) /\ Once(Tail(chain[s]))
                         /\ "ours" \in ToSet(Tail(chain[s])) <=> Has(s, "ours")
  BY <1>1, StackedPop DEF IInv, CronInv, Has, Others
<1> QED BY <1>1, <1>2, <1>3, <1>4, OthersKeep DEF Unwrap, plugin

LEMMA Same ==
  ASSUME IInv, UNCHANGED <<host, chain, installed, originals, own, lost, stuck>>
  PROVE  IInv'
BY DEF IInv, StateInv, SlotInv, CronInv, Taken, Untaken, Has

\* Every attribute is what the plugin made it or what it was without it, and the
\* plugin knows which, over any installations, failures and other packages.
THEOREM AttributesAccounted == Spec => []IInv
<1>1. Init => IInv
  <2> SUFFICES ASSUME Init PROVE IInv
    OBVIOUS
  <2>1. DOMAIN NoOriginals = {}
    BY DEF NoOriginals
  <2>2. StateInv
    BY <2>1 DEF StateInv, Init, Untouched
  <2>3. ASSUME NEW s \in ShimSlots PROVE SlotInv(s)
    <3>1. chain[s] = IF s \in host.has THEN <<"host">> ELSE <<>>
      BY <2>3, Attributes DEF Init, Untouched
    <3> QED BY <2>1, <3>1, Plain DEF SlotInv, Untaken, Taken, Init
  <2>4. ASSUME NEW s \in CronSlots PROVE CronInv(s)
    <3>1. chain[s] = <<"host">>
      BY <2>4, Attributes DEF Init, Untouched
    <3>2. Stacked(<<"host">>) /\ Once(<<"host">>) /\ "ours" \notin ToSet(<<"host">>)
      BY DEF Stacked, Once, ToSet, Layers
    <3> QED BY <3>1, <3>2 DEF CronInv, Has, Init
  <2> QED BY <2>2, <2>3, <2>4 DEF IInv
<1>2. IInv /\ [Next]_vars => IInv'
  <2> SUFFICES ASSUME IInv, [Next]_vars PROVE IInv'
    OBVIOUS
  <2>1. CASE InstallShim
    BY <2>1, FailsKeeps, WholeKeeps DEF InstallShim
  <2>2. CASE UninstallShim
    BY <2>2, UninstallKeeps
  <2>3. CASE Wrap
    BY <2>3, WrapKeeps
  <2>4. CASE Unwrap
    BY <2>4, UnwrapKeeps
  <2>5. CASE HostMakesDb \/ FirstReceipt \/ UNCHANGED vars
    BY <2>5, Same DEF HostMakesDb, FirstReceipt, vars, plugin
  <2>6. CASE Restart
    BY <2>6, Fresh DEF Restart
  <2> QED BY <2>1, <2>2, <2>3, <2>4, <2>5, <2>6 DEF Next
<1> QED BY <1>1, <1>2, PTL DEF Spec

-----------------------------------------------------------------------------
(* What follows.                                                           *)

LEMMA Mine ==
  ASSUME IInv, NEW s \in ShimSlots, NEW l \in {"host", "ours"}
  PROVE  Has(s, l) <=> Base(chain[s]) = l
<1>1. Base(<<>>) = "none" /\ l \notin Others
  BY Plain DEF Others
<1> QED BY <1>1, HasBase DEF IInv, SlotInv, Has

\* compat_shim.uninstall_shim and the rollback of install_shim: nothing of the
\* shim stays on a host class and what the host had is back.
THEOREM NothingIsLeft == Spec => []NothingLeft
<1>1. IInv => NothingLeft
  <2> SUFFICES ASSUME IInv, ~installed, NEW s \in ShimSlots \ stuck
               PROVE  ~Has(s, "ours") /\ (s \in host.has => Has(s, "host"))
    BY DEF NothingLeft
  <2>1. Base(chain[s]) = Untaken(s)
    BY DEF IInv, SlotInv
  <2> QED BY <2>1, Mine DEF Untaken
<1> QED BY <1>1, AttributesAccounted, PTL

\* compat_shim.install_shim: an installed shim has all it needs of its own and
\* none of the methods the host has.
THEOREM ShimAlwaysWhole == Spec => []ShimIsWhole
<1>1. IInv => ShimIsWhole
  <2> SUFFICES ASSUME IInv, installed, NEW s \in ShimSlots
               PROVE  Has(s, IF s \in host.has \ Always THEN "host" ELSE "ours")
    BY DEF ShimIsWhole
  <2>1. CASE s \in host.has \ Always
    BY <2>1, Mine DEF IInv, SlotInv, Taken
  <2>2. CASE s \notin host.has \ Always
    BY <2>2, Mine DEF IInv, SlotInv, Taken
  <2> QED BY <2>1, <2>2
<1> QED BY <1>1, AttributesAccounted, PTL

\* cron_adapter.install and uninstall: a delivery never asks for a wake twice,
\* and the wrappers are both there or both gone.
THEOREM CronAlwaysOnce == Spec => []WrappedOnce
<1>1. IInv => WrappedOnce
  BY DEF IInv, CronInv, WrappedOnce, Once
<1> QED BY <1>1, AttributesAccounted, PTL

\* Under clear wrappers only, a probe sees the base of an attribute.
LEMMA SeesBase ==
  ASSUME IInv, NEW s \in ShimSlots, ~Has(s, "opaque"), NEW l \in {"host", "ours"}
  PROVE  Seen(s, l) <=> Base(chain[s]) = l
<1>1. Proper(chain[s])
  BY DEF IInv, SlotInv
<1>2. PICK n \in Nat : n = Len(chain[s]) /\ DOMAIN chain[s] = 1..n
  BY <1>1, LenProperties DEF Proper
<1>3. \A i \in 1..(n - 1) : chain[s][i] = "clear"
  <2> SUFFICES ASSUME NEW i \in 1..(n - 1) PROVE chain[s][i] = "clear"
    OBVIOUS
  <2>1. chain[s][i] \in Others /\ i \in DOMAIN chain[s]
    BY <1>1, <1>2 DEF Proper
  <2> QED BY <2>1 DEF Has, ToSet, Others
<1>4. ASSUME Seen(s, l) PROVE Base(chain[s]) = l
  BY <1>4, Mine DEF Seen, Has, ToSet
<1>5. ASSUME Base(chain[s]) = l PROVE Seen(s, l)
  <2>1. n \in DOMAIN chain[s] /\ chain[s][n] = l
    <3>1. chain[s] # <<>>
      BY <1>5 DEF Base
    <3>2. n > 0
      BY <1>1, <1>2, <3>1 DEF Proper
    <3> QED BY <1>2, <1>5, <3>1, <3>2 DEF Base
  <2> QED BY <1>3, <2>1 DEF Seen
<1> QED BY <1>4, <1>5

\* capabilities.probe: full exactly if the shim is in or the host needs none.
THEOREM ModeAlwaysHonest == Spec => []ModeIsHonest
<1>1. IInv => ModeIsHonest
  <2> SUFFICES ASSUME IInv, stuck = {}, db = "table",
                      \A s \in ShimSlots : ~Has(s, "opaque")
               PROVE  Full <=> \/ installed
                               \/ /\ host.watcher = "routes"
                                  /\ {Order[i] : i \in {1, 2, 3, 4, 7}} \subseteq host.has
    BY DEF ModeIsHonest
  <2> DEFINE wake == "wake_session"
             target == "_kanban_internal_wake_target"
             watcher == "_kanban_notifier_watcher"
             create == "create_session_wake_receipt"
             update == "update_session_wake_receipt"
             lookup == "lookup_by_session_key"
  <2>1. \A s \in ShimSlots : /\ Callable(s) <=> Base(chain[s]) # "none"
                             /\ Seen(s, "host") <=> Base(chain[s]) = "host"
                             /\ Seen(s, "ours") <=> Base(chain[s]) = "ours"
    BY SeesBase, Replaced DEF IInv, Callable
  <2>2. {wake, target, watcher, create, update, lookup} \subseteq ShimSlots
    BY Attributes
  <2>3. {Order[i] : i \in {1, 2, 3, 4, 7}} = {lookup, create, update, wake, target}
    BY DEF Order
  <2>4. CASE installed
    <3>1. \A s \in ShimSlots : Base(chain[s]) \in {"host", "ours"}
      BY <2>4 DEF IInv, SlotInv, Taken
    <3>2. Base(chain[watcher]) = "ours"
      BY <2>2, <2>4 DEF IInv, SlotInv, Taken, Always
    <3>3. Full
      BY <2>1, <2>2, <3>1, <3>2 DEF Full, WakeMethod, Receipts, Routing
    <3> QED BY <2>4, <3>3
  <2>5. CASE ~installed
    <3>1. \A s \in ShimSlots : Base(chain[s]) = IF s \in host.has THEN "host" ELSE "none"
      BY <2>5 DEF IInv, SlotInv, Untaken
    <3>2. watcher \in host.has
      BY InstallAssumption DEF IInv, StateInv
    <3>3. Full <=> /\ {wake, create, update, lookup, target} \subseteq host.has
                   /\ host.watcher = "routes"
      BY <2>1, <2>2, <3>1, <3>2 DEF Full, WakeMethod, Receipts, Routing
    <3> QED BY <2>3, <2>5, <3>3
  <2> QED BY <2>4, <2>5
<1> QED BY <1>1, AttributesAccounted, PTL

\* doctor.run_diagnostics: a clean bill is deserved, and it is the host's own
\* wiring or an installation in force that deserves it.
THEOREM OkAlwaysDeserved == Spec => []OkIsDeserved
<1>1. IInv => OkIsDeserved
  <2> SUFFICES ASSUME IInv, NEW c \in Circumstances, Ok(c)
               PROVE  /\ Mode(c) = "full"
                      /\ KanbanWired /\ Callable("wake_session")
                      /\ c.policy # "off" => CronWired(c)
                      /\ c.messages => c.live /\ c.inbox
                      /\ stuck = {} /\ ~lost =>
                           /\ installed \/ host.watcher = "routes"
                           /\ c.policy # "off" => own \/ host.cron = "native"
    BY DEF OkIsDeserved
  <2>1. Full /\ ~CronFails(c) /\ ~MessagesFail(c)
    BY DEF Ok
  <2>2. \A s, l : Seen(s, l) => Has(s, l) /\ Callable(s)
    BY DEF Seen, Has, ToSet, Callable
  <2>3. KanbanWired /\ Callable("wake_session")
    BY <2>1, <2>2 DEF Full, Routing, WakeMethod, KanbanWired
  <2>4. c.policy # "off" => CronWired(c)
    BY <2>1, <2>2 DEF CronFails, CronAvailable, BothMarked, CronWired
  <2>5. c.messages => c.live /\ c.inbox
    BY <2>1 DEF MessagesFail, InboxRuns
  <2>6. Mode(c) = "full"
    BY <2>1 DEF Mode
  <2>7. stuck = {} => installed \/ host.watcher = "routes"
    <3> DEFINE watcher == "_kanban_notifier_watcher"
    <3>1. watcher \in ShimSlots /\ (Has(watcher, "ours") => Base(chain[watcher]) = "ours")
      BY Mine, Attributes
    <3>2. Base(chain[watcher]) = "ours" /\ stuck = {} => installed
      BY <3>1 DEF IInv, SlotInv, Untaken
    <3> QED BY <2>3, <3>1, <3>2 DEF KanbanWired
  <2>8. stuck = {} /\ ~lost /\ c.policy # "off" => own \/ host.cron = "native"
    BY <2>4 DEF CronWired, IInv, CronInv, CronSlots
  <2> QED BY <2>3, <2>4, <2>5, <2>6, <2>7, <2>8
<1> QED BY <1>1, AttributesAccounted, PTL

\* cron_adapter.install and uninstall: no step of either takes a layer of
\* another package off the cron scheduler, or puts one back.
THEOREM OthersAlwaysStay == Spec => OthersStay
<1>1. ASSUME IInv, InstallShim \/ UninstallShim, NEW s \in CronSlots
      PROVE  OtherLayers(chain'[s]) = OtherLayers(chain[s])
  <2>1. Stacked(chain[s]) /\ s \in Slots /\ s \notin ShimSlots /\ chain[s] \in Seq(Layers)
    <3>1. s \in Slots /\ s \notin ShimSlots
      BY Attributes
    <3>2. Stacked(chain[s])
      BY <1>1 DEF IInv, CronInv
    <3> QED BY <3>1, <3>2 DEF Stacked
  <2>2. \/ chain'[s] = chain[s]
        \/ chain'[s] = <<"ours">> \o chain[s]
        \/ Head(chain[s]) = "ours" /\ chain'[s] = Tail(chain[s])
    <3>1. CASE InstallFails
      <4>1. PICK k \in 0..7 : \E bad \in SUBSET Assigned(k) :
              /\ chain' = [t \in Slots |-> IF t \in bad THEN <<"ours">> ELSE chain[t]]
              /\ stuck' = stuck \cup bad
        BY <3>1, Attributes DEF InstallFails
      <4>2. s \notin Assigned(k)
        BY <2>1, AssignedFacts
      <4> QED BY <2>1, <4>1, <4>2
    <3>2. CASE InstallWhole
      BY <2>1, <3>2, AssignedFacts DEF InstallWhole
    <3>3. CASE UninstallShim
      <4>1. s \notin DOMAIN originals
        BY <1>1, <2>1 DEF IInv, StateInv
      <4>2. \/ chain'[s] = chain[s]
            \/ s \in StillOurs /\ chain'[s] = Tail(chain[s])
        BY <2>1, <3>3, <4>1 DEF UninstallShim
      <4> QED BY <4>2 DEF StillOurs
    <3> QED BY <1>1, <3>1, <3>2, <3>3 DEF InstallShim
  <2>3. CASE chain'[s] = <<"ours">> \o chain[s]
    BY <2>1, <2>3, OthersUnder
  <2>4. CASE Head(chain[s]) = "ours" /\ chain'[s] = Tail(chain[s])
    BY <2>1, <2>4, OthersUncovered DEF Stacked
  <2> QED BY <2>2, <2>3, <2>4
<1>2. IInv /\ [Next]_vars =>
        [InstallShim \/ UninstallShim =>
           \A s \in CronSlots : OtherLayers(chain'[s]) = OtherLayers(chain[s])]_vars
  BY <1>1
<1> QED BY <1>2, AttributesAccounted, PTL DEF Spec, OthersStay

=============================================================================
