------------------------ MODULE KanbanNotifierProofs ------------------------
(***************************************************************************)
(* Proofs about KanbanNotifier, for any number of destinations, events,    *)
(* subscriptions, resets and faults.                                       *)
(***************************************************************************)
EXTENDS KanbanNotifier, SequenceTheorems, TLAPS

\* Replacing the head of a sequence.
LEMMA HeadReplaced ==
  ASSUME NEW S, NEW b \in Seq(S), b # <<>>, NEW x \in S
  PROVE  /\ <<x>> \o Tail(b) \in Seq(S)
         /\ <<x>> \o Tail(b) # <<>>
         /\ Head(<<x>> \o Tail(b)) = x
<1>1. Tail(b) \in Seq(S)
  BY HeadTailProperties
<1>2. <<x>> \in Seq(S) /\ Len(<<x>>) = 1 /\ <<x>>[1] = x
  OBVIOUS
<1> DEFINE c == <<x>> \o Tail(b)
<1>3. c \in Seq(S) /\ Len(c) = 1 + Len(Tail(b)) /\ Len(Tail(b)) \in Nat
  BY <1>1, <1>2, ConcatProperties, LenProperties
<1>4. c[1] = x
  BY <1>1, <1>2, <1>3, ConcatProperties
<1>5. c # <<>>
  BY <1>3, EmptySeq
<1> QED BY <1>3, <1>4, <1>5

-----------------------------------------------------------------------------
(* The inductive invariant: what the deliveries of a batch know.           *)

\* An event was proven injected, and shown where the mode asks for it.
Served(s, i, mode) == /\ phase[<<s, i>>] = "delivered"
                      /\ mode \in Visible => <<s, i>> \in shown

\* A native delivery whose subscription still stands has the events before its
\* next one behind it; one that claimed a native row's events disowned the row;
\* none is of a subscription still to come.
Good == {D \in Deliveries :
           /\ D.old < D.upto /\ D.next <= D.upto + 1
           /\ D.gen <= sub[D.sub].gen /\ D.row <= sub[D.sub].gen
           /\ sub[D.sub].live /\ sub[D.sub].gen = D.gen /\ D.mode \in Native =>
                /\ sub[D.sub].mode = D.mode
                /\ sub[D.sub].own =>
                     \A i \in (sub[D.sub].start + 1)..(D.next - 1) : Served(D.sub, i, D.mode)
           /\ sub[D.sub].live /\ sub[D.sub].gen = D.row /\ sub[D.sub].own /\ D.mode \notin Native =>
                sub[D.sub].mode \notin Native}

\* A listed row is the one that stands, or an earlier one.
Listing == {r \in Listed :
              /\ r.gen <= sub[r.sub].gen
              /\ sub[r.sub].live /\ sub[r.sub].gen = r.gen /\ r.mode \in Native =>
                   sub[r.sub].mode = r.mode}

BatchInv == batch \in Seq(Good)
ListInv  == todo \subseteq Listing

\* What the loop knows of the delivery at the head.
HeadInv ==
  /\ pc \in {"event", "waking", "sending", "acking", "failed"} => batch # <<>>
  /\ pc \in {"waking", "sending", "acking"} => d.next <= d.upto
  /\ pc = "sending" /\ native => phase[now] = "delivered"
  /\ pc = "acking" => native /\ Served(d.sub, d.next, d.mode)

IInv == TypeOK /\ ListInv /\ BatchInv /\ HeadInv /\ AcknowledgedIsDelivered

\* Deliveries and messages are not taken back.
Grows == /\ \A e \in Subs \X Ids : phase[e] = "delivered" => phase'[e] = "delivered"
         /\ shown \subseteq shown'

\* A subscription that stands is the one it was, or a later one.
Follows(s) == /\ sub'[s].gen >= sub[s].gen
              /\ sub'[s].live /\ sub'[s].gen = sub[s].gen =>
                   /\ sub[s].live /\ (sub'[s].own => sub[s].own)
                   /\ sub[s].mode \in Native => sub'[s].mode = sub[s].mode
                   /\ sub[s].mode \notin Native => sub'[s].mode \notin Native
                   /\ sub'[s].start = sub[s].start

\* Its cursor has not been moved on.
Behind(s) == sub'[s].live /\ sub'[s].own /\ sub'[s].mode \in Native =>
               \/ sub'[s].start = sub'[s].cursor
               \/ /\ sub[s].live /\ sub[s].own /\ sub'[s].mode = sub[s].mode
                  /\ sub'[s].start = sub[s].start /\ sub'[s].cursor <= sub[s].cursor

\* The fields of a subscription.
LEMMA RowFields ==
  ASSUME NEW r \in Rows
  PROVE  /\ r.gen \in Nat /\ r.start \in Nat /\ r.cursor \in Nat
         /\ r.start <= MaxEvents /\ r.cursor <= MaxEvents /\ r.gen <= MaxGens
         /\ r.mode \in Modes /\ r.live \in BOOLEAN /\ r.own \in BOOLEAN
BY NotifierAssumption DEF Rows

\* A step that takes nothing back keeps what every delivery knows.
LEMMA GoodStays ==
  ASSUME TypeOK, TypeOK', Grows, \A s \in Subs : Follows(s)
  PROVE  Good \subseteq Good'
<1> SUFFICES ASSUME NEW D \in Good PROVE D \in Good'
  OBVIOUS
<1>1. D \in Deliveries /\ D.sub \in Subs /\ D.gen \in Nat /\ D.row \in Nat /\ D.next \in Nat
      /\ D.upto \in Ids /\ D.old \in Nat
  BY NotifierAssumption DEF Good, Deliveries, Ids
<1>2. sub[D.sub].gen \in Nat /\ sub'[D.sub].gen \in Nat /\ sub[D.sub].start \in Nat
  BY <1>1, RowFields DEF TypeOK
<1>3. D.gen <= sub'[D.sub].gen /\ D.row <= sub'[D.sub].gen
  BY <1>1, <1>2 DEF Good, Follows
<1>4. ASSUME sub'[D.sub].live, sub'[D.sub].gen = D.gen, D.mode \in Native
      PROVE  /\ sub'[D.sub].mode = D.mode
             /\ sub'[D.sub].own =>
                  \A i \in (sub'[D.sub].start + 1)..(D.next - 1) : Served(D.sub, i, D.mode)'
  <2>1. sub[D.sub].gen = D.gen /\ sub[D.sub].live
    BY <1>1, <1>2, <1>4 DEF Good, Follows
  <2>2. /\ sub[D.sub].mode = D.mode /\ sub'[D.sub].mode = D.mode
        /\ sub'[D.sub].start = sub[D.sub].start /\ (sub'[D.sub].own => sub[D.sub].own)
    BY <1>1, <1>4, <2>1 DEF Good, Follows
  <2>3. ASSUME sub'[D.sub].own, NEW i \in (sub[D.sub].start + 1)..(D.next - 1)
        PROVE  Served(D.sub, i, D.mode)'
    <3>1. Served(D.sub, i, D.mode)
      BY <1>4, <2>1, <2>2, <2>3 DEF Good
    <3>2. i \in Ids
      BY <1>1, <1>2, NotifierAssumption DEF Good, Ids
    <3> QED BY <1>1, <3>1, <3>2 DEF Served, Grows
  <2> QED BY <2>2, <2>3
<1>5. ASSUME sub'[D.sub].live, sub'[D.sub].gen = D.row, sub'[D.sub].own, D.mode \notin Native
      PROVE  sub'[D.sub].mode \notin Native
  <2>1. sub[D.sub].gen = D.row
    BY <1>1, <1>2, <1>5 DEF Good, Follows
  <2> QED BY <1>1, <1>5, <2>1 DEF Good, Follows
<1> QED BY <1>1, <1>3, <1>4, <1>5 DEF Good

\* A step that moves no cursor on keeps the meaning of the cursors.
LEMMA CursorsStay ==
  ASSUME TypeOK, AcknowledgedIsDelivered, Grows, \A s \in Subs : Behind(s), TypeOK'
  PROVE  AcknowledgedIsDelivered'
<1> SUFFICES ASSUME NEW s \in Subs, sub'[s].live, sub'[s].own, sub'[s].mode \in Native,
                    NEW i \in (sub'[s].start + 1)..sub'[s].cursor
             PROVE  /\ phase'[<<s, i>>] = "delivered"
                    /\ sub'[s].mode \in Visible => <<s, i>> \in shown'
  BY DEF AcknowledgedIsDelivered
<1>1. /\ sub[s].start \in Nat /\ sub[s].cursor \in Nat /\ sub[s].cursor <= MaxEvents
      /\ sub'[s].start \in Nat /\ sub'[s].cursor \in Nat /\ sub'[s].cursor <= MaxEvents
  <2>1. sub[s] \in Rows /\ sub'[s] \in Rows
    BY DEF TypeOK
  <2> QED BY <2>1, RowFields
<1>2. i \in Ids /\ sub'[s].start # sub'[s].cursor
  BY <1>1, NotifierAssumption DEF Ids
<1>3. sub[s].live /\ sub[s].own /\ sub'[s].mode = sub[s].mode /\ i \in (sub[s].start + 1)..sub[s].cursor
  BY <1>1, <1>2 DEF Behind
<1>4. /\ phase[<<s, i>>] = "delivered"
      /\ sub[s].mode \in Visible => <<s, i>> \in shown
  BY <1>3 DEF AcknowledgedIsDelivered
<1>5. <<s, i>> \in Subs \X Ids
  BY <1>2
<1> QED BY <1>3, <1>4, <1>5 DEF Grows

\* The delivery at the head, where there is one.
LEMMA HeadIsGood ==
  ASSUME TypeOK, BatchInv, batch # <<>>
  PROVE  /\ d \in Good /\ d \in Deliveries /\ d.sub \in Subs
         /\ d.next \in Nat /\ d.upto \in Ids /\ d.old \in 0..MaxEvents
         /\ d.old < d.upto /\ d.next <= d.upto + 1 /\ d.mode \in Modes
         /\ Tail(batch) \in Seq(Good) /\ Tail(batch) \in Seq(Deliveries)
<1>1. d \in Good /\ Tail(batch) \in Seq(Good)
  BY HeadTailProperties DEF BatchInv, d
<1>2. \A D \in Good : D \in Deliveries /\ D.old < D.upto /\ D.next <= D.upto + 1
  BY DEF Good
<1> HIDE DEF Good
<1>3. Tail(batch) \in Seq(Deliveries)
  BY <1>1, <1>2, SeqMonotonic
<1>4. /\ d.sub \in Subs /\ d.next \in 1..(MaxEvents + 1) /\ d.upto \in Ids
      /\ d.old \in 0..MaxEvents /\ d.mode \in Modes
  BY <1>1, <1>2 DEF Deliveries
<1>5. d.next \in Nat
  BY <1>4, NotifierAssumption
<1> QED BY <1>1, <1>2, <1>3, <1>4, <1>5

\* The next event of the delivery at the head, while there is one.
LEMMA HeadMovesOn ==
  ASSUME TypeOK, BatchInv, batch # <<>>, d.next <= d.upto
  PROVE  /\ [d EXCEPT !.next = @ + 1] \in Deliveries
         /\ <<[d EXCEPT !.next = @ + 1]>> \o Tail(batch) \in Seq(Deliveries)
         /\ <<[d EXCEPT !.next = @ + 1]>> \o Tail(batch) # <<>>
         /\ now \in Subs \X Ids
<1>0. d \in Deliveries /\ d.upto \in 1..MaxEvents /\ d.next \in 1..(MaxEvents + 1)
  BY HeadIsGood DEF Deliveries, Ids
<1>1. d.next + 1 \in 1..(MaxEvents + 1) /\ d.next \in Ids
  BY <1>0, NotifierAssumption DEF Ids
<1>2. [d EXCEPT !.next = @ + 1] \in Deliveries
  BY <1>1, HeadIsGood DEF Deliveries
<1>3. batch \in Seq(Deliveries)
  BY DEF TypeOK
<1>4. now \in Subs \X Ids
  BY <1>1, HeadIsGood DEF now
<1> QED BY <1>2, <1>3, <1>4, HeadReplaced

\* What the loop and the operator write into a row leaves a row.
LEMMA RowWrites ==
  ASSUME NEW r \in Rows
  PROVE  /\ [r EXCEPT !.live = FALSE] \in Rows
         /\ \A c \in 0..MaxEvents : [r EXCEPT !.cursor = c] \in Rows
         /\ \A m \in Modes : [r EXCEPT !.mode = m] \in Rows
BY DEF Rows

\* A claim taken back, or gone over, leaves rows.
LEMMA RewoundType ==
  ASSUME TypeOK, BatchInv, batch # <<>>
  PROVE  Rewound \in [Subs -> Rows] /\ Advanced \in [Subs -> Rows]
<1>1. /\ sub \in [Subs -> Rows] /\ d.sub \in Subs /\ d.old \in 0..MaxEvents
      /\ d.upto \in 0..MaxEvents /\ sub[d.sub].own \in BOOLEAN
  BY HeadIsGood, RowFields, NotifierAssumption DEF TypeOK, Ids
<1> DEFINE o == sub[d.sub].own /\ sub[d.sub].gen = d.row /\ d.sub \notin unnamed
<1>2. /\ [sub[d.sub] EXCEPT !.cursor = d.old] \in Rows
      /\ [sub[d.sub] EXCEPT !.cursor = d.upto, !.own = o] \in Rows
  BY <1>1 DEF Rows
<1>3. Rewound \in [Subs -> Rows]
  BY <1>1, <1>2 DEF Rewound
<1>4. Advanced = sub \/ Advanced = [sub EXCEPT ![d.sub] = [sub[d.sub] EXCEPT !.cursor = d.upto, !.own = o]]
  BY <1>1 DEF Advanced
<1> HIDE DEF o
<1>5. Advanced \in [Subs -> Rows]
  BY <1>1, <1>2, <1>4
<1> QED BY <1>3, <1>5

\* Every step of the loop, the board, the operator and the wakes keeps the
\* types, given what is known of the delivery at the head.
LEMMA NotifierTypes ==
  ASSUME TypeOK, BatchInv, HeadInv, [Next]_vars
  PROVE  TypeOK'
<1> USE NotifierAssumption DEF TypeOK, Wake!TypeOK, MaxSendFailures, board, wakes
<1>1. CASE StartTick
  <2>1. todo' \subseteq Listed
    <3>1. ASSUME NEW s \in Subs
          PROVE  [sub |-> s, mode |-> sub[s].mode, gen |-> sub[s].gen] \in Listed
      <4>1. sub[s] \in Rows
        OBVIOUS
      <4> QED BY <4>1 DEF Rows, Listed
    <3> QED BY <1>1, <3>1 DEF StartTick
  <2> QED BY <1>1, <2>1 DEF StartTick
<1>2. ASSUME NEW r \in todo, Collect(r) PROVE TypeOK'
  <2> DEFINE s == r.sub
  <2>0. s \in Subs /\ r.mode \in Modes /\ r.gen \in 0..MaxGens
    BY DEF Listed
  <2> HIDE DEF s
  <2>1. sub[s] \in Rows /\ sub[s].cursor \in Nat
    BY <2>0, RowFields
  <2>2. CASE archived
    <3>1. [sub[s] EXCEPT !.live = FALSE] \in Rows
      BY <2>1 DEF Rows
    <3>2. sub' \in [Subs -> Rows]
      BY <1>2, <2>2, <3>1 DEF Collect, s
    <3> QED BY <1>2, <2>2, <3>2 DEF Collect
  <2>3. CASE ~archived /\ sub[s].live /\ Unseen(s)
    <3> DEFINE D == [sub |-> s, mode |-> r.mode, gen |-> r.gen, row |-> sub[s].gen,
                     old |-> sub[s].cursor, upto |-> log, next |-> First(s)]
               o == sub[s].own /\ sub[s].mode \notin Native
    <3>1. D \in Deliveries
      BY <2>0, <2>1, <2>3 DEF Deliveries, Rows, Unseen, First, Ids
    <3>2. [sub[s] EXCEPT !.cursor = log, !.own = o] \in Rows
      BY <2>1 DEF Rows
    <3>3. batch' = Append(batch, D)
          /\ (sub' = sub \/ sub' = [sub EXCEPT ![s] = [sub[s] EXCEPT !.cursor = log, !.own = o]])
      BY <1>2, <2>0, <2>3 DEF Collect, s
    <3> HIDE DEF D, o
    <3>4. batch' \in Seq(Deliveries)
      BY <3>1, <3>3, AppendProperties
    <3>5. sub' \in [Subs -> Rows]
      BY <3>2, <3>3
    <3> QED BY <1>2, <3>4, <3>5 DEF Collect
  <2>4. CASE ~archived /\ ~(sub[s].live /\ Unseen(s))
    BY <1>2, <2>4 DEF Collect, s
  <2> QED BY <2>2, <2>3, <2>4
<1>3. CASE Collected BY <1>3 DEF Collected
<1>4. CASE OpenDelivery
  <2>1. batch # <<>> => /\ Rewound \in [Subs -> Rows] /\ Advanced \in [Subs -> Rows]
                        /\ Tail(batch) \in Seq(Deliveries)
    <3>1. CASE batch # <<>>
      <4> HIDE DEF TypeOK
      <4> QED BY <3>1, RewoundType, HeadIsGood
    <3> QED BY <3>1
  <2> QED BY <1>4, <2>1 DEF OpenDelivery
<1>5. CASE OpenEvent
  <2>1. batch # <<>> /\ d.next <= d.upto
    BY <1>5 DEF OpenEvent, HeadInv
  <2>2. now \in Subs \X Ids
    BY <2>1, HeadMovesOn
  <2> QED BY <1>5, <2>2 DEF OpenEvent
<1>6. CASE CloseDelivery
  <2>1. Tail(batch) \in Seq(Deliveries) /\ Advanced \in [Subs -> Rows]
    BY <1>6, HeadIsGood, RewoundType DEF CloseDelivery, HeadInv
  <2> QED BY <1>6, <2>1 DEF CloseDelivery
<1>7. CASE WakeAccepted \/ WakeRejected
  BY <1>7 DEF WakeAccepted, WakeRejected
<1>8. CASE MarkerWake \/ Send \/ SendFails \/ Acknowledge
  <2>1. batch # <<>> /\ d.next <= d.upto
    BY <1>8 DEF MarkerWake, Send, SendFails, Acknowledge, HeadInv
  <2>2. now \in Subs \X Ids /\ <<[d EXCEPT !.next = @ + 1]>> \o Tail(batch) \in Seq(Deliveries)
        /\ d.sub \in Subs /\ d.next \in 0..MaxEvents
    <3> HIDE DEF TypeOK
    <3>1. d.next \in Nat /\ d.upto \in Ids /\ d.sub \in Subs
      BY <2>1, HeadIsGood
    <3> QED BY <2>1, <3>1, HeadMovesOn DEF Ids
  <2>3. [sub[d.sub] EXCEPT !.cursor = d.next] \in Rows
    <3>1. sub[d.sub] \in Rows
      BY <2>2
    <3> QED BY <2>2, <3>1, RowWrites
  <2>4. CASE MarkerWake
    <3>1. batch' \in Seq(Deliveries)
      BY <2>2, <2>4 DEF MarkerWake, NextEvent
    <3>2. fails' \in [Subs -> 0..MaxSendFailures - 1]
      <4>1. fails' = fails \/ fails' = [fails EXCEPT ![d.sub] = 0]
        BY <2>4 DEF MarkerWake, NextEvent
      <4> QED BY <2>2, <4>1
    <3>3. /\ pc' \in {"event", "acking", "failed"}
          /\ shown' \subseteq Subs \X Ids /\ marked' \subseteq Subs \X Ids
      BY <2>2, <2>4 DEF MarkerWake, NextEvent
    <3> QED BY <2>4, <3>1, <3>2, <3>3 DEF MarkerWake
  <2>5. CASE Send
    <3>1. batch' \in Seq(Deliveries)
      BY <2>2, <2>5 DEF Send, NextEvent
    <3>2. fails' \in [Subs -> 0..MaxSendFailures - 1]
      <4>1. fails' = fails \/ fails' = [fails EXCEPT ![d.sub] = 0]
        BY <2>5 DEF Send, NextEvent
      <4> QED BY <2>2, <4>1
    <3>3. /\ pc' \in {"event", "acking", "failed"}
          /\ shown' \subseteq Subs \X Ids /\ marked' \subseteq Subs \X Ids
      BY <2>2, <2>5 DEF Send, NextEvent
    <3> QED BY <2>5, <3>1, <3>2, <3>3 DEF Send
  <2>6. CASE SendFails BY <2>2, <2>6 DEF SendFails
  <2>7. CASE Acknowledge
    <3>1. sub' = sub \/ sub' = [sub EXCEPT ![d.sub] = [sub[d.sub] EXCEPT !.cursor = d.next]]
      BY <2>7 DEF Acknowledge
    <3>2. sub' \in [Subs -> Rows]
      BY <2>2, <2>3, <3>1
    <3> QED BY <2>2, <2>7, <3>2 DEF Acknowledge, NextEvent, MaxSendFailures
  <2> QED BY <1>8, <2>4, <2>5, <2>6, <2>7
<1>9. CASE AcknowledgeFails \/ TickFails
  <2>1. CASE AcknowledgeFails BY <2>1 DEF AcknowledgeFails
  <2>2. CASE TickFails BY <2>2, EmptySeq DEF TickFails
  <2> QED BY <1>9, <2>1, <2>2
<1>10. CASE Fail
  <2>1. batch # <<>>
    BY <1>10 DEF Fail, HeadInv
  <2>2. d.sub \in Subs /\ Tail(batch) \in Seq(Deliveries) /\ Rewound \in [Subs -> Rows]
    BY <2>1, HeadIsGood, RewoundType
  <2>3. [sub[d.sub] EXCEPT !.live = FALSE] \in Rows
    <3>1. sub[d.sub] \in Rows
      BY <2>2
    <3> QED BY <3>1, RowWrites
  <2>4. sub' = Rewound \/ sub' = [sub EXCEPT ![d.sub] = [sub[d.sub] EXCEPT !.live = FALSE]]
    BY <1>10 DEF Fail
  <2>5. sub' \in [Subs -> Rows]
    BY <2>2, <2>3, <2>4
  <2>6. fails' \in [Subs -> 0..MaxSendFailures - 1]
    <3>1. PICK n : n = fails[d.sub] /\ n \in 0..2
      BY <2>2
    <3>2. fails' = [fails EXCEPT ![d.sub] = IF ~(n + 1 >= 3) THEN n + 1 ELSE IF native THEN n ELSE 0]
      BY <1>10, <2>2, <3>1 DEF Fail, MaxSendFailures
    <3>3. (IF ~(n + 1 >= 3) THEN n + 1 ELSE IF native THEN n ELSE 0) \in 0..2
      BY <3>1
    <3> QED BY <2>2, <3>2, <3>3
  <2> QED BY <1>10, <2>2, <2>5, <2>6 DEF Fail
<1>11. CASE BoardEvent \/ Archive \/ Reconnect
  <2>1. CASE BoardEvent BY <2>1 DEF BoardEvent
  <2>2. CASE Archive BY <2>2 DEF Archive
  <2>3. CASE Reconnect BY <2>3 DEF Reconnect
  <2> QED BY <1>11, <2>1, <2>2, <2>3
<1>12. ASSUME NEW s \in Subs, Unsubscribe(s) \/ Upgrade(s) \/ ResetCursor(s) PROVE TypeOK'
  <2>1. /\ [sub[s] EXCEPT !.live = FALSE] \in Rows
        /\ [sub[s] EXCEPT !.cursor = 0, !.start = IF UnderWay(s) THEN @ ELSE 0] \in Rows
        /\ "marker" \in Modes => [sub[s] EXCEPT !.mode = "marker"] \in Rows
    <3>1. sub[s] \in Rows /\ 0 \in 0..MaxEvents
      OBVIOUS
    <3>2. [sub[s] EXCEPT !.cursor = 0, !.start = IF UnderWay(s) THEN @ ELSE 0] \in Rows
      BY <3>1 DEF Rows
    <3> QED BY <3>1, <3>2, RowWrites
  <2>2. CASE Unsubscribe(s) BY <2>1, <2>2 DEF Unsubscribe
  <2>3. CASE Upgrade(s) BY <2>1, <2>3 DEF Upgrade
  <2>4. CASE ResetCursor(s)
    <3>1. sub' = [sub EXCEPT ![s] = [sub[s] EXCEPT !.cursor = 0,
                                                   !.start = IF UnderWay(s) THEN @ ELSE 0]]
      BY <2>4 DEF ResetCursor
    <3>2. sub' \in [Subs -> Rows]
      BY <2>1, <3>1
    <3> QED BY <2>4, <3>2 DEF ResetCursor
  <2> QED BY <1>12, <2>2, <2>3, <2>4
<1>13. ASSUME NEW s \in Subs, NEW mode \in Modes, NEW c \in 0..log, Subscribe(s, mode, c)
       PROVE  TypeOK'
  <2>1. sub[s] \in Rows /\ sub[s].gen < MaxGens
    BY <1>13 DEF Subscribe
  <2>2. Row(TRUE, mode, sub[s].gen + 1, c) \in Rows
    BY <2>1 DEF Row, Rows
  <2> QED BY <1>13, <2>2 DEF Subscribe
<1>14. CASE WakesMove
  BY <1>14 DEF WakesMove, Wake!TypeOK, Wake!Undertake, Wake!Abandon, Wake!Tell, Wake!Confirm
<1>15. CASE Crash BY <1>15, EmptySeq DEF Crash, MaxSendFailures
<1>16. CASE UNCHANGED vars BY <1>16 DEF vars
<1> QED BY <1>1, <1>2, <1>3, <1>4, <1>5, <1>6, <1>7, <1>8, <1>9, <1>10, <1>11, <1>12,
           <1>13, <1>14, <1>15, <1>16 DEF Next, Tick

\* A delivery whose event at hand is served may move on to the next.
LEMMA MovedOnIsGood ==
  ASSUME TypeOK, BatchInv, batch # <<>>, d.next <= d.upto,
         native => Served(d.sub, d.next, d.mode)
  PROVE  [d EXCEPT !.next = @ + 1] \in Good
<1> DEFINE D == [d EXCEPT !.next = @ + 1]
<1>1. d \in Good /\ d \in Deliveries /\ d.next \in Nat /\ d.upto \in Nat
  BY HeadIsGood, NotifierAssumption DEF Ids
<1>2. D \in Deliveries
  BY HeadMovesOn
<1>3. /\ D.next = d.next + 1 /\ D.sub = d.sub /\ D.mode = d.mode /\ D.gen = d.gen
      /\ D.old = d.old /\ D.upto = d.upto /\ D.row = d.row
  BY <1>1 DEF Deliveries
<1>4. /\ D.old < D.upto /\ D.next <= D.upto + 1
      /\ D.gen <= sub[D.sub].gen /\ D.row <= sub[D.sub].gen
      /\ sub[D.sub].live /\ sub[D.sub].gen = D.row /\ sub[D.sub].own /\ D.mode \notin Native =>
           sub[D.sub].mode \notin Native
  BY <1>1, <1>3 DEF Good
<1>5. ASSUME sub[d.sub].live, sub[d.sub].gen = d.gen, d.mode \in Native
      PROVE  /\ sub[d.sub].mode = d.mode
             /\ sub[d.sub].own =>
                  \A i \in (sub[d.sub].start + 1)..d.next : Served(d.sub, i, d.mode)
  <2>1. /\ sub[d.sub].mode = d.mode
        /\ sub[d.sub].own =>
             \A i \in (sub[d.sub].start + 1)..(d.next - 1) : Served(d.sub, i, d.mode)
    BY <1>1, <1>5 DEF Good
  <2>2. sub[d.sub].start \in Nat
    BY HeadIsGood, RowFields DEF TypeOK
  <2>3. Served(d.sub, d.next, d.mode)
    BY <1>5 DEF native
  <2>4. ASSUME sub[d.sub].own, NEW i \in (sub[d.sub].start + 1)..d.next
        PROVE  Served(d.sub, i, d.mode)
    <3>1. i = d.next \/ i \in (sub[d.sub].start + 1)..(d.next - 1)
      BY <1>1, <2>2
    <3> QED BY <2>1, <2>3, <2>4, <3>1
  <2> QED BY <2>1, <2>4
<1>6. sub[D.sub].live /\ sub[D.sub].gen = D.gen /\ D.mode \in Native =>
         /\ sub[D.sub].mode = D.mode
         /\ sub[D.sub].own =>
              \A i \in (sub[D.sub].start + 1)..(D.next - 1) : Served(D.sub, i, D.mode)
  <2>1. D.next - 1 = d.next
    BY <1>1, <1>3
  <2> HIDE DEF D
  <2> QED BY <1>3, <1>5, <2>1
<1> HIDE DEF D
<1>7. D \in Good
  BY <1>2, <1>4, <1>6 DEF Good
<1> QED BY <1>7 DEF D

\* The row of a destination is the one it was, or one subscribed since.  What a
\* delivery under way counts from is not moved.
Kept(s) == /\ sub'[s].gen = sub[s].gen
           /\ (sub'[s].live => sub[s].live) /\ (sub'[s].own => sub[s].own)
           /\ sub'[s].mode = sub[s].mode \/ (sub[s].mode \notin Native /\ sub'[s].mode \notin Native)
           /\ sub'[s].start = sub[s].start \/ ~UnderWay(s)

LEMMA RowsKept ==
  ASSUME TypeOK, BatchInv, HeadInv, [Next]_vars, NEW s \in Subs
  PROVE  Kept(s) \/ sub'[s].gen > sub[s].gen
<1>0. sub[s] \in Rows /\ sub \in [Subs -> Rows] /\ sub[s].gen \in Nat
  BY RowFields DEF TypeOK
<1>1. CASE sub'[s] = sub[s]
  BY <1>1 DEF Kept
<1>2. ASSUME NEW x, sub'[s] = [sub[s] EXCEPT !.cursor = x] PROVE Kept(s)
  BY <1>0, <1>2 DEF Kept, Rows
<1>3. ASSUME sub'[s] = [sub[s] EXCEPT !.live = FALSE] PROVE Kept(s)
  BY <1>0, <1>3 DEF Kept, Rows
<1>4. ASSUME NEW x, NEW o, o => sub[s].own, sub'[s] = [sub[s] EXCEPT !.cursor = x, !.own = o]
      PROVE  Kept(s)
  <2>1. /\ sub'[s].gen = sub[s].gen /\ sub'[s].live = sub[s].live /\ sub'[s].own = o
        /\ sub'[s].mode = sub[s].mode /\ sub'[s].start = sub[s].start
    BY <1>0, <1>4 DEF Rows
  <2> QED BY <1>4, <2>1 DEF Kept
<1>5. ASSUME NEW r \in todo, Collect(r), sub'[s] # sub[s] PROVE Kept(s)
  <2>1. r.sub = s
    BY <1>0, <1>5 DEF Collect, TypeOK, Listed
  <2>2. \/ sub'[s] = [sub[s] EXCEPT !.live = FALSE]
        \/ sub'[s] = [sub[s] EXCEPT !.cursor = log, !.own = sub[s].own /\ sub[s].mode \notin Native]
    BY <1>0, <1>5, <2>1 DEF Collect
  <2> DEFINE o == sub[s].own /\ sub[s].mode \notin Native
  <2>3. o => sub[s].own
    OBVIOUS
  <2> HIDE DEF o
  <2>4. CASE sub'[s] = [sub[s] EXCEPT !.cursor = log, !.own = o]
    BY <1>4, <2>3, <2>4
  <2> QED BY <1>3, <2>2, <2>4 DEF o
<1>6. ASSUME sub' = Advanced \/ sub' = Rewound, sub'[s] # sub[s] PROVE Kept(s)
  <2>1. CASE sub' = Rewound
    BY <1>0, <1>2, <1>6, <2>1 DEF Rewound
  <2>2. CASE sub' = Advanced
    <3> DEFINE o == sub[s].own /\ sub[s].gen = d.row /\ d.sub \notin unnamed
    <3>1. sub'[s] = [sub[s] EXCEPT !.cursor = d.upto, !.own = o] /\ (o => sub[s].own)
      BY <1>0, <1>6, <2>2 DEF Advanced
    <3> HIDE DEF o
    <3> QED BY <1>4, <3>1
  <2> QED BY <1>6, <2>1, <2>2
<1>7. CASE OpenDelivery \/ CloseDelivery
  BY <1>1, <1>6, <1>7 DEF OpenDelivery, CloseDelivery
<1>8. CASE Acknowledge
  BY <1>0, <1>1, <1>2, <1>8 DEF Acknowledge
<1>9. CASE Fail
  BY <1>0, <1>1, <1>3, <1>6, <1>9 DEF Fail
<1>10. ASSUME NEW t \in Subs, Unsubscribe(t) \/ Upgrade(t) \/ ResetCursor(t), sub'[s] # sub[s]
       PROVE  Kept(s)
  <2>1. CASE Unsubscribe(t)
    BY <1>0, <1>3, <1>10, <2>1 DEF Unsubscribe
  <2>2. CASE Upgrade(t)
    <3>1. sub'[s] = [sub[s] EXCEPT !.mode = "marker"] /\ sub[s].mode = "notify"
      BY <1>0, <1>10, <2>2 DEF Upgrade
    <3>2. /\ sub'[s].gen = sub[s].gen /\ sub'[s].live = sub[s].live /\ sub'[s].own = sub[s].own
          /\ sub'[s].mode = "marker" /\ sub'[s].start = sub[s].start
      BY <1>0, <3>1 DEF Rows
    <3> QED BY <3>1, <3>2 DEF Kept, Native
  <2>3. CASE ResetCursor(t)
    <3> DEFINE x == IF UnderWay(s) THEN sub[s].start ELSE 0
    <3>1. sub'[s] = [sub[s] EXCEPT !.cursor = 0, !.start = x]
      BY <1>0, <1>10, <2>3 DEF ResetCursor
    <3>2. x = sub[s].start \/ ~UnderWay(s)
      OBVIOUS
    <3> HIDE DEF x
    <3>3. /\ sub'[s].gen = sub[s].gen /\ sub'[s].live = sub[s].live /\ sub'[s].own = sub[s].own
          /\ sub'[s].mode = sub[s].mode /\ sub'[s].start = x
      BY <1>0, <3>1 DEF Rows
    <3> QED BY <3>2, <3>3 DEF Kept
  <2> QED BY <1>10, <2>1, <2>2, <2>3
<1>11. ASSUME NEW t \in Subs, NEW mode \in Modes, NEW c \in 0..log, Subscribe(t, mode, c),
              sub'[s] # sub[s]
       PROVE  sub'[s].gen > sub[s].gen
  <2>1. sub'[s].gen = sub[s].gen + 1
    BY <1>0, <1>11 DEF Subscribe, Row
  <2> QED BY <1>0, <2>1
<1>12. CASE sub' = sub
  BY <1>1, <1>12
<1>13. CASE \/ StartTick \/ Collected \/ OpenEvent \/ WakeAccepted \/ WakeRejected \/ MarkerWake
            \/ Send \/ SendFails \/ AcknowledgeFails \/ TickFails \/ BoardEvent
            \/ Archive \/ Reconnect \/ WakesMove \/ Crash \/ UNCHANGED vars
  BY <1>12, <1>13 DEF StartTick, Collected, OpenEvent, WakeAccepted, WakeRejected, MarkerWake,
                      Send, SendFails, AcknowledgeFails, TickFails, BoardEvent, Archive,
                      Reconnect, WakesMove, Crash, vars
<1> QED BY <1>1, <1>5, <1>7, <1>8, <1>9, <1>10, <1>11, <1>13 DEF Next, Tick

\* A listed row stays the one that stands, or becomes an earlier one.
LEMMA ListInductive ==
  ASSUME TypeOK, ListInv, BatchInv, HeadInv, TypeOK', [Next]_vars
  PROVE  ListInv'
<1>1. CASE StartTick
  <2>1. ASSUME NEW s \in Subs
        PROVE  [sub |-> s, mode |-> sub[s].mode, gen |-> sub[s].gen] \in Listing
    <3>1. sub[s] \in Rows /\ sub[s].gen \in Nat
      BY RowFields DEF TypeOK
    <3> QED BY <3>1 DEF Listing, Listed, Rows
  <2>2. Listing' = Listing
    BY <1>1 DEF StartTick, Listing
  <2> QED BY <1>1, <2>1, <2>2 DEF StartTick, ListInv
<1>2. CASE todo' \subseteq todo
  <2> SUFFICES ASSUME NEW r \in todo PROVE r \in Listing'
    BY <1>2 DEF ListInv
  <2>1. r \in Listing /\ r \in Listed /\ r.sub \in Subs /\ r.gen \in Nat
    BY NotifierAssumption DEF ListInv, Listing, Listed
  <2>2. sub[r.sub].gen \in Nat /\ sub'[r.sub].gen \in Nat
    BY <2>1, RowFields DEF TypeOK
  <2>3. CASE Kept(r.sub)
    BY <2>1, <2>3 DEF Listing, Kept
  <2>4. CASE sub'[r.sub].gen > sub[r.sub].gen
    BY <2>1, <2>2, <2>4 DEF Listing
  <2> QED BY <2>1, <2>3, <2>4, RowsKept
<1>3. todo' \subseteq todo \/ StartTick
  BY DEF Next, Tick, Collect, Collected, OpenDelivery, OpenEvent, CloseDelivery, WakeAccepted,
         WakeRejected, MarkerWake, Send, SendFails, Acknowledge, Fail, AcknowledgeFails,
         TickFails, BoardEvent, Archive, Reconnect, Unsubscribe, Upgrade, ResetCursor,
         Subscribe, WakesMove, Crash, vars
<1> QED BY <1>1, <1>2, <1>3

\* What the loop does with a delivery keeps what the deliveries, the head and
\* the cursors stand for.
LEMMA LoopInductive ==
  ASSUME IInv, TypeOK', Tick
  PROVE  BatchInv' /\ HeadInv' /\ AcknowledgedIsDelivered'
<1> USE DEF IInv
<1>g. ASSUME Grows, \A s \in Subs : Follows(s)
      PROVE  \A b : b \in Seq(Good) => b \in Seq(Good')
  BY <1>g, GoodStays, SeqMonotonic
<1>s. ASSUME sub' = sub PROVE \A s \in Subs : Follows(s) /\ Behind(s)
  <2> SUFFICES ASSUME NEW s \in Subs PROVE Follows(s) /\ Behind(s)
    OBVIOUS
  <2>1. sub[s].gen \in Nat /\ sub[s].cursor \in Nat
    BY RowFields DEF TypeOK
  <2> QED BY <1>s, <2>1 DEF Follows, Behind
<1>w. ASSUME wakes' = wakes, shown \subseteq shown' PROVE Grows
  BY <1>w DEF Grows, wakes
<1>q. ASSUME sub' = sub, wakes' = wakes, shown \subseteq shown'
      PROVE  AcknowledgedIsDelivered' /\ \A b : b \in Seq(Good) => b \in Seq(Good')
  BY <1>g, <1>q, <1>s, <1>w, CursorsStay
\* Steps that leave batch and subscriptions alone.
<1>1. CASE StartTick \/ Collected
  BY <1>1, <1>q DEF StartTick, Collected, BatchInv, HeadInv
<1>2. CASE OpenEvent
  BY <1>2, <1>q DEF OpenEvent, BatchInv, HeadInv, d, now, native, Native, wakes
<1>3. CASE WakeAccepted
  <2>1. HeadInv'
    BY <1>3 DEF WakeAccepted, HeadInv, Served, d, now, native, wakes
  <2> QED BY <1>3, <1>q, <2>1 DEF WakeAccepted, BatchInv
<1>4. CASE WakeRejected \/ SendFails
  BY <1>4, <1>q DEF WakeRejected, SendFails, BatchInv, HeadInv
\* Steps to the next event.
<1>6. ASSUME NextEvent, pc \in {"waking", "sending", "acking"},
             native => pc = "acking",
             \A b : b \in Seq(Good) => b \in Seq(Good')
      PROVE  BatchInv' /\ HeadInv'
  <2>1. batch # <<>> /\ d.next <= d.upto /\ (native => Served(d.sub, d.next, d.mode))
    BY <1>6 DEF HeadInv
  <2>2. [d EXCEPT !.next = @ + 1] \in Good
    BY <2>1, MovedOnIsGood
  <2>3. batch' \in Seq(Good) /\ batch' # <<>>
    BY <1>6, <2>1, <2>2, HeadReplaced DEF NextEvent, BatchInv
  <2> QED BY <1>6, <2>3 DEF BatchInv, HeadInv, NextEvent
<1>7. CASE MarkerWake
  <2>1. CASE NextEvent
    BY <1>6, <1>7, <1>q, <2>1 DEF MarkerWake
  <2>2. CASE pc' = "failed" /\ batch' = batch
    BY <1>7, <1>q, <2>2 DEF MarkerWake, BatchInv, HeadInv
  <2> QED BY <1>7, <2>1, <2>2 DEF MarkerWake
<1>8. CASE Send
  <2>1. CASE ~native
    BY <1>6, <1>8, <1>q, <2>1 DEF Send
  <2>2. CASE native
    <3>1. HeadInv'
      BY <1>8, <2>2 DEF Send, HeadInv, Served, d, now, native, wakes
    <3> QED BY <1>8, <1>q, <2>2, <3>1 DEF Send, BatchInv
  <2> QED BY <2>1, <2>2
\* The acknowledgement moves the cursor of its own subscription on.
<1>9. CASE Acknowledge
  <2>1. batch # <<>> /\ d.next <= d.upto /\ native /\ Served(d.sub, d.next, d.mode)
    BY <1>9 DEF Acknowledge, HeadInv
  <2>2. d \in Good /\ d.sub \in Subs /\ d.next \in Nat
    BY <2>1, HeadIsGood
  <2>3. Grows
    BY <1>9, <1>w DEF Acknowledge
  <2>4. CASE sub' = sub
    BY <1>6, <1>9, <1>q, <2>1, <2>4 DEF Acknowledge
  <2>5. CASE Same(d.sub) /\ sub' = [sub EXCEPT ![d.sub].cursor = d.next]
    <3>1. ASSUME NEW s \in Subs
          PROVE  /\ sub'[s].gen = sub[s].gen /\ sub'[s].live = sub[s].live
                 /\ sub'[s].mode = sub[s].mode /\ sub'[s].start = sub[s].start
                 /\ sub'[s].cursor = IF s = d.sub THEN d.next ELSE sub[s].cursor
                 /\ sub'[s].own = sub[s].own /\ sub[s].gen \in Nat /\ sub[s].start \in Nat
      <4>1. sub[s] \in Rows
        BY DEF TypeOK
      <4> QED BY <2>2, <2>5, <4>1, RowFields DEF TypeOK, Rows
    <3>2. \A s \in Subs : Follows(s)
      BY <3>1 DEF Follows
    <3>3. BatchInv' /\ HeadInv'
      BY <1>6, <1>9, <1>g, <2>3, <3>2 DEF Acknowledge
    <3>4. ASSUME NEW s \in Subs, sub'[s].live, sub'[s].own, sub'[s].mode \in Native,
                 NEW i \in (sub'[s].start + 1)..sub'[s].cursor
          PROVE  phase[<<s, i>>] = "delivered" /\ (sub[s].mode \in Visible => <<s, i>> \in shown)
      <4>1. CASE s # d.sub
        BY <3>1, <3>4, <4>1 DEF AcknowledgedIsDelivered
      <4>2. CASE s = d.sub
        <5>1. /\ sub[s].mode = d.mode
              /\ \A j \in (sub[s].start + 1)..(d.next - 1) : Served(s, j, d.mode)
          BY <2>1, <2>2, <2>5, <3>1, <3>4, <4>2 DEF Good, Same, native
        <5>2. i = d.next \/ i \in (sub[s].start + 1)..(d.next - 1)
          BY <2>2, <3>1, <4>2
        <5> QED BY <2>1, <4>2, <5>1, <5>2 DEF Served
      <4> QED BY <4>1, <4>2
    <3>5. AcknowledgedIsDelivered'
      BY <1>9, <3>1, <3>4 DEF Acknowledge, AcknowledgedIsDelivered, wakes
    <3> QED BY <3>3, <3>5
  <2> QED BY <1>9, <2>4, <2>5 DEF Acknowledge
\* Steps that take a claim back, go over it or drop a row.
<1>r. ASSUME batch # <<>>, sub' = Rewound
      PROVE  \A s \in Subs : Follows(s) /\ Behind(s)
  <2>1. d.sub \in Subs /\ d.old \in Nat /\ d.upto \in Nat /\ d.old < d.upto
    BY <1>r, HeadIsGood, NotifierAssumption DEF Ids
  <2>2. CASE sub' = sub
    BY <1>s, <2>2
  <2>3. CASE sub[d.sub].cursor = d.upto /\ sub' = [sub EXCEPT ![d.sub].cursor = d.old]
    <3> SUFFICES ASSUME NEW s \in Subs PROVE Follows(s) /\ Behind(s)
      OBVIOUS
    <3>1. sub[s] \in Rows
      BY DEF TypeOK
    <3>2. /\ sub'[s].gen = sub[s].gen /\ sub'[s].live = sub[s].live
          /\ sub'[s].mode = sub[s].mode /\ sub'[s].start = sub[s].start
          /\ sub'[s].cursor = IF s = d.sub THEN d.old ELSE sub[s].cursor
          /\ sub'[s].own = sub[s].own /\ sub[s].gen \in Nat /\ sub[s].start \in Nat /\ sub[s].cursor \in Nat
      BY <2>1, <2>3, <3>1, RowFields DEF TypeOK, Rows
    <3>3. sub'[s].cursor <= sub[s].cursor
      BY <2>1, <2>3, <3>2
    <3> QED BY <3>2, <3>3 DEF Follows, Behind
  <2> QED BY <1>r, <2>2, <2>3 DEF Rewound
<1>a. ASSUME batch # <<>>, sub' = Advanced, ~native \/ d.sub \in unnamed
      PROVE  \A s \in Subs : Follows(s) /\ Behind(s)
  <2>1. d \in Good /\ d.sub \in Subs /\ d.upto \in Nat
    BY <1>a, HeadIsGood, NotifierAssumption DEF Ids
  <2>2. CASE sub' = sub
    BY <1>s, <2>2
  <2>3. CASE sub[d.sub].live /\ sub' # sub
    <3> SUFFICES ASSUME NEW s \in Subs PROVE Follows(s) /\ Behind(s)
      OBVIOUS
    <3>1. sub[s] \in Rows
      BY DEF TypeOK
    <3>2. /\ sub'[s].gen = sub[s].gen /\ sub'[s].live = sub[s].live
          /\ sub'[s].mode = sub[s].mode /\ sub'[s].start = sub[s].start
          /\ s # d.sub => sub'[s].cursor = sub[s].cursor
          /\ sub'[s].own => sub[s].own
          /\ s = d.sub /\ sub'[s].own => sub[s].gen = d.row /\ s \notin unnamed
          /\ sub[s].gen \in Nat /\ sub[s].start \in Nat /\ sub[s].cursor \in Nat
      BY <1>a, <2>1, <2>3, <3>1, RowFields DEF Advanced, TypeOK, Rows
    <3>3. s = d.sub /\ sub'[s].live /\ sub'[s].own => sub[s].mode \notin Native
      BY <1>a, <2>1, <3>2 DEF Good, native
    <3>4. Follows(s)
      BY <3>2 DEF Follows
    <3>5. s # d.sub => Behind(s)
      BY <3>2 DEF Behind
    <3>6. s = d.sub => Behind(s)
      BY <3>2, <3>3 DEF Behind
    <3> QED BY <3>4, <3>5, <3>6
  <2> QED BY <1>a, <2>2, <2>3 DEF Advanced
<1>5. CASE CloseDelivery
  <2>1. batch # <<>>
    BY <1>5 DEF CloseDelivery, HeadInv
  <2>2. Tail(batch) \in Seq(Good)
    BY <2>1, HeadIsGood
  <2>3. Grows /\ HeadInv'
    BY <1>5, <1>w DEF CloseDelivery, HeadInv
  <2>4. \A s \in Subs : Follows(s) /\ Behind(s)
    BY <1>5, <1>a, <1>s, <2>1 DEF CloseDelivery
  <2>5. BatchInv'
    BY <1>5, <1>g, <2>2, <2>3, <2>4 DEF CloseDelivery, BatchInv
  <2> QED BY <2>3, <2>4, <2>5, CursorsStay
<1>10. CASE OpenDelivery
  <2>1. CASE sub' = sub /\ batch' = batch
    BY <1>10, <1>q, <2>1 DEF OpenDelivery, BatchInv, HeadInv
  <2>2. CASE /\ batch # <<>> /\ batch' = Tail(batch) /\ pc' = pc
             /\ sub' = Rewound \/ (d.sub \in unnamed /\ sub' = Advanced)
    <3>1. Grows /\ \A s \in Subs : Follows(s) /\ Behind(s)
      BY <1>10, <1>a, <1>r, <1>w, <2>2 DEF OpenDelivery
    <3>2. BatchInv'
      BY <1>g, <2>2, <3>1, HeadIsGood DEF BatchInv
    <3>3. HeadInv'
      BY <1>10, <2>2 DEF OpenDelivery, HeadInv
    <3> QED BY <3>1, <3>2, <3>3, CursorsStay
  <2> QED BY <1>10, <2>1, <2>2 DEF OpenDelivery
<1>d. ASSUME NEW t \in Subs, sub' = [sub EXCEPT ![t].live = FALSE]
      PROVE  \A s \in Subs : Follows(s) /\ Behind(s)
  <2> SUFFICES ASSUME NEW s \in Subs PROVE Follows(s) /\ Behind(s)
    OBVIOUS
  <2>1. sub[s] \in Rows
    BY DEF TypeOK
  <2>2. /\ sub'[s].gen = sub[s].gen /\ sub[s].gen \in Nat
        /\ s = t => ~sub'[s].live
        /\ s # t => sub'[s] = sub[s]
        /\ sub[s].cursor \in Nat
    BY <1>d, <2>1, RowFields DEF TypeOK, Rows
  <2> QED BY <2>2 DEF Follows, Behind
<1>11. CASE Fail
  <2>1. batch # <<>> /\ d.sub \in Subs /\ Tail(batch) \in Seq(Good)
    BY <1>11, HeadIsGood DEF Fail, HeadInv
  <2>2. \A s \in Subs : Follows(s) /\ Behind(s)
    <3>1. sub' = Rewound \/ sub' = [sub EXCEPT ![d.sub].live = FALSE]
      BY <1>11 DEF Fail
    <3> QED BY <1>d, <1>r, <2>1, <3>1
  <2>3. Grows
    BY <1>11, <1>w DEF Fail
  <2>4. BatchInv' /\ HeadInv'
    BY <1>11, <1>g, <2>1, <2>2, <2>3 DEF Fail, BatchInv, HeadInv
  <2> QED BY <2>2, <2>3, <2>4, CursorsStay
<1>12. ASSUME NEW r \in todo, Collect(r)
       PROVE  BatchInv' /\ HeadInv' /\ AcknowledgedIsDelivered'
  <2>1. Grows /\ HeadInv'
    BY <1>12, <1>w DEF Collect, HeadInv
  <2>0. PICK s \in Subs : s = r.sub
    BY DEF TypeOK, Listed
  <2>2. CASE sub' = sub /\ batch' = batch
    BY <1>12, <1>q, <2>1, <2>2 DEF Collect, BatchInv
  <2>3. CASE sub' = [sub EXCEPT ![s].live = FALSE] /\ batch' = batch
    <3>1. \A t \in Subs : Follows(t) /\ Behind(t)
      BY <1>d, <2>3
    <3> QED BY <1>g, <2>1, <2>3, <3>1, CursorsStay DEF BatchInv
  <2>4. CASE sub[s].live /\ Unseen(s) /\ batch' # batch
    <3> DEFINE D == [sub |-> s, mode |-> r.mode, gen |-> r.gen, row |-> sub[s].gen,
                     old |-> sub[s].cursor, upto |-> log, next |-> First(s)]
    <3>1. sub[s] \in Rows /\ log \in Nat
      BY NotifierAssumption DEF TypeOK
    <3>2. sub[s].cursor \in Nat /\ sub[s].gen \in Nat /\ sub[s].start \in Nat
          /\ sub[s].gen <= MaxGens /\ sub[s].cursor <= MaxEvents /\ sub[s].mode \in Modes
      BY <3>1, RowFields
    <3>3. /\ batch' = Append(batch, D)
          /\ sub' = IF r.mode \notin Native
                    THEN [sub EXCEPT ![s].cursor = log,
                                     ![s].own = @ /\ sub[s].mode \notin Native]
                    ELSE sub
      BY <1>12, <2>0, <2>4 DEF Collect
    <3>r. r \in Listing /\ r.mode \in Modes /\ r.gen \in 0..MaxGens /\ r.sub = s
      BY <2>0 DEF ListInv, TypeOK, Listed
    <3>4. /\ \A t \in Subs : Follows(t) /\ Behind(t)
          /\ r.mode \notin Native /\ sub'[s].own => sub'[s].mode \notin Native
      <4>1. CASE r.mode \in Native
        BY <1>s, <3>3, <4>1
      <4>2. CASE r.mode \notin Native
        <5>1. ASSUME NEW t \in Subs
              PROVE  /\ sub'[t].gen = sub[t].gen /\ sub'[t].live = sub[t].live
                     /\ sub'[t].mode = sub[t].mode /\ sub'[t].start = sub[t].start
                     /\ t # s => sub'[t].cursor = sub[t].cursor
                     /\ sub'[t].own => sub[t].own
                     /\ t = s /\ sub'[t].own => sub[t].mode \notin Native
                     /\ sub[t].gen \in Nat /\ sub[t].cursor \in Nat
          <6>1. sub[t] \in Rows
            BY DEF TypeOK
          <6> QED BY <3>3, <4>2, <6>1, RowFields DEF TypeOK, Rows
        <5>2. \A t \in Subs : Follows(t)
          BY <5>1 DEF Follows
        <5>3. \A t \in Subs : Behind(t)
          BY <5>1 DEF Behind
        <5> QED BY <4>2, <5>1, <5>2, <5>3
      <4> QED BY <4>1, <4>2
    <3>5. PICK E : E = D
      OBVIOUS
    <3>e. E \in Good'
      <4>1. E \in Deliveries
        BY <2>4, <3>1, <3>2, <3>5, <3>r, NotifierAssumption DEF Deliveries, Unseen, First, Ids, TypeOK
      <4>2. /\ E.old < E.upto /\ E.next <= E.upto + 1 /\ E.sub = s /\ E.row = sub[s].gen
            /\ E.mode = r.mode /\ E.gen = r.gen /\ E.next - 1 = sub[s].cursor
        BY <2>4, <3>1, <3>2, <3>5 DEF Unseen, First
      <4>3. sub'[s].gen = sub[s].gen /\ E.gen <= sub[s].gen
        <5>1. sub'[s].gen = sub[s].gen
          BY <3>1, <3>3 DEF TypeOK, Rows
        <5> QED BY <3>r, <4>2, <5>1 DEF Listing
      <4>4. ASSUME sub'[s].live, sub'[s].gen = E.gen, E.mode \in Native
            PROVE  /\ sub'[s].mode = E.mode
                   /\ sub'[s].own =>
                        \A i \in (sub'[s].start + 1)..(E.next - 1) : Served(s, i, E.mode)'
        <5>1. sub' = sub /\ sub[s].mode = E.mode
          BY <3>3, <3>r, <4>2, <4>3, <4>4 DEF Listing
        <5>2. sub[s].own => \A i \in (sub[s].start + 1)..(E.next - 1) : Served(s, i, E.mode)
          BY <2>4, <4>2, <4>4, <5>1 DEF AcknowledgedIsDelivered, Served
        <5>3. phase' = phase /\ shown' = shown
          BY <1>12 DEF Collect, wakes
        <5> QED BY <5>1, <5>2, <5>3 DEF Served
      <4>5. sub'[s].own /\ E.mode \notin Native => sub'[s].mode \notin Native
        BY <3>4, <4>2
      <4>6. E.gen <= sub'[E.sub].gen /\ E.row <= sub'[E.sub].gen
        BY <3>2, <4>2, <4>3
      <4>7. sub'[E.sub].live /\ sub'[E.sub].gen = E.gen /\ E.mode \in Native =>
              /\ sub'[E.sub].mode = E.mode
              /\ sub'[E.sub].own =>
                   \A i \in (sub'[E.sub].start + 1)..(E.next - 1) : Served(E.sub, i, E.mode)'
        BY <4>2, <4>4 DEF Served
      <4>8. E.old < E.upto /\ E.next <= E.upto + 1
            /\ (sub'[E.sub].own /\ E.mode \notin Native => sub'[E.sub].mode \notin Native)
        BY <4>2, <4>5
      <4> QED BY <4>1, <4>6, <4>7, <4>8 DEF Good
    <3> HIDE DEF D
    <3>6. batch \in Seq(Good')
      BY <1>g, <2>1, <3>4 DEF BatchInv
    <3>7. Append(batch, D) \in Seq(Good')
      BY <3>5, <3>e, <3>6, AppendProperties
    <3> QED BY <2>1, <3>3, <3>4, <3>7, CursorsStay DEF BatchInv
  <2> QED BY <1>12, <2>0, <2>2, <2>3, <2>4 DEF Collect
<1> HIDE DEF IInv
<1> QED BY <1>1, <1>2, <1>3, <1>4, <1>5, <1>7, <1>8, <1>9, <1>10, <1>11, <1>12 DEF Tick

\* Nothing the board, the operator, the wakes or a fault does in between takes
\* away what the deliveries and cursors stand for.
LEMMA AroundInductive ==
  ASSUME IInv, TypeOK', [Next]_vars, ~Tick
  PROVE  BatchInv' /\ HeadInv' /\ AcknowledgedIsDelivered'
<1> USE DEF IInv
<1>g. ASSUME Grows, \A s \in Subs : Follows(s)
      PROVE  \A b : b \in Seq(Good) => b \in Seq(Good')
  BY <1>g, GoodStays, SeqMonotonic
<1>h. ASSUME batch' = batch, pc' = pc, Grows PROVE HeadInv'
  <2>1. d' = d /\ now' = now /\ native' = native
    BY <1>h DEF d, now, native
  <2>2. pc \in {"sending", "acking"} => now \in Subs \X Ids
    BY HeadMovesOn DEF HeadInv
  <2>3. pc = "sending" /\ native => phase'[now] = "delivered"
    BY <1>h, <2>2 DEF HeadInv, Grows
  <2>4. pc = "acking" => /\ native /\ phase'[now] = "delivered"
                         /\ d.mode \in Visible => now \in shown'
    BY <1>h, <2>2 DEF HeadInv, Grows, Served, now
  <2> QED BY <1>h, <2>1, <2>3, <2>4 DEF HeadInv, Served, now
<1>k. ASSUME Grows, \A s \in Subs : Follows(s) /\ Behind(s), batch' = batch, pc' = pc
      PROVE  BatchInv' /\ HeadInv' /\ AcknowledgedIsDelivered'
  BY <1>g, <1>h, <1>k, CursorsStay DEF BatchInv
<1>s. ASSUME sub' = sub PROVE \A s \in Subs : Follows(s) /\ Behind(s)
  <2> SUFFICES ASSUME NEW s \in Subs PROVE Follows(s) /\ Behind(s)
    OBVIOUS
  <2>1. sub[s].gen \in Nat /\ sub[s].cursor \in Nat
    BY RowFields DEF TypeOK
  <2> QED BY <1>s, <2>1 DEF Follows, Behind
<1>w. ASSUME wakes' = wakes, shown \subseteq shown' PROVE Grows
  BY <1>w DEF Grows, wakes
<1>1. CASE AcknowledgeFails
  <2>1. HeadInv'
    BY <1>1 DEF AcknowledgeFails, HeadInv
  <2> QED BY <1>1, <1>g, <1>s, <1>w, <2>1, CursorsStay DEF AcknowledgeFails, BatchInv
<1>2. CASE TickFails
  <2>1. HeadInv' /\ batch' \in Seq(Good)
    BY <1>2, EmptySeq DEF TickFails, HeadInv
  <2> QED BY <1>2, <1>g, <1>s, <1>w, <2>1, CursorsStay DEF TickFails, BatchInv
<1>3. CASE Crash
  <2>1. HeadInv' /\ batch' \in Seq(Good)
    BY <1>3, EmptySeq DEF Crash, HeadInv
  <2> QED BY <1>3, <1>g, <1>s, <1>w, <2>1, CursorsStay DEF Crash, BatchInv
<1>4. CASE BoardEvent \/ Archive \/ Reconnect
  BY <1>4, <1>k, <1>s, <1>w DEF BoardEvent, Archive, Reconnect
<1>5. CASE WakesMove
  <2>1. \A e \in Subs \X Ids : phase[e] = "delivered" => phase'[e] = "delivered"
    BY <1>5 DEF WakesMove, Wake!Undertake, Wake!Abandon, Wake!Tell, Wake!Confirm, TypeOK,
                Wake!TypeOK
  <2> QED BY <1>5, <1>k, <1>s, <2>1 DEF WakesMove, Grows
<1>6. ASSUME NEW t \in Subs, Unsubscribe(t) \/ Upgrade(t)
      PROVE  BatchInv' /\ HeadInv' /\ AcknowledgedIsDelivered'
  <2>1. ASSUME NEW s \in Subs PROVE Follows(s) /\ Behind(s)
    <3>1. sub[s] \in Rows
      BY DEF TypeOK
    <3>2. sub[s].gen \in Nat /\ sub[s].cursor \in Nat
      BY <3>1, RowFields
    <3>3. CASE Unsubscribe(t)
      BY <3>1, <3>2, <3>3 DEF Unsubscribe, TypeOK, Rows, Follows, Behind
    <3>4. CASE Upgrade(t)
      BY <3>1, <3>2, <3>4 DEF Upgrade, TypeOK, Rows, Follows, Behind, Native
    <3> QED BY <1>6, <3>3, <3>4
  <2>2. wakes' = wakes /\ shown' = shown /\ batch' = batch /\ pc' = pc
    BY <1>6 DEF Unsubscribe, Upgrade
  <2> QED BY <1>k, <1>w, <2>1, <2>2
\* A reset begins anew where no delivery of the row is under way.
<1>9. ASSUME NEW t \in Subs, ResetCursor(t)
      PROVE  BatchInv' /\ HeadInv' /\ AcknowledgedIsDelivered'
  <2>1. /\ wakes' = wakes /\ shown' = shown /\ batch' = batch /\ pc' = pc
        /\ Grows
    BY <1>9, <1>w DEF ResetCursor
  <2>2. ASSUME NEW s \in Subs
        PROVE  /\ sub'[s].gen = sub[s].gen /\ sub'[s].live = sub[s].live
               /\ sub'[s].mode = sub[s].mode /\ sub'[s].own = sub[s].own
               /\ s # t => sub'[s] = sub[s]
               /\ s = t => sub'[s].cursor = 0
               /\ s = t => sub'[s].start = IF UnderWay(t) THEN sub[s].start ELSE 0
               /\ sub[s].gen \in Nat /\ sub[s].cursor \in Nat /\ sub[s].start \in Nat
    <3>1. sub[s] \in Rows
      BY DEF TypeOK
    <3> QED BY <1>9, <3>1, RowFields DEF ResetCursor, TypeOK, Rows
  <2>3. \A s \in Subs : Behind(s)
    BY <2>2 DEF Behind
  <2>4. BatchInv'
    <3>1. CASE UnderWay(t)
      <4>1. \A s \in Subs : Follows(s)
        BY <2>2, <3>1 DEF Follows
      <4> QED BY <1>g, <2>1, <4>1 DEF BatchInv
    <3>2. CASE ~UnderWay(t)
      <4>1. ASSUME NEW k \in 1..Len(batch) PROVE batch[k] \in Good'
        <5>1. batch[k] \in Good /\ batch[k].sub # t
          BY <3>2 DEF BatchInv, UnderWay
        <5>2. batch[k].sub \in Subs
          BY <5>1 DEF Good, Deliveries
        <5>3. sub'[batch[k].sub] = sub[batch[k].sub]
          BY <2>2, <5>1, <5>2
        <5> QED BY <2>1, <5>1, <5>3 DEF Good, Served, wakes
      <4>2. batch \in [1..Len(batch) -> Good'] /\ Len(batch) \in Nat
        BY <4>1, LenProperties DEF BatchInv
      <4> HIDE DEF Good
      <4> QED BY <2>1, <4>2, SeqDef DEF BatchInv
    <3> QED BY <3>1, <3>2
  <2> QED BY <1>h, <2>1, <2>3, <2>4, CursorsStay
<1>7. ASSUME NEW t \in Subs, NEW mode \in Modes, NEW c \in 0..log, Subscribe(t, mode, c)
      PROVE  BatchInv' /\ HeadInv' /\ AcknowledgedIsDelivered'
  <2>1. ASSUME NEW s \in Subs PROVE Follows(s) /\ Behind(s)
    <3>1. sub[s] \in Rows
      BY DEF TypeOK
    <3>2. sub[s].gen \in Nat /\ sub[s].cursor \in Nat
      BY <3>1, RowFields
    <3> QED BY <1>7, <3>1, <3>2 DEF Subscribe, Row, TypeOK, Follows, Behind
  <2> QED BY <1>7, <1>k, <1>w, <2>1 DEF Subscribe
<1>8. CASE UNCHANGED vars
  BY <1>8, <1>k, <1>s, <1>w DEF vars
<1> HIDE DEF IInv
<1> QED BY <1>1, <1>2, <1>3, <1>4, <1>5, <1>6, <1>7, <1>8, <1>9 DEF Next

\* IInv holds in every state of the notifier.
LEMMA NotifierInvariant == Spec => []IInv
<1>1. Init => IInv
  <2> SUFFICES ASSUME Init PROVE IInv
    OBVIOUS
  <2>1. \A mode \in Modes : Row(FALSE, mode, 0, 0) \in Rows
    BY NotifierAssumption DEF Row, Rows
  <2>2. sub \in [Subs -> Rows]
    BY <2>1 DEF Init
  <2>3. batch \in Seq(Deliveries) /\ batch \in Seq(Good)
    BY EmptySeq DEF Init
  <2>4. TypeOK
    <3>1. Wake!TypeOK
      BY DEF Init, Wake!Init, Wake!TypeOK
    <3>2. archived \in BOOLEAN /\ connected \in BOOLEAN
      BY DEF Init
    <3>3. /\ log \in 0..MaxEvents /\ todo \subseteq Listed /\ unnamed \subseteq Subs
          /\ fails \in [Subs -> 0..MaxSendFailures - 1]
          /\ shown \subseteq Subs \X Ids /\ marked \subseteq Subs \X Ids
          /\ called \subseteq Subs \X Ids
          /\ resets \in 0..MaxResets /\ faults \in 0..MaxFaults
      BY NotifierAssumption DEF Init, MaxSendFailures
    <3>4. pc \in {"idle", "collecting", "next", "event", "waking", "sending",
                 "acking", "failed"}
      BY DEF Init
    <3> QED BY <2>2, <2>3, <3>1, <3>2, <3>3, <3>4 DEF TypeOK
  <2>5. HeadInv
    BY DEF Init, HeadInv
  <2>6. \A s \in Subs : ~sub[s].live
    <3>1. ASSUME NEW s \in Subs PROVE ~sub[s].live
      <4>1. PICK mode \in Modes : sub[s] = Row(FALSE, mode, 0, 0)
        BY DEF Init
      <4> QED BY <4>1 DEF Row
    <3> QED BY <3>1
  <2>7. AcknowledgedIsDelivered
    BY <2>6 DEF AcknowledgedIsDelivered
  <2>8. ListInv
    BY DEF Init, ListInv
  <2> QED BY <2>3, <2>4, <2>5, <2>7, <2>8 DEF IInv, BatchInv
<1>2. IInv /\ [Next]_vars => IInv'
  <2> SUFFICES ASSUME IInv, [Next]_vars PROVE IInv'
    OBVIOUS
  <2>1. TypeOK'
    BY NotifierTypes DEF IInv
  <2>2. BatchInv' /\ HeadInv' /\ AcknowledgedIsDelivered'
    BY <2>1, LoopInductive, AroundInductive
  <2>3. ListInv'
    BY <2>1, ListInductive DEF IInv
  <2> QED BY <2>1, <2>2, <2>3 DEF IInv
<1> QED BY <1>1, <1>2, PTL DEF Spec

\* Every variable keeps its type, whatever the loop meets.
THEOREM NotifierTypeCorrect == Spec => []TypeOK
<1>1. IInv => TypeOK BY DEF IInv
<1> QED BY <1>1, NotifierInvariant, PTL

\* _advance_native and the claims of the list's rows: the cursor of a native
\* subscription, as long as no call made for another row moved it, only covers
\* events that are proven injected and shown where the mode asks for it, for any
\* board and any number of destinations, generations, resets and crashes.
THEOREM AlwaysAcknowledgedDelivered == Spec => []AcknowledgedIsDelivered
<1>1. IInv => AcknowledgedIsDelivered BY DEF IInv
<1> QED BY <1>1, NotifierInvariant, PTL

\* The loop over a delivery's events: one is put in only behind those that are
\* proven injected, if no call made for another row moved the subscription's cursor.
THEOREM AlwaysOneAtATime == Spec => []OneAtATime
<1>1. IInv => OneAtATime
  <2> SUFFICES ASSUME IInv, pc = "waking", native, Same(d.sub), sub[d.sub].own,
                      NEW i \in (sub[d.sub].start + 1)..(d.next - 1)
               PROVE  phase[<<d.sub, i>>] = "delivered"
    BY DEF OneAtATime
  <2>1. d \in Good
    BY HeadIsGood DEF IInv, HeadInv
  <2> QED BY <2>1 DEF Good, Served, Same, native
<1> QED BY <1>1, NotifierInvariant, PTL

\* compat_shim.py, sub_fail_counts and the rewinding of claims: nothing the
\* loop does sets a native subscription back or ends it, but for its task's
\* archival and what an earlier legacy delivery left.
THEOREM NativeAlwaysKept == Spec => NativeIsKept
<1>1. ASSUME IInv, [Next]_vars, NEW s \in Subs, sub[s].live, sub[s].mode \in Native,
             ~Leftover(s)
      PROVE  /\ sub'[s].gen = sub[s].gen /\ pc' # pc => sub'[s].cursor >= sub[s].cursor
             /\ ~sub'[s].live => archived \/ pc' = pc
  <2>1. sub \in [Subs -> Rows] /\ sub[s].cursor \in Nat
    <3>1. sub \in [Subs -> Rows] /\ sub[s] \in Rows
      BY <1>1 DEF IInv, TypeOK
    <3> QED BY <3>1, RowFields
  <2>2. CASE sub'[s] = sub[s]
    BY <1>1, <2>1, <2>2
  <2>3. CASE pc' = pc
    BY <2>3
  <2>4. CASE Acknowledge
    <3>1. batch # <<>> /\ TypeOK /\ BatchInv
      BY <1>1, <2>4 DEF Acknowledge, IInv, HeadInv
    <3>2. d.next \in Nat /\ d.sub \in Subs
      BY <3>1, HeadIsGood
    <3>3. \/ sub' = sub
          \/ sub[d.sub].cursor < d.next /\ sub' = [sub EXCEPT ![d.sub].cursor = d.next]
      BY <2>4 DEF Acknowledge
    <3>4. CASE s = d.sub /\ sub' # sub
      <4>1. sub'[s] = [sub[s] EXCEPT !.cursor = d.next] /\ sub[s].cursor < d.next
        BY <2>1, <3>3, <3>4
      <4>2. sub'[s].cursor = d.next /\ sub'[s].live = sub[s].live
        BY <2>1, <4>1 DEF Rows
      <4> QED BY <1>1, <2>1, <3>2, <4>1, <4>2
    <3>5. CASE ~(s = d.sub /\ sub' # sub)
      <4>1. sub'[s] = sub[s]
        BY <2>1, <3>3, <3>5
      <4> QED BY <2>2, <4>1
    <3> QED BY <3>4, <3>5
  <2>5. CASE Fail
    <3>1. batch # <<>>
      BY <1>1, <2>5 DEF Fail, IInv, HeadInv
    <3>2. s # d.sub \/ native
      BY <1>1, <3>1 DEF Leftover
    <3>3. sub'[s] = sub[s]
      BY <2>1, <2>5, <3>2 DEF Fail, Rewound
    <3> QED BY <2>2, <3>3
  <2>7. CASE CloseDelivery
    <3>1. batch # <<>>
      BY <1>1, <2>7 DEF CloseDelivery, IInv, HeadInv
    <3>2. s # d.sub \/ native
      BY <1>1, <3>1 DEF Leftover
    <3>3. sub'[s] = sub[s]
      BY <2>1, <2>7, <3>2 DEF CloseDelivery, Advanced
    <3> QED BY <2>2, <3>3
  <2>6. sub' = sub \/ pc' = pc \/ Acknowledge \/ Fail \/ CloseDelivery
    BY <1>1 DEF Next, Tick, vars, StartTick, Collect, Collected, OpenDelivery, OpenEvent,
                WakeAccepted, WakeRejected, MarkerWake, Send, SendFails,
                AcknowledgeFails, TickFails, BoardEvent, Archive, Reconnect,
                Unsubscribe, Upgrade, ResetCursor, Subscribe, WakesMove, Crash
  <2> QED BY <2>2, <2>3, <2>4, <2>5, <2>6, <2>7
<1>2. IInv /\ [Next]_vars =>
        [\A s \in Subs : sub[s].mode \in Native /\ sub[s].live /\ ~Leftover(s) =>
           /\ sub'[s].gen = sub[s].gen /\ pc' # pc => sub'[s].cursor >= sub[s].cursor
           /\ ~sub'[s].live => archived \/ pc' = pc]_vars
  BY <1>1
<1> QED BY <1>2, NotifierInvariant, PTL DEF Spec, NativeIsKept
-----------------------------------------------------------------------------
(* Claims of legacy subscriptions: a tick has one delivery for each         *)
(* destination at most, and it answers for the claim until it is served.    *)

Elems(b)   == {b[k] : k \in 1..Len(b)}
OncePer(b) == \A j, k \in 1..Len(b) : b[j].sub = b[k].sub => j = k

LEMMA ElemsTail ==
  ASSUME NEW S, NEW b \in Seq(S), b # <<>>
  PROVE  /\ Elems(b) = {Head(b)} \cup Elems(Tail(b))
         /\ OncePer(b) => /\ OncePer(Tail(b))
                          /\ \A D \in Elems(Tail(b)) : D.sub # Head(b).sub
<1> DEFINE t == Tail(b)
<1>1. PICK n \in Nat : Len(b) = n + 1 /\ Len(t) = n
  <2>1. Len(b) \in Nat \ {0} /\ Len(t) = Len(b) - 1
    BY EmptySeq, HeadTailProperties
  <2>2. PICK m \in Nat : m = Len(b) /\ m > 0
    <3>1. \A k \in Nat \ {0} : k \in Nat /\ k > 0
      OBVIOUS
    <3> QED BY <2>1, <3>1
  <2>3. m - 1 \in Nat /\ (m - 1) + 1 = m
    BY <2>2
  <2> QED BY <2>1, <2>2, <2>3
<1>2. Head(b) = b[1] /\ \A i \in 1..n : t[i] = b[i + 1]
  BY <1>1, HeadTailProperties
<1> HIDE DEF t
<1>3. \A k \in 1..n : k + 1 \in 1..(n + 1) /\ k + 1 # 1
  OBVIOUS
<1>4. ASSUME NEW k \in 1..(n + 1), k # 1 PROVE b[k] \in Elems(t)
  <2>1. k - 1 \in 1..n /\ (k - 1) + 1 = k
    BY <1>4
  <2>2. b[k] = t[k - 1]
    BY <1>2, <2>1
  <2> QED BY <1>1, <2>1, <2>2 DEF Elems
<1>5. Elems(b) = {b[k] : k \in 1..(n + 1)} /\ Elems(t) = {t[k] : k \in 1..n}
  BY <1>1 DEF Elems
<1>6. Elems(t) \subseteq Elems(b) /\ b[1] \in Elems(b)
  <2>1. 1 \in 1..(n + 1)
    OBVIOUS
  <2> QED BY <1>2, <1>3, <1>5, <2>1
<1>7. Elems(b) = {Head(b)} \cup Elems(t)
  BY <1>2, <1>4, <1>5, <1>6
<1>8. ASSUME OncePer(b) PROVE OncePer(t) /\ \A D \in Elems(t) : D.sub # Head(b).sub
  <2>1. \A j, k \in 1..(n + 1) : b[j].sub = b[k].sub => j = k
    BY <1>1, <1>8 DEF OncePer
  <2>2. ASSUME NEW j \in 1..n, NEW k \in 1..n, t[j].sub = t[k].sub PROVE j = k
    <3>1. j + 1 = k + 1
      BY <1>2, <1>3, <2>1, <2>2
    <3> QED BY <3>1
  <2>3. ASSUME NEW k \in 1..n PROVE t[k].sub # Head(b).sub
    <3>1. 1 \in 1..(n + 1)
      OBVIOUS
    <3> QED BY <1>2, <1>3, <2>1, <3>1
  <2> QED BY <1>1, <1>5, <2>2, <2>3 DEF OncePer
<1> QED BY <1>7, <1>8 DEF t

LEMMA ElemsFront ==
  ASSUME NEW S, NEW t \in Seq(S), NEW x \in S
  PROVE  /\ Elems(<<x>> \o t) = {x} \cup Elems(t)
         /\ OncePer(t) /\ (\A D \in Elems(t) : D.sub # x.sub) => OncePer(<<x>> \o t)
<1> DEFINE b == <<x>> \o t
<1>1. b \in Seq(S) /\ b # <<>> /\ Head(b) = x /\ Tail(b) = t
  <2>1. <<x>> \in Seq(S) /\ Len(<<x>>) = 1 /\ <<x>>[1] = x /\ Len(t) \in Nat
    BY LenProperties
  <2>2. /\ b \in Seq(S) /\ Len(b) = 1 + Len(t)
        /\ \A i \in 1..(1 + Len(t)) : b[i] = IF i <= 1 THEN <<x>>[i] ELSE t[i - 1]
    BY <2>1, ConcatProperties
  <2>3. b # <<>>
    BY <2>1, <2>2, EmptySeq
  <2>4. b[1] = x /\ Head(b) = b[1]
    BY <2>1, <2>2, <2>3
  <2>5. Len(Tail(b)) = Len(t) /\ Tail(b) \in Seq(S)
    BY <2>1, <2>2, <2>3, HeadTailProperties
  <2>6. ASSUME NEW i \in 1..Len(t) PROVE Tail(b)[i] = t[i]
    <3>1. PICK n \in Nat : n = Len(t)
      BY <2>1
    <3>2. i \in 1..n /\ i + 1 \in 1..(1 + n) /\ ~(i + 1 <= 1) /\ (i + 1) - 1 = i
      BY <3>1
    <3>3. b[i + 1] = t[i]
      BY <2>2, <3>1, <3>2
    <3> QED BY <2>2, <2>3, <2>5, <3>3, HeadTailProperties
  <2>7. Tail(b) = t
    BY <2>5, <2>6, SeqEqual
  <2> QED BY <2>2, <2>3, <2>4, <2>7
<1> HIDE DEF b
<1>2. Elems(b) = {x} \cup Elems(t)
  BY <1>1, ElemsTail
<1>3. ASSUME OncePer(t), \A D \in Elems(t) : D.sub # x.sub PROVE OncePer(b)
  <2>1. PICK n \in Nat : Len(t) = n
    BY LenProperties
  <2>2. Len(b) = n + 1
    <3>1. Len(b) \in Nat /\ n = Len(b) - 1
      BY <1>1, <2>1, HeadTailProperties, LenProperties
    <3> QED BY <3>1
  <2>3. b[1] = x /\ \A i \in 1..n : t[i] = b[i + 1]
    BY <1>1, <2>1, HeadTailProperties
  <2>4. ASSUME NEW k \in 1..(n + 1), k # 1
        PROVE  k - 1 \in 1..n /\ b[k] = t[k - 1] /\ b[k].sub # x.sub
    <3>1. k - 1 \in 1..n /\ (k - 1) + 1 = k
      BY <2>4
    <3>2. b[k] = t[k - 1]
      BY <2>3, <3>1
    <3>3. t[k - 1] \in Elems(t)
      BY <2>1, <3>1 DEF Elems
    <3> QED BY <1>3, <3>1, <3>2, <3>3
  <2>5. ASSUME NEW j \in 1..(n + 1), NEW k \in 1..(n + 1), b[j].sub = b[k].sub PROVE j = k
    <3>1. CASE j = 1 \/ k = 1
      BY <2>3, <2>4, <2>5, <3>1
    <3>2. CASE j # 1 /\ k # 1
      <4>1. j - 1 = k - 1
        BY <1>3, <2>1, <2>4, <2>5, <3>2 DEF OncePer
      <4> QED BY <4>1
    <3> QED BY <3>1, <3>2
  <2> QED BY <2>2, <2>5 DEF OncePer
<1> QED BY <1>2, <1>3 DEF b

LEMMA ElemsAppend ==
  ASSUME NEW S, NEW b \in Seq(S), NEW x \in S
  PROVE  /\ Elems(Append(b, x)) = Elems(b) \cup {x}
         /\ OncePer(b) /\ (\A D \in Elems(b) : D.sub # x.sub) => OncePer(Append(b, x))
<1> DEFINE c == Append(b, x)
<1>1. PICK n \in Nat : Len(b) = n
  BY LenProperties
<1>2. Len(c) = n + 1 /\ c[n + 1] = x /\ \A i \in 1..n : c[i] = b[i]
  BY <1>1, AppendProperties
<1> HIDE DEF c
<1>3. \A k \in 1..(n + 1) : k = n + 1 \/ k \in 1..n
  OBVIOUS
<1>4. (n + 1) \in 1..(n + 1) /\ \A k \in 1..n : k \in 1..(n + 1)
  OBVIOUS
<1>5. Elems(c) = {c[k] : k \in 1..(n + 1)} /\ Elems(b) = {b[k] : k \in 1..n}
  BY <1>1, <1>2 DEF Elems
<1>6. Elems(c) = Elems(b) \cup {x}
  BY <1>2, <1>3, <1>4, <1>5
<1>7. ASSUME OncePer(b), \A D \in Elems(b) : D.sub # x.sub PROVE OncePer(c)
  BY <1>1, <1>2, <1>3, <1>5, <1>7 DEF OncePer
<1> QED BY <1>6, <1>7 DEF c

-----------------------------------------------------------------------------
OnceInv ==
  /\ pc = "idle" => batch = <<>>
  /\ pc # "collecting" => todo = {}
  /\ OncePer(batch)
  /\ \A r, q \in todo : r.sub = q.sub => r = q
  /\ \A D \in Elems(batch) : D.old < D.next /\ \A r \in todo : r.sub # D.sub

LEMMA NoElems == Elems(<<>>) = {} /\ OncePer(<<>>)
<1>1. Len(<<>>) = 0 /\ 1..0 = {}
  BY EmptySeq
<1> QED BY <1>1 DEF Elems, OncePer

\* The next event of the delivery at the head, in its place.
LEMMA NextElem ==
  ASSUME TypeOK, BatchInv, OnceInv, batch # <<>>, d.next <= d.upto, NextEvent
  PROVE  /\ OncePer(batch') /\ \A D \in Elems(batch') : D.old < D.next
         /\ \A D \in Elems(batch) : D # d => D \in Elems(batch')
         /\ \A D \in Elems(batch') : D \in Elems(batch) \/
               /\ D.sub = d.sub /\ D.mode = d.mode /\ D.row = d.row /\ D.next = d.next + 1
         /\ \E D \in Elems(batch') : /\ D.sub = d.sub /\ D.mode = d.mode /\ D.upto = d.upto
                                     /\ D.next = d.next + 1
<1> DEFINE x == [d EXCEPT !.next = @ + 1]
           t == Tail(batch)
<1>1. /\ d \in Deliveries /\ d.next \in Nat /\ d.old \in Nat /\ t \in Seq(Deliveries)
      /\ batch \in Seq(Deliveries)
  BY HeadIsGood, NotifierAssumption DEF TypeOK
<1>2. x \in Deliveries /\ batch' = <<x>> \o t
  BY HeadMovesOn DEF NextEvent
<1>3. /\ x.sub = d.sub /\ x.mode = d.mode /\ x.upto = d.upto /\ x.next = d.next + 1
      /\ x.old = d.old /\ x.row = d.row
  BY <1>1 DEF Deliveries
<1>4. /\ Elems(batch) = {d} \cup Elems(t) /\ OncePer(t)
      /\ \A D \in Elems(t) : D.sub # d.sub
  BY <1>1, ElemsTail DEF d, OnceInv
<1> HIDE DEF x, t
<1>5. Elems(batch') = {x} \cup Elems(t) /\ OncePer(batch')
  BY <1>1, <1>2, <1>3, <1>4, ElemsFront
<1>6. x.old < x.next
  BY <1>1, <1>3, <1>4 DEF OnceInv
<1> QED BY <1>3, <1>4, <1>5, <1>6 DEF OnceInv

LEMMA OnceInductive ==
  ASSUME TypeOK, BatchInv, HeadInv, OnceInv, [Next]_vars
  PROVE  OnceInv'
<1>q. ASSUME batch' = batch, pc' # "idle", todo' \subseteq todo, pc' # "collecting" => todo' = {}
      PROVE  OnceInv'
  BY <1>q DEF OnceInv
<1>e. ASSUME batch' = <<>>, todo' \subseteq todo, pc' # "collecting" => todo' = {}
      PROVE  OnceInv'
  BY <1>e, NoElems DEF OnceInv
<1>t. ASSUME batch # <<>>, batch' = Tail(batch), pc' # "idle", todo' = {}
      PROVE  OnceInv'
  <2>1. batch \in Seq(Deliveries)
    BY DEF TypeOK
  <2>2. Elems(Tail(batch)) \subseteq Elems(batch) /\ OncePer(Tail(batch))
    BY <1>t, <2>1, ElemsTail DEF OnceInv
  <2> QED BY <1>t, <2>2 DEF OnceInv
<1>1. CASE StartTick
  <2>1. /\ pc' = "collecting" /\ batch' = <<>>
        /\ \A r, q \in todo' : r.sub = q.sub => r = q
    BY <1>1 DEF StartTick, OnceInv
  <2> QED BY <2>1, NoElems DEF OnceInv
<1>2. ASSUME NEW r \in todo, Collect(r) PROVE OnceInv'
  <2>0. PICK s \in Subs : s = r.sub
    BY DEF TypeOK, Listed
  <2>1. /\ pc = "collecting" /\ pc' = pc /\ todo' = todo \ {r}
    BY <1>2 DEF Collect
  <2>2. CASE batch' = batch
    BY <1>q, <2>1, <2>2
  <2>3. CASE batch' # batch
    <3> DEFINE D == [sub |-> s, mode |-> r.mode, gen |-> r.gen, row |-> sub[s].gen,
                     old |-> sub[s].cursor, upto |-> log, next |-> First(s)]
    <3>1. /\ sub[s] \in Rows /\ log \in Nat /\ log <= MaxEvents /\ batch \in Seq(Deliveries)
          /\ r.mode \in Modes /\ r.gen \in 0..MaxGens
      BY NotifierAssumption DEF TypeOK, Listed
    <3>2. /\ sub[s].cursor \in Nat /\ sub[s].cursor < log /\ sub[s].gen \in 0..MaxGens
      BY <1>2, <2>0, <2>3, <3>1, RowFields, NotifierAssumption DEF Collect, Unseen, Rows
    <3>3. batch' = Append(batch, D)
      BY <1>2, <2>0, <2>3 DEF Collect
    <3>4. D \in Deliveries
      BY <3>1, <3>2, NotifierAssumption DEF Deliveries, First, Ids
    <3>5. D.sub = s /\ D.old < D.next
      BY <3>2 DEF First
    <3>6. \A E \in Elems(batch) : E.sub # s
      BY <2>0 DEF OnceInv
    <3> HIDE DEF D
    <3>7. Elems(batch') = Elems(batch) \cup {D} /\ OncePer(batch')
      BY <3>1, <3>3, <3>4, <3>5, <3>6, ElemsAppend DEF OnceInv
    <3>8. \A q \in todo' : q.sub # s
      BY <2>0, <2>1 DEF OnceInv
    <3> QED BY <2>1, <3>5, <3>7, <3>8 DEF OnceInv
  <2> QED BY <2>2, <2>3
<1>3. CASE Collected \/ OpenEvent \/ WakeAccepted \/ WakeRejected \/ SendFails \/ AcknowledgeFails
  BY <1>3, <1>q DEF Collected, OpenEvent, WakeAccepted, WakeRejected, SendFails,
                    AcknowledgeFails, OnceInv
<1>4. CASE OpenDelivery
  <2>1. CASE batch = <<>>
    BY <1>4, <1>e, <2>1 DEF OpenDelivery, OnceInv
  <2>2. CASE batch # <<>>
    BY <1>4, <1>q, <1>t, <2>2 DEF OpenDelivery, OnceInv
  <2> QED BY <2>1, <2>2
<1>5. CASE CloseDelivery \/ Fail
  BY <1>5, <1>t DEF CloseDelivery, Fail, HeadInv, OnceInv
<1>6. ASSUME pc \in {"waking", "sending", "acking"}, todo' = todo, NextEvent PROVE OnceInv'
  <2>1. batch # <<>> /\ d.next <= d.upto /\ pc' = "event"
    BY <1>6 DEF HeadInv, NextEvent
  <2> QED BY <1>6, <2>1, NextElem DEF OnceInv
<1>7. CASE MarkerWake \/ Send \/ Acknowledge
  BY <1>6, <1>7, <1>q DEF MarkerWake, Send, Acknowledge, OnceInv
<1>8. CASE TickFails \/ Crash
  BY <1>8, <1>e DEF TickFails, Crash
<1>9. ASSUME UNCHANGED <<batch, pc, todo>> PROVE OnceInv'
  BY <1>9 DEF OnceInv
<1>10. CASE BoardEvent \/ Archive \/ Reconnect \/ WakesMove \/ UNCHANGED vars
  BY <1>9, <1>10 DEF BoardEvent, Archive, Reconnect, WakesMove, vars
<1>11. ASSUME NEW s \in Subs, \/ Unsubscribe(s) \/ Upgrade(s) \/ ResetCursor(s)
                              \/ \E mode \in Modes, c \in 0..log : Subscribe(s, mode, c)
       PROVE  OnceInv'
  BY <1>9, <1>11 DEF Unsubscribe, Upgrade, ResetCursor, Subscribe
<1> QED BY <1>1, <1>2, <1>3, <1>4, <1>5, <1>7, <1>8, <1>10, <1>11 DEF Next, Tick

\* A delivery of the batch still has event i of what destination s claimed.
InHand(s, i) == \E D \in Elems(batch) : /\ D.sub = s /\ D.mode \notin Native
                                        /\ D.next <= i /\ sub[s].cursor = D.upto
Legacy(s)    == sub[s].live /\ sub[s].own /\ sub[s].mode \notin Native
Claimed(s)   == (sub[s].start + 1)..sub[s].cursor
Reached      == shown \cup marked

ClaimInv == faults = 0 => \A s \in Subs : Legacy(s) =>
               \A i \in Claimed(s) : <<s, i>> \in Reached \/ InHand(s, i)

\* What a delivery has behind it, of the row it was read from, it has served: its
\* last advance may go over that row's cursor.
PassedInv == faults = 0 => \A D \in Elems(batch) :
               D.mode \notin Native /\ Legacy(D.sub) /\ sub[D.sub].gen = D.row =>
                 \A i \in (sub[D.sub].start + 1)..(D.next - 1) : <<D.sub, i>> \in Reached

\* A step keeps it that leaves nothing claimed without an answer for it.
LEMMA ClaimsCarry ==
  ASSUME ClaimInv, faults' = 0 => faults = 0, Reached \subseteq Reached',
         \A s \in Subs, i \in Nat : faults = 0 /\ Legacy(s)' /\ i \in Claimed(s)' =>
            \/ <<s, i>> \in Reached'
            \/ Legacy(s) /\ i \in Claimed(s) /\ (InHand(s, i) => InHand(s, i)'),
         TypeOK'
  PROVE  ClaimInv'
<1> SUFFICES ASSUME faults' = 0, NEW s \in Subs, Legacy(s)', NEW i \in Claimed(s)'
             PROVE  <<s, i>> \in Reached' \/ InHand(s, i)'
  BY DEF ClaimInv
<1>1. sub'[s].start \in Nat /\ sub'[s].cursor \in Nat
  BY RowFields DEF TypeOK
<1>2. i \in Nat
  BY <1>1 DEF Claimed
<1>3. \/ <<s, i>> \in Reached'
      \/ Legacy(s) /\ i \in Claimed(s) /\ (InHand(s, i) => InHand(s, i)')
  BY <1>2
<1> QED BY <1>3 DEF ClaimInv

\* A row that is no legacy one afterwards, has nothing claimed, or stays.
Settles(s) == Legacy(s)' => \/ sub'[s].cursor <= sub'[s].start
                            \/ /\ Legacy(s) /\ sub'[s].start = sub[s].start
                               /\ sub'[s].cursor = sub[s].cursor

LEMMA SettlesClaims ==
  ASSUME TypeOK', NEW s \in Subs, Settles(s), Legacy(s)', NEW i \in Claimed(s)'
  PROVE  Legacy(s) /\ i \in Claimed(s) /\ sub'[s].cursor = sub[s].cursor
<1>1. sub'[s].start \in Nat /\ sub'[s].cursor \in Nat
  BY RowFields DEF TypeOK
<1>2. ~(sub'[s].cursor <= sub'[s].start)
  BY <1>1 DEF Claimed
<1> QED BY <1>2 DEF Settles, Claimed

\* The batch is left as it is.
LEMMA QuietClaims ==
  ASSUME ClaimInv, TypeOK', faults' = 0 => faults = 0, Reached \subseteq Reached',
         batch' = batch, \A s \in Subs : Settles(s)
  PROVE  ClaimInv'
<1>1. ASSUME NEW s \in Subs, NEW i \in Nat, Legacy(s)', i \in Claimed(s)'
      PROVE  /\ Legacy(s) /\ i \in Claimed(s)
             /\ InHand(s, i) => InHand(s, i)'
  <2>1. Legacy(s) /\ i \in Claimed(s) /\ sub'[s].cursor = sub[s].cursor
    BY <1>1, SettlesClaims
  <2> QED BY <2>1 DEF InHand
<1> QED BY <1>1, ClaimsCarry

\* The delivery at the head goes on behind an event that was shown or put in.
LEMMA NextClaims ==
  ASSUME TypeOK, BatchInv, OnceInv, ClaimInv, TypeOK', batch # <<>>, d.next <= d.upto, NextEvent,
         faults' = faults, Reached \subseteq Reached', ~native => now \in Reached',
         \A s \in Subs : Settles(s)
  PROVE  ClaimInv'
<1>1. ASSUME NEW s \in Subs, NEW i \in Nat, Legacy(s)', i \in Claimed(s)'
      PROVE  \/ <<s, i>> \in Reached'
             \/ Legacy(s) /\ i \in Claimed(s) /\ (InHand(s, i) => InHand(s, i)')
  <2>1. Legacy(s) /\ i \in Claimed(s) /\ sub'[s].cursor = sub[s].cursor
    BY <1>1, SettlesClaims
  <2>2. ASSUME InHand(s, i), <<s, i>> \notin Reached' PROVE InHand(s, i)'
    <3>1. PICK D \in Elems(batch) : /\ D.sub = s /\ D.mode \notin Native
                                    /\ D.next <= i /\ sub[s].cursor = D.upto
      BY <2>2 DEF InHand
    <3>2. CASE D # d
      BY <2>1, <3>1, <3>2, NextElem DEF InHand
    <3>3. CASE D = d
      <4>1. d.next # i /\ d.next \in Nat
        BY <2>2, <3>1, <3>3, HeadIsGood DEF now, native
      <4>2. d.next + 1 <= i
        BY <3>1, <3>3, <4>1
      <4>3. PICK E \in Elems(batch') : /\ E.sub = d.sub /\ E.mode = d.mode /\ E.upto = d.upto
                                       /\ E.next = d.next + 1
        BY NextElem
      <4>4. E.sub = s /\ E.mode \notin Native /\ E.next <= i /\ sub'[s].cursor = E.upto
        BY <2>1, <3>1, <3>3, <4>2, <4>3
      <4> QED BY <4>4 DEF InHand
    <3> QED BY <3>2, <3>3
  <2> QED BY <2>1, <2>2
<1> QED BY <1>1, ClaimsCarry

\* The delivery at the head is done with: its claim was served or given back.
LEMMA DropClaims ==
  ASSUME TypeOK, BatchInv, OnceInv, ClaimInv, PassedInv, TypeOK', batch # <<>>,
         batch' = Tail(batch), faults' = faults, Reached' = Reached,
         \A s \in Subs : s # d.sub => sub'[s] = sub[s],
         \/ native /\ sub' = sub
         \/ sub' = Advanced /\ (d.sub \in unnamed \/ (~native /\ d.next > d.upto))
         \/ ~sub'[d.sub].live
         \/ sub[d.sub].cursor # d.upto /\ sub' = sub
         \/ sub[d.sub].cursor = d.upto /\ sub' = [sub EXCEPT ![d.sub].cursor = d.old]
  PROVE  ClaimInv'
<1>1. /\ d.sub \in Subs /\ d.next \in Nat /\ d.upto \in Nat /\ d.old \in Nat
      /\ batch \in Seq(Deliveries) /\ d.old < d.upto
  <2>1. d.upto \in Ids /\ d.old \in 0..MaxEvents /\ d.sub \in Subs /\ d.next \in Nat /\ d.old < d.upto
    BY HeadIsGood
  <2>2. d.upto \in Nat /\ d.old \in Nat
    BY <2>1, NotifierAssumption DEF Ids
  <2>3. batch \in Seq(Deliveries)
    BY DEF TypeOK
  <2> QED BY <2>1, <2>2, <2>3
<1>2. /\ Elems(batch) = {d} \cup Elems(batch') /\ d.old < d.next
      /\ \A D \in Elems(batch') : D.sub # d.sub
  BY <1>1, ElemsTail DEF OnceInv, d
<1>3. ASSUME faults = 0, NEW s \in Subs, NEW i \in Nat, Legacy(s)', i \in Claimed(s)'
      PROVE  \/ <<s, i>> \in Reached'
             \/ Legacy(s) /\ i \in Claimed(s) /\ (InHand(s, i) => InHand(s, i)')
  <2>1. sub[s] \in Rows /\ sub[s].start \in Nat /\ sub[s].cursor \in Nat
    BY RowFields DEF TypeOK
  <2>2. CASE s # d.sub
    <3>1. sub'[s] = sub[s]
      BY <2>2
    <3> QED BY <1>2, <1>3, <2>2, <3>1 DEF Legacy, Claimed, InHand
  <2>3. CASE s = d.sub
    <3>1. CASE sub' = sub /\ (native \/ sub[d.sub].cursor # d.upto)
      <4>1. native \/ sub[s].cursor # d.upto
        BY <2>3, <3>1
      <4>2. ~InHand(s, i)
        <5>1. i <= sub[s].cursor
          BY <1>3, <2>1, <3>1 DEF Claimed
        <5>2. ~(d.mode \notin Native /\ d.next <= i /\ sub[s].cursor = d.upto)
          BY <1>1, <4>1, <5>1 DEF native
        <5> QED BY <1>2, <2>3, <5>2 DEF InHand
      <4> QED BY <1>3, <3>1, <4>2 DEF Legacy, Claimed
    <3>2. CASE sub[d.sub].cursor = d.upto /\ sub' = [sub EXCEPT ![d.sub].cursor = d.old]
      <4>1. /\ sub'[s].live = sub[s].live /\ sub'[s].mode = sub[s].mode /\ sub'[s].own = sub[s].own
            /\ sub'[s].start = sub[s].start /\ sub'[s].cursor = d.old
        BY <1>1, <2>1, <2>3, <3>2 DEF TypeOK, Rows
      <4>2. i <= d.old /\ i \in Claimed(s)
        BY <1>1, <1>3, <2>1, <2>3, <3>2, <4>1 DEF Claimed
      <4>3. ~InHand(s, i)
        <5>1. ~(d.next <= i)
          BY <1>1, <1>2, <4>2
        <5> QED BY <1>2, <2>3, <5>1 DEF InHand
      <4> QED BY <1>3, <4>1, <4>2, <4>3 DEF Legacy
    <3>3. CASE sub' = Advanced /\ (d.sub \in unnamed \/ (~native /\ d.next > d.upto))
      <4>1. sub[d.sub].live
        BY <1>3, <2>3, <3>3 DEF Legacy, Advanced
      <4> DEFINE o == sub[s].own /\ sub[s].gen = d.row /\ d.sub \notin unnamed
      <4>2. sub'[s] = [sub[s] EXCEPT !.cursor = d.upto, !.own = o]
        BY <1>1, <2>3, <3>3, <4>1 DEF Advanced, TypeOK
      <4>3. o => sub[s].own /\ sub[s].gen = d.row /\ d.sub \notin unnamed
        OBVIOUS
      <4> HIDE DEF o
      <4>4. /\ sub'[s].mode = sub[s].mode /\ sub'[s].start = sub[s].start
            /\ sub'[s].cursor = d.upto /\ sub'[s].own = o
        BY <2>1, <4>2 DEF Rows
      <4>5. Legacy(s) /\ sub[s].gen = d.row /\ d.mode \notin Native /\ d.next > d.upto
        BY <1>3, <2>3, <3>3, <4>1, <4>3, <4>4 DEF Legacy, native
      <4>6. i \in (sub[s].start + 1)..(d.next - 1)
        BY <1>1, <1>3, <2>1, <4>4, <4>5 DEF Claimed
      <4>7. d \in Elems(batch)
        BY <1>2
      <4> QED BY <1>3, <2>3, <4>5, <4>6, <4>7 DEF PassedInv
    <3> QED BY <1>3, <2>3, <3>1, <3>2, <3>3 DEF Legacy
  <2> QED BY <2>2, <2>3
<1> QED BY <1>3, ClaimsCarry

\* What Collect claims, and what it appends.
ClaimedRow(s) == [sub[s] EXCEPT !.cursor = log, !.own = sub[s].own /\ sub[s].mode \notin Native]

LEMMA CollectAppends ==
  ASSUME TypeOK, OnceInv, NEW r \in todo, Collect(r), batch' # batch
  PROVE  /\ r.sub \in Subs /\ sub[r.sub].live
         /\ sub' = IF r.mode \in Native THEN sub
                   ELSE [sub EXCEPT ![r.sub] = ClaimedRow(r.sub)]
         /\ \A E \in Elems(batch) : E.sub # r.sub
         /\ OncePer(batch')
         /\ \E D \in Deliveries :
              /\ Elems(batch') = Elems(batch) \cup {D}
              /\ D.sub = r.sub /\ D.mode = r.mode /\ D.row = sub[r.sub].gen
              /\ D.upto = log /\ D.next = sub[r.sub].cursor + 1 /\ D.old < D.next
<1>0. PICK s \in Subs : s = r.sub
  BY DEF TypeOK, Listed
<1> DEFINE D == [sub |-> s, mode |-> r.mode, gen |-> r.gen, row |-> sub[s].gen,
                 old |-> sub[s].cursor, upto |-> log, next |-> First(s)]
<1>1. /\ sub[s] \in Rows /\ log \in Nat /\ log <= MaxEvents /\ batch \in Seq(Deliveries)
      /\ r.mode \in Modes /\ r.gen \in 0..MaxGens
  BY NotifierAssumption DEF TypeOK, Listed
<1>l. sub[s].live /\ Unseen(s)
  BY <1>0 DEF Collect
<1>2. /\ sub[s].cursor \in Nat /\ sub[s].cursor < log /\ sub[s].gen \in 0..MaxGens
  BY <1>1, <1>l, RowFields DEF Unseen, Rows
<1>3. /\ batch' = Append(batch, D)
      /\ sub' = IF r.mode \in Native THEN sub
                ELSE [sub EXCEPT ![s] = ClaimedRow(s)]
  BY <1>0, <1>1 DEF Collect, TypeOK, ClaimedRow
<1>4. D \in Deliveries
  BY <1>1, <1>2, NotifierAssumption DEF Deliveries, First, Ids
<1>5. /\ D.sub = s /\ D.mode = r.mode /\ D.row = sub[s].gen /\ D.upto = log
      /\ D.next = sub[s].cursor + 1 /\ D.old < D.next
  BY <1>2 DEF First
<1>6. \A E \in Elems(batch) : E.sub # s
  BY <1>0 DEF OnceInv
<1> HIDE DEF D
<1>7. Elems(batch') = Elems(batch) \cup {D} /\ OncePer(batch')
  BY <1>1, <1>3, <1>4, <1>5, <1>6, ElemsAppend DEF OnceInv
<1> QED BY <1>0, <1>l, <1>3, <1>4, <1>5, <1>6, <1>7

\* The deliveries of a batch are those it had, the one at the head gone on to its
\* next event, or the one collected from a row.
LEMMA BatchElems ==
  ASSUME TypeOK, BatchInv, HeadInv, OnceInv, [Next]_vars, NEW D \in Elems(batch')
  PROVE  \/ D \in Elems(batch)
         \/ /\ MarkerWake \/ Send \/ Acknowledge
            /\ batch # <<>> /\ d \in Elems(batch)
            /\ D.sub = d.sub /\ D.mode = d.mode /\ D.row = d.row /\ D.next = d.next + 1
            /\ native => Acknowledge \/ Send
         \/ \E r \in todo : Collect(r) /\ batch' # batch /\ D.sub = r.sub /\ D.mode = r.mode
                            /\ D.next = sub[r.sub].cursor + 1
<1>1. CASE batch' = batch
  BY <1>1
<1>2. CASE batch # <<>> /\ batch' = Tail(batch)
  BY <1>2, ElemsTail DEF TypeOK
<1>3. CASE batch' = <<>>
  BY <1>3, NoElems
<1>4. CASE NextEvent /\ (MarkerWake \/ Send \/ Acknowledge)
  <2>1. batch # <<>> /\ d.next <= d.upto
    BY <1>4 DEF MarkerWake, Send, Acknowledge, HeadInv
  <2>2. d \in Elems(batch)
    BY <2>1, ElemsTail DEF TypeOK, d
  <2> QED BY <1>4, <2>1, <2>2, NextElem DEF MarkerWake
<1>5. ASSUME NEW r \in todo, Collect(r), batch' # batch
      PROVE  D \in Elems(batch) \/ (D.sub = r.sub /\ D.mode = r.mode /\ D.next = sub[r.sub].cursor + 1)
  <2>1. PICK E \in Deliveries : /\ Elems(batch') = Elems(batch) \cup {E}
                               /\ E.sub = r.sub /\ E.mode = r.mode
                               /\ E.next = sub[r.sub].cursor + 1
    BY <1>5, CollectAppends
  <2> QED BY <2>1
<1>6. CASE OpenDelivery \/ CloseDelivery \/ Fail
  BY <1>1, <1>2, <1>6 DEF OpenDelivery, CloseDelivery, Fail, HeadInv
<1>7. CASE MarkerWake \/ Send \/ Acknowledge
  BY <1>1, <1>4, <1>7 DEF MarkerWake, Send, Acknowledge
<1>8. CASE TickFails \/ Crash
  BY <1>3, <1>8 DEF TickFails, Crash
<1>9. CASE \/ StartTick \/ Collected \/ OpenEvent \/ WakeAccepted \/ WakeRejected \/ SendFails
           \/ AcknowledgeFails \/ BoardEvent \/ Archive \/ Reconnect \/ WakesMove \/ UNCHANGED vars
           \/ \E s \in Subs : Unsubscribe(s) \/ Upgrade(s) \/ ResetCursor(s)
           \/ \E s \in Subs, mode \in Modes, c \in 0..log : Subscribe(s, mode, c)
  BY <1>1, <1>9 DEF StartTick, Collected, OpenEvent, WakeAccepted, WakeRejected, SendFails,
                    AcknowledgeFails, BoardEvent, Archive, Reconnect, WakesMove, vars,
                    Unsubscribe, Upgrade, ResetCursor, Subscribe
<1> QED BY <1>1, <1>5, <1>6, <1>7, <1>8, <1>9 DEF Next, Tick

LEMMA PassedInductive ==
  ASSUME IInv, OnceInv, ClaimInv, PassedInv, TypeOK', [Next]_vars
  PROVE  PassedInv'
<1> USE DEF IInv
<1>0. /\ faults' = 0 => faults = 0
      /\ Reached \subseteq Reached'
  <2>1. faults \in Nat
    BY NotifierAssumption DEF TypeOK
  <2>2. (faults' = faults \/ faults' = faults + 1) /\ shown \subseteq shown' /\ marked \subseteq marked'
    BY DEF Next, Tick, StartTick, Collect, Collected, OpenDelivery, OpenEvent,
           CloseDelivery, WakeAccepted, WakeRejected, MarkerWake, Send, SendFails, Acknowledge,
           Fail, AcknowledgeFails, TickFails, BoardEvent, Archive, Reconnect, Unsubscribe,
           Upgrade, ResetCursor, Subscribe, WakesMove, Crash, vars
  <2> QED BY <2>1, <2>2 DEF Reached
<1> SUFFICES ASSUME faults' = 0, NEW D \in Elems(batch'), D.mode \notin Native,
                    Legacy(D.sub)', sub'[D.sub].gen = D.row,
                    NEW i \in (sub'[D.sub].start + 1)..(D.next - 1)
             PROVE  <<D.sub, i>> \in Reached'
  BY DEF PassedInv
\* What stands of a delivery the batch had.
<1>1. ASSUME NEW E \in Elems(batch), E.mode \notin Native, Legacy(E.sub)', sub'[E.sub].gen = E.row
      PROVE  /\ sub[E.sub].start \in Nat /\ E.next \in Nat /\ sub'[E.sub].start = sub[E.sub].start
             /\ \A j \in (sub[E.sub].start + 1)..(E.next - 1) : <<E.sub, j>> \in Reached
  <2>1. E \in Good /\ UnderWay(E.sub)
    <3>1. PICK k \in 1..Len(batch) : E = batch[k]
      BY DEF Elems
    <3> QED BY <3>1, ElementOfSeq DEF BatchInv, UnderWay
  <2>2. E.sub \in Subs /\ E.next \in Nat /\ E.row \in Nat /\ E.row <= sub[E.sub].gen
    BY <2>1, NotifierAssumption DEF Good, Deliveries
  <2>3. sub[E.sub].gen \in Nat /\ sub[E.sub].start \in Nat
    BY <2>2, RowFields DEF TypeOK
  <2>4. Kept(E.sub)
    BY <1>1, <2>2, <2>3, RowsKept
  <2>5. Legacy(E.sub) /\ sub[E.sub].gen = E.row /\ sub'[E.sub].start = sub[E.sub].start
    BY <1>1, <2>1, <2>4 DEF Kept, Legacy
  <2> QED BY <1>0, <1>1, <2>2, <2>3, <2>5 DEF PassedInv
<1>2. CASE D \in Elems(batch)
  BY <1>0, <1>1, <1>2
<1>3. CASE /\ MarkerWake \/ Send \/ Acknowledge
           /\ batch # <<>> /\ d \in Elems(batch)
           /\ D.sub = d.sub /\ D.mode = d.mode /\ D.row = d.row /\ D.next = d.next + 1
           /\ D \notin Elems(batch)
  <2>1. /\ sub[d.sub].start \in Nat /\ d.next \in Nat /\ sub'[d.sub].start = sub[d.sub].start
        /\ \A j \in (sub[d.sub].start + 1)..(d.next - 1) : <<d.sub, j>> \in Reached
    BY <1>1, <1>3
  <2>2. now \in Reached'
    <3>1. ~native
      BY <1>3 DEF native
    <3>2. batch' # batch
      BY <1>3
    <3> QED BY <1>3, <3>1, <3>2 DEF MarkerWake, Send, Acknowledge, HeadInv, Reached
  <2>3. i = d.next \/ i \in (sub[d.sub].start + 1)..(d.next - 1)
    BY <1>3, <2>1
  <2> QED BY <1>0, <1>3, <2>1, <2>2, <2>3 DEF now
<1>4. ASSUME NEW r \in todo, Collect(r), batch' # batch, D.sub = r.sub, D.mode = r.mode,
             D.next = sub[r.sub].cursor + 1
      PROVE  <<D.sub, i>> \in Reached'
  <2>1. /\ r.sub \in Subs /\ sub[r.sub].live /\ r.mode \notin Native
        /\ \A E \in Elems(batch) : E.sub # r.sub
        /\ sub' = [sub EXCEPT ![r.sub] = ClaimedRow(r.sub)]
    BY <1>4, CollectAppends
  <2>2. sub[r.sub] \in Rows /\ sub[r.sub].start \in Nat /\ sub[r.sub].cursor \in Nat
    BY <2>1, RowFields DEF TypeOK
  <2> DEFINE o == sub[r.sub].own /\ sub[r.sub].mode \notin Native
  <2>3. sub'[r.sub] = [sub[r.sub] EXCEPT !.cursor = log, !.own = o]
    BY <2>1 DEF TypeOK, ClaimedRow
  <2>4. o => sub[r.sub].own /\ sub[r.sub].mode \notin Native
    OBVIOUS
  <2> HIDE DEF o
  <2>5. sub'[r.sub].own = o /\ sub'[r.sub].start = sub[r.sub].start
    BY <2>2, <2>3 DEF Rows
  <2>6. Legacy(r.sub) /\ i \in Claimed(r.sub)
    BY <1>4, <2>1, <2>2, <2>4, <2>5 DEF Legacy, Claimed
  <2>7. ~InHand(r.sub, i)
    BY <2>1 DEF InHand
  <2> QED BY <1>0, <1>4, <2>1, <2>6, <2>7 DEF ClaimInv
<1> HIDE DEF IInv
<1> QED BY <1>2, <1>3, <1>4, BatchElems DEF IInv

LEMMA ClaimInductive ==
  ASSUME IInv, OnceInv, ClaimInv, PassedInv, TypeOK', [Next]_vars
  PROVE  ClaimInv'
<1> USE DEF IInv
<1>s. ASSUME NEW s \in Subs, sub'[s] = sub[s] PROVE Settles(s)
  BY <1>s DEF Settles, Legacy
<1>q. ASSUME sub' = sub, batch' = batch, faults' = 0 => faults = 0,
             shown \subseteq shown', marked \subseteq marked'
      PROVE  ClaimInv'
  <2>1. Reached \subseteq Reached' /\ \A s \in Subs : Settles(s)
    BY <1>q, <1>s DEF Reached
  <2> QED BY <1>q, <2>1, QuietClaims
<1>z. ASSUME faults' = faults + 1 PROVE ClaimInv'
  <2>1. faults \in Nat
    BY NotifierAssumption DEF TypeOK
  <2> QED BY <1>z, <2>1 DEF ClaimInv
<1>1. CASE StartTick \/ Collected \/ OpenEvent \/ WakeAccepted \/ WakeRejected \/ SendFails
  BY <1>1, <1>q DEF StartTick, Collected, OpenEvent, WakeAccepted, WakeRejected, SendFails
<1>2. CASE AcknowledgeFails \/ TickFails \/ Crash
  BY <1>2, <1>z DEF AcknowledgeFails, TickFails, Crash
<1>3. CASE BoardEvent \/ Archive \/ Reconnect \/ WakesMove \/ UNCHANGED vars
  BY <1>3, <1>q DEF BoardEvent, Archive, Reconnect, WakesMove, vars
\* What the operator writes.
<1>4. ASSUME NEW t \in Subs, \/ Unsubscribe(t) \/ Upgrade(t) \/ ResetCursor(t)
                             \/ \E mode \in Modes, c \in 0..log : Subscribe(t, mode, c)
      PROVE  ClaimInv'
  <2>1. /\ batch' = batch /\ faults' = faults /\ shown' = shown /\ marked' = marked
        /\ \A s \in Subs : s # t => sub'[s] = sub[s]
    BY <1>4 DEF Unsubscribe, Upgrade, ResetCursor, Subscribe, TypeOK
  <2>2. Settles(t)
    <3>1. sub[t] \in Rows /\ sub[t].start \in Nat /\ sub[t].cursor \in Nat
      BY RowFields DEF TypeOK
    <3>2. CASE Unsubscribe(t)
      BY <3>1, <3>2 DEF Unsubscribe, Settles, Legacy, TypeOK, Rows
    <3>3. CASE Upgrade(t)
      BY <3>1, <3>3 DEF Upgrade, Settles, Legacy, TypeOK, Rows, Native
    <3>4. CASE ResetCursor(t)
      <4> DEFINE x == IF UnderWay(t) THEN sub[t].start ELSE 0
      <4>1. sub'[t] = [sub[t] EXCEPT !.cursor = 0, !.start = x] /\ x \in Nat
        BY <3>1, <3>4 DEF ResetCursor, TypeOK
      <4> HIDE DEF x
      <4>2. sub'[t].cursor = 0 /\ sub'[t].start = x
        BY <3>1, <4>1 DEF Rows
      <4> QED BY <4>1, <4>2 DEF Settles
    <3>5. ASSUME NEW mode \in Modes, NEW c \in 0..log, Subscribe(t, mode, c) PROVE Settles(t)
      <4>1. sub'[t].cursor = c /\ sub'[t].start = c /\ c \in Nat
        BY <3>1, <3>5, NotifierAssumption DEF Subscribe, Row, TypeOK
      <4> QED BY <4>1 DEF Settles
    <3> QED BY <1>4, <3>2, <3>3, <3>4, <3>5
  <2> QED BY <1>s, <2>1, <2>2, QuietClaims DEF Reached
\* What the loop claims, and what it does with a claim.
<1>5. ASSUME NEW r \in todo, Collect(r) PROVE ClaimInv'
  <2>0. PICK s \in Subs : s = r.sub
    BY DEF TypeOK, Listed
  <2>1. Reached' = Reached /\ faults' = faults
    BY <1>5 DEF Collect, Reached
  <2>2. CASE batch' = batch
    <3>1. sub' = sub \/ sub' = [sub EXCEPT ![s].live = FALSE]
      <4>1. ~(sub[s].live /\ Unseen(s)) \/ archived
        <5>1. \A x : Append(batch, x) # batch
          <6>1. batch \in Seq(Deliveries)
            BY DEF TypeOK
          <6> QED BY <6>1
        <5> QED BY <1>5, <2>0, <2>2, <5>1 DEF Collect
      <4> QED BY <1>5, <2>0, <4>1 DEF Collect
    <3>2. \A t \in Subs : Settles(t)
      <4> SUFFICES ASSUME NEW t \in Subs PROVE Settles(t)
        OBVIOUS
      <4>1. CASE sub'[t] = sub[t]
        BY <1>s, <4>1
      <4>2. CASE sub'[t] # sub[t]
        BY <3>1, <4>2 DEF Settles, Legacy, TypeOK, Rows
      <4> QED BY <4>1, <4>2
    <3> QED BY <2>1, <2>2, <3>2, QuietClaims
  <2>3. CASE batch' # batch
    <3> DEFINE o == sub[s].own /\ sub[s].mode \notin Native
    <3>1. /\ sub[s].live /\ \A E \in Elems(batch) : E.sub # s
          /\ sub' = IF r.mode \in Native THEN sub
                    ELSE [sub EXCEPT ![s] = [sub[s] EXCEPT !.cursor = log, !.own = o]]
      <4>1. /\ sub[s].live /\ \A E \in Elems(batch) : E.sub # s
            /\ sub' = IF r.mode \in Native THEN sub ELSE [sub EXCEPT ![s] = ClaimedRow(s)]
        BY <1>5, <2>0, <2>3, CollectAppends
      <4> QED BY <4>1 DEF ClaimedRow
    <3>2. PICK D \in Deliveries :
                   /\ Elems(batch') = Elems(batch) \cup {D}
                   /\ D.sub = s /\ D.mode = r.mode /\ D.upto = log /\ D.next = sub[s].cursor + 1
      BY <1>5, <2>0, <2>3, CollectAppends
    <3>3. o => sub[s].own /\ sub[s].mode \notin Native
      OBVIOUS
    <3> HIDE DEF o
    <3>4. sub[s] \in Rows /\ sub[s].start \in Nat /\ sub[s].cursor \in Nat /\ log \in Nat
      BY RowFields, NotifierAssumption DEF TypeOK
    <3>5. ASSUME faults = 0, NEW t \in Subs, Legacy(t)', NEW i \in Claimed(t)'
          PROVE  <<t, i>> \in Reached \/ InHand(t, i)'
      <4>1. CASE sub'[t] = sub[t]
        <5>1. Legacy(t) /\ i \in Claimed(t)
          BY <3>5, <4>1 DEF Legacy, Claimed
        <5>2. <<t, i>> \in Reached \/ InHand(t, i)
          BY <3>5, <5>1 DEF ClaimInv
        <5> QED BY <3>2, <4>1, <5>2 DEF InHand
      <4>2. CASE sub'[t] # sub[t]
        <5>1. t = s /\ r.mode \notin Native /\ sub'[s] = [sub[s] EXCEPT !.cursor = log, !.own = o]
          BY <3>1, <4>2 DEF TypeOK
        <5>2. sub'[s].cursor = log /\ sub'[s].start = sub[s].start /\ sub'[s].own = o
          BY <3>4, <5>1 DEF Rows
        <5>3. i \in (sub[s].start + 1)..log
          BY <3>5, <5>1, <5>2 DEF Claimed
        <5>4. CASE i <= sub[s].cursor
          <6>1. Legacy(s)
            BY <3>1, <3>3, <3>5, <5>1, <5>2 DEF Legacy
          <6>2. i \in Claimed(s)
            BY <3>4, <5>3, <5>4 DEF Claimed
          <6>3. ~InHand(s, i)
            BY <3>1 DEF InHand
          <6> QED BY <3>5, <5>1, <6>1, <6>2, <6>3 DEF ClaimInv
        <5>5. CASE ~(i <= sub[s].cursor)
          <6>1. D.next <= i
            BY <3>2, <3>4, <5>3, <5>5
          <6>2. D \in Elems(batch') /\ D.mode \notin Native /\ sub'[s].cursor = D.upto
            BY <3>2, <5>1, <5>2
          <6> QED BY <3>2, <5>1, <6>1, <6>2 DEF InHand
        <5> QED BY <5>4, <5>5
      <4> QED BY <4>1, <4>2
    <3> QED BY <2>1, <3>5 DEF ClaimInv
  <2> QED BY <2>2, <2>3
<1>6. CASE MarkerWake \/ Send
  <2>1. batch # <<>> /\ d.next <= d.upto
    BY <1>6 DEF MarkerWake, Send, HeadInv
  <2>2. /\ sub' = sub /\ faults' = faults
        /\ shown \subseteq shown' /\ marked \subseteq marked'
    BY <1>6 DEF MarkerWake, Send
  <2>3. CASE batch' = batch
    BY <1>q, <2>2, <2>3
  <2>4. CASE batch' # batch
    <3>1. NextEvent /\ now \in Reached'
      BY <1>6, <2>4 DEF MarkerWake, Send, Reached
    <3>2. Reached \subseteq Reached' /\ \A s \in Subs : Settles(s)
      BY <1>s, <2>2 DEF Reached
    <3> QED BY <2>1, <2>2, <3>1, <3>2, NextClaims
  <2> QED BY <2>3, <2>4
<1>7. CASE Acknowledge
  <2>1. batch # <<>> /\ d.next <= d.upto /\ native
    BY <1>7 DEF Acknowledge, HeadInv
  <2>2. /\ NextEvent /\ Reached' = Reached /\ faults' = faults
        /\ \/ sub' = sub
           \/ Same(d.sub) /\ sub' = [sub EXCEPT ![d.sub].cursor = d.next]
    BY <1>7 DEF Acknowledge, Reached
  <2>3. d \in Good /\ d.sub \in Subs
    BY <2>1, HeadIsGood
  <2>4. Same(d.sub) => sub[d.sub].mode \in Native
    BY <2>1, <2>3 DEF Good, Same, native
  <2>5. ASSUME NEW s \in Subs PROVE Settles(s)
    <3>1. CASE sub'[s] = sub[s]
      BY <1>s, <3>1
    <3>2. CASE sub'[s] # sub[s]
      <4>1. s = d.sub /\ Same(d.sub) /\ sub' = [sub EXCEPT ![d.sub].cursor = d.next]
        BY <2>2, <3>2 DEF TypeOK
      <4>2. sub'[s].mode = sub[s].mode
        BY <2>3, <4>1 DEF TypeOK, Rows
      <4> QED BY <2>4, <4>1, <4>2 DEF Settles, Legacy
    <3> QED BY <3>1, <3>2
  <2> QED BY <2>1, <2>2, <2>5, NextClaims
<1>a. ASSUME batch # <<>>, sub' = Advanced, d.sub \in unnamed \/ (~native /\ d.next > d.upto),
             batch' = Tail(batch), faults' = faults, shown' = shown, marked' = marked
      PROVE  ClaimInv'
  <2>1. \A s \in Subs : s # d.sub => sub'[s] = sub[s]
    BY <1>a DEF Advanced, TypeOK
  <2>2. Reached' = Reached
    BY <1>a DEF Reached
  <2> QED BY <1>a, <2>1, <2>2, DropClaims
<1>8. CASE CloseDelivery
  <2>1. /\ batch # <<>> /\ batch' = Tail(batch) /\ faults' = faults
        /\ shown' = shown /\ marked' = marked
    BY <1>8 DEF CloseDelivery, HeadInv
  <2>2. CASE native
    <3>1. sub' = sub /\ Reached' = Reached
      BY <1>8, <2>2 DEF CloseDelivery, Reached
    <3> QED BY <2>1, <2>2, <3>1, DropClaims
  <2>3. CASE ~native
    BY <1>8, <1>a, <2>1, <2>3 DEF CloseDelivery
  <2> QED BY <2>2, <2>3
<1>r. ASSUME batch # <<>>, sub' = Rewound, batch' = Tail(batch), faults' = faults,
             shown' = shown, marked' = marked
      PROVE  ClaimInv'
  <2>1. \/ native /\ sub' = sub
        \/ sub[d.sub].cursor # d.upto /\ sub' = sub
        \/ sub[d.sub].cursor = d.upto /\ sub' = [sub EXCEPT ![d.sub].cursor = d.old]
    BY <1>r DEF Rewound
  <2>2. \A s \in Subs : s # d.sub => sub'[s] = sub[s]
    BY <2>1 DEF TypeOK
  <2>3. Reached' = Reached
    BY <1>r DEF Reached
  <2> QED BY <1>r, <2>1, <2>2, <2>3, DropClaims
<1>9. CASE OpenDelivery
  <2>1. CASE batch' = batch /\ sub' = sub
    BY <1>9, <1>q, <2>1 DEF OpenDelivery
  <2>2. CASE batch # <<>> /\ sub' = Rewound /\ batch' = Tail(batch)
    BY <1>9, <1>r, <2>2 DEF OpenDelivery
  <2>3. CASE batch # <<>> /\ sub' = Advanced /\ d.sub \in unnamed /\ batch' = Tail(batch)
    BY <1>9, <1>a, <2>3 DEF OpenDelivery
  <2> QED BY <1>9, <2>1, <2>2, <2>3 DEF OpenDelivery
<1>10. CASE Fail
  <2>1. /\ batch # <<>> /\ batch' = Tail(batch) /\ faults' = faults
        /\ shown' = shown /\ marked' = marked /\ d.sub \in Subs
    BY <1>10, HeadIsGood DEF Fail, HeadInv
  <2>2. CASE sub' = Rewound
    BY <1>r, <2>1, <2>2
  <2>3. CASE sub' = [sub EXCEPT ![d.sub].live = FALSE]
    <3>1. ~sub'[d.sub].live /\ \A s \in Subs : s # d.sub => sub'[s] = sub[s]
      BY <2>1, <2>3 DEF TypeOK, Rows
    <3>2. Reached' = Reached
      BY <2>1 DEF Reached
    <3> QED BY <2>1, <3>1, <3>2, DropClaims
  <2> QED BY <1>10, <2>2, <2>3 DEF Fail
<1> HIDE DEF IInv
<1> QED BY <1>1, <1>2, <1>3, <1>4, <1>5, <1>6, <1>7, <1>8, <1>9, <1>10 DEF Next, Tick

\* claim_unseen_events_for_sub moves a legacy cursor before anything is sent;
\* _kanban_rewind, _kanban_advance and the order of the loop see to it that,
\* without a crash or a failed database call, every event behind the cursor was
\* shown or put in once the tick is over, for every row that only deliveries of
\* its own advanced and whose platform has a name.
THEOREM ClaimsAreServed == Spec => []ClaimedIsServed
<1>1. Init => OnceInv /\ ClaimInv /\ PassedInv
  <2> SUFFICES ASSUME Init PROVE OnceInv /\ ClaimInv /\ PassedInv
    OBVIOUS
  <2>1. OnceInv
    BY NoElems DEF Init, OnceInv
  <2>2. ASSUME NEW s \in Subs PROVE ~sub[s].live
    <3>1. PICK mode \in Modes : sub[s] = Row(FALSE, mode, 0, 0)
      BY DEF Init
    <3> QED BY <3>1 DEF Row
  <2>3. PassedInv
    BY NoElems DEF Init, PassedInv
  <2> QED BY <2>1, <2>2, <2>3 DEF ClaimInv, Legacy
<1>2. OnceInv /\ ClaimInv /\ PassedInv /\ IInv /\ IInv' /\ [Next]_vars
         => OnceInv' /\ ClaimInv' /\ PassedInv'
  BY OnceInductive, ClaimInductive, PassedInductive DEF IInv
<1>3. OnceInv /\ ClaimInv => ClaimedIsServed
  <2> SUFFICES ASSUME OnceInv, ClaimInv, pc = "idle", faults = 0, NEW s \in Subs,
                      sub[s].live, sub[s].own, sub[s].mode \notin Native,
                      NEW i \in (sub[s].start + 1)..sub[s].cursor
               PROVE  <<s, i>> \in shown \cup marked
    BY DEF ClaimedIsServed
  <2>1. Elems(batch) = {}
    BY NoElems DEF OnceInv
  <2>2. <<s, i>> \in Reached \/ InHand(s, i)
    BY DEF ClaimInv, Legacy, Claimed
  <2> QED BY <2>1, <2>2 DEF InHand, Reached
<1> QED BY <1>1, <1>2, <1>3, NotifierInvariant, PTL DEF Spec

=============================================================================
