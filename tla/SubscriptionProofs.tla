------------------------ MODULE SubscriptionProofs --------------------------
(***************************************************************************)
(* Proofs about Subscription, for any sessions, destinations and number of *)
(* concurrent calls of the tool.                                           *)
(***************************************************************************)
EXTENDS Subscription, TLAPS

\* The routing table is never behind the gateway's sessions: a row that could
\* be read is the session, and a missing one means a closed session or one
\* that the mirror has had all along.
HostInv ==
  /\ ~native => mirror = store /\ table = Nobody
  /\ native => \A k \in Keys : /\ table[k] \in {None, Unreadable, store[k]}
                               /\ table[k] = None /\ store[k] # None => mirror[k] = store[k]

\* What a call has read of the mirror is still good for the gaps.
ReadInv ==
  \A c \in Calls : pc[c] = "half" =>
     IF native THEN \A k \in Keys : table[k] = None /\ store[k] # None => early[c][k] = store[k]
     ELSE /\ fitting[c] = Matches(ask[c], early[c])
          /\ closed[c] = {k \in Keys : early[c][k] = None}

\* When a call has a target, and what for.
GoalInv ==
  \A c \in Calls :
    /\ pc[c] \in {"new", "probed", "half"} => goal[c] = None
    /\ pc[c] \in {"resolved", "written"} \/ outcome[c] \in Success =>
         dest[c] \in Chats /\ (ask[c].mode = "wake" => goal[c] # None)
    /\ outcome[c] \in Success => pc[c] = "done"

\* The row a call has written is as it left it, until somebody touches it.
RowInv ==
  \A c \in Calls \ touched : pc[c] = "written" \/ outcome[c] \in Success =>
    /\ goal[c] # None => row[dest[c]] = goal[c]
    /\ outcome[c] \in Success => (outcome[c] = "enabled" <=> row[dest[c]] \in Markers)

-----------------------------------------------------------------------------
LEMMA IndexType ==
  ASSUME TypeOK, NEW c \in Calls, NEW ok \in BOOLEAN
  PROVE  Index(c, ok) \in [Keys -> Entries \cup {None}]
<1> SUFFICES ASSUME NEW k \in Keys PROVE Index(c, ok)[k] \in Entries \cup {None}
  BY DEF Index
<1>1. early[c][k] \in Entries \cup {None} /\ table[k] \in Entries \cup {None, Unreadable}
  BY DEF TypeOK
<1> QED BY <1>1 DEF Index

\* Whatever is found, named and written to is of the right kind.
LEMMA TargetType ==
  ASSUME TypeOK, NEW c \in Calls, NEW ok \in BOOLEAN
  PROVE  /\ ask[c].mode \in {"wake", "visible", "dry"}
         /\ Found(c, ok) # {} => Sole(c, ok) \in Keys /\ Sole(c, ok) \in Found(c, ok)
         /\ Named(c, ok) \in Markers \cup {None}
         /\ Place(c, ok) \in Chats \cup {None}
<1>1. ask[c] \in [key : Keys \cup {None}, sid : Sids \cup {None},
                  chat : Chats \cup {None}, mode : {"wake", "visible", "dry"}]
  BY SubscriptionAssumption DEF TypeOK, NoAsk
<1>2. Found(c, ok) # {} => Sole(c, ok) \in Found(c, ok)
  BY DEF Sole
<1>3. Found(c, ok) \subseteq Keys
  BY DEF Found, Matches
<1>4. Found(c, ok) # {} => Index(c, ok)[Sole(c, ok)] \in Entries
  <2> SUFFICES ASSUME Found(c, ok) # {} PROVE Index(c, ok)[Sole(c, ok)] \in Entries
    OBVIOUS
  <2>1. Sole(c, ok) \in Keys /\ Index(c, ok)[Sole(c, ok)] # None
    BY <1>2 DEF Found, Matches, Fits
  <2> QED BY <2>1, IndexType
<1>5. Named(c, ok) \in Markers \cup {None}
  BY <1>1, <1>2, <1>3 DEF Named, Markers
<1>6. Place(c, ok) \in Chats \cup {None}
  BY <1>1, <1>4 DEF Place, Entries
<1> QED BY <1>1, <1>2, <1>3, <1>5, <1>6

\* What a write leaves in the row.
LEMMA WrittenRow ==
  ASSUME TypeOK, GoalInv, NEW c \in Calls, pc[c] = "resolved"
  PROVE  /\ Written(c) \in [Chats -> Markers \cup {None, Plain}]
         /\ dest[c] \in Chats
         /\ goal[c] # None => Written(c)[dest[c]] = goal[c]
         /\ \A d \in Chats : d # dest[c] => Written(c)[d] = row[d]
BY DEF TypeOK, GoalInv, Written

-----------------------------------------------------------------------------
IInv == TypeOK /\ HostInv /\ ReadInv /\ GoalInv /\ RowInv

LEMMA InitialSubscription == Init => IInv /\ WakesTheOneMeant
<1> SUFFICES ASSUME Init PROVE IInv /\ WakesTheOneMeant
  OBVIOUS
<1>1. /\ table \in [Keys -> Entries \cup {None, Unreadable}]
      /\ ~native => table = Nobody
      /\ \A k \in Keys : table[k] \in {None, store[k]}
  BY DEF Init, Nobody
<1>2. TypeOK
  BY <1>1, SubscriptionAssumption DEF Init, TypeOK, Labels, Outcomes, Success, Nobody
<1>3. HostInv
  BY <1>1 DEF Init, HostInv
<1>4. ReadInv /\ GoalInv /\ RowInv
  BY DEF Init, ReadInv, GoalInv, RowInv, Success
<1>5. WakesTheOneMeant
  BY SubscriptionAssumption DEF Init, WakesTheOneMeant
<1> QED BY <1>2, <1>3, <1>4, <1>5 DEF IInv

LEMMA ResolvingTypes ==
  ASSUME TypeOK, NEW c \in Calls, NEW ok \in BOOLEAN, Resolve(c, ok)
  PROVE  TypeOK'
<1>1. /\ Named(c, ok) \in Markers \cup {None} /\ Place(c, ok) \in Chats \cup {None}
  BY TargetType
<1>2. goal' \in [Calls -> Markers \cup {None}] /\ dest' \in [Calls -> Chats \cup {None}]
  BY <1>1 DEF Resolve, TypeOK
<1>3. pc' \in [Calls -> Labels] /\ outcome' \in [Calls -> Outcomes]
  BY DEF Resolve, TypeOK, Goto, Ends, Labels, Outcomes
<1>4. fitting' \in [Calls -> SUBSET Keys] /\ closed' \in [Calls -> SUBSET Keys]
  <2>1. Matches(ask[c], store) \subseteq Keys
    BY DEF Matches
  <2>2. CASE native /\ ok
    <3>1. Observe(c, {k \in Keys : table[k] # Unreadable})
      BY <2>2 DEF Resolve
    <3> QED BY <3>1, <2>1 DEF TypeOK, Observe
  <2>3. CASE ~(native /\ ok)
    BY <2>3 DEF Resolve, TypeOK
  <2> QED BY <2>2, <2>3
<1>5. early' \in [Calls -> [Keys -> Entries \cup {None}]] /\ unsure' \subseteq Calls
  BY DEF Resolve, TypeOK, Nobody
<1> QED BY <1>2, <1>3, <1>4, <1>5 DEF Resolve, TypeOK, host

LEMMA SubscriptionTypeStep ==
  ASSUME TypeOK, GoalInv, [Next]_vars
  PROVE  TypeOK'
<1> USE DEF TypeOK, Goto, Ends, Labels, Outcomes, Success, host, tool
<1>1. ASSUME NEW c \in Calls, NEW q \in Asks, Start(c, q) PROVE TypeOK'
  BY <1>1 DEF Start
<1>2. ASSUME NEW c \in Calls, ReadMirror(c) PROVE TypeOK'
  BY <1>2 DEF ReadMirror, Observe, Matches
<1>3. ASSUME NEW c \in Calls, NEW ok \in BOOLEAN, Resolve(c, ok) PROVE TypeOK'
  BY <1>3, ResolvingTypes
<1>4. ASSUME NEW c \in Calls, Write(c) PROVE TypeOK'
  <2>1. row' \in [Chats -> Markers \cup {None, Plain}] /\ touched' \subseteq Calls
    BY <1>4, WrittenRow DEF Write, Others
  <2> QED BY <1>4, <2>1 DEF Write
<1>5. ASSUME NEW c \in Calls, WriteFails(c) PROVE TypeOK'
  <2>1. row' \in [Chats -> Markers \cup {None, Plain}] /\ touched' \subseteq Calls
    BY <1>5, WrittenRow DEF WriteFails, Others
  <2> QED BY <1>5, <2>1 DEF WriteFails
<1>6. ASSUME NEW c \in Calls, Verify(c) PROVE TypeOK'
  BY <1>6 DEF Verify
<1>7. ASSUME NEW k \in Keys, NEW e \in Entries \cup {None}, SessionChanges(k, e) PROVE TypeOK'
  BY <1>7, SubscriptionAssumption DEF SessionChanges
<1>8. CASE MirrorFollows
  BY <1>8 DEF MirrorFollows
<1>9. ASSUME NEW k \in Keys, RowSpoils(k) PROVE TypeOK'
  BY <1>9, SubscriptionAssumption DEF RowSpoils
<1>10. ASSUME NEW d \in Chats, NEW mark \in Markers \cup {Plain}, Subscribed(d, mark) PROVE TypeOK'
  BY <1>10 DEF Subscribed
<1>11. ASSUME NEW d \in Chats, Unsubscribe(d) PROVE TypeOK'
  BY <1>11 DEF Unsubscribe
<1>12. CASE UNCHANGED vars
  BY <1>12 DEF vars
<1> QED BY <1>1, <1>2, <1>3, <1>4, <1>5, <1>6, <1>7, <1>8, <1>9, <1>10, <1>11, <1>12 DEF Next

-----------------------------------------------------------------------------
LEMMA HostStep ==
  ASSUME TypeOK, HostInv, [Next]_vars
  PROVE  HostInv' /\ (native' = native)
<1>1. ASSUME NEW k \in Keys, NEW e \in Entries \cup {None}, SessionChanges(k, e)
      PROVE  HostInv' /\ native' = native
  <2>1. CASE native
    <3>1. ASSUME NEW j \in Keys
          PROVE  /\ table'[j] \in {None, Unreadable, store'[j]}
                 /\ table'[j] = None /\ store'[j] # None => mirror'[j] = store'[j]
      BY <1>1, <2>1, <3>1 DEF SessionChanges, TypeOK, HostInv
    <3> QED BY <1>1, <2>1, <3>1 DEF SessionChanges, HostInv
  <2>2. CASE ~native
    BY <1>1, <2>2 DEF SessionChanges, HostInv, Nobody
  <2> QED BY <2>1, <2>2
<1>2. CASE MirrorFollows
  BY <1>2 DEF MirrorFollows, HostInv, Nobody
<1>3. ASSUME NEW k \in Keys, RowSpoils(k) PROVE HostInv' /\ native' = native
  <2>1. native
    BY <1>3 DEF RowSpoils, HostInv, Nobody
  <2>2. ASSUME NEW j \in Keys
        PROVE  /\ table'[j] \in {None, Unreadable, store'[j]}
               /\ table'[j] = None /\ store'[j] # None => mirror'[j] = store'[j]
    BY <1>3, <2>1, SubscriptionAssumption DEF RowSpoils, TypeOK, HostInv
  <2> QED BY <1>3, <2>1, <2>2 DEF RowSpoils, HostInv
<1>4. CASE UNCHANGED host
  BY <1>4 DEF host, HostInv, Nobody
<1>5. \/ UNCHANGED host \/ MirrorFollows
      \/ \E k \in Keys, e \in Entries \cup {None} : SessionChanges(k, e)
      \/ \E k \in Keys : RowSpoils(k)
  BY DEF Next, vars, Start, ReadMirror, Resolve, Write, WriteFails, Verify, Subscribed, Unsubscribe
<1> QED BY <1>1, <1>2, <1>3, <1>4, <1>5

LEMMA ReadStep ==
  ASSUME TypeOK, HostInv, ReadInv, [Next]_vars
  PROVE  ReadInv'
<1> USE DEF Goto, Ends, host, tool
<1>1. ASSUME NEW c \in Calls, ReadMirror(c) PROVE ReadInv'
  <2>1. /\ early' = [early EXCEPT ![c] = mirror] /\ pc' = [pc EXCEPT ![c] = "half"]
        /\ UNCHANGED <<store, table, mirror, native, ask>>
    BY <1>1 DEF ReadMirror
  <2>2. ~native => /\ fitting'[c] = Matches(ask[c], mirror)
                   /\ closed'[c] = {k \in Keys : mirror[k] = None}
    <3> SUFFICES ASSUME ~native PROVE /\ fitting'[c] = Matches(ask[c], mirror)
                                      /\ closed'[c] = {k \in Keys : mirror[k] = None}
      OBVIOUS
    <3>1. mirror = store /\ Matches(ask[c], store) \cap Keys = Matches(ask[c], store)
      BY DEF HostInv, Matches
    <3>2. fitting'[c] = Matches(ask[c], store) \cap Keys
      BY <1>1 DEF ReadMirror, Observe, TypeOK
    <3>3. closed'[c] = {k \in Keys : store[k] = None}
      BY <1>1 DEF ReadMirror, Observe, TypeOK
    <3> QED BY <3>1, <3>2, <3>3
  <2>3. \A b \in Calls \ {c} : /\ pc'[b] = pc[b] /\ early'[b] = early[b]
                               /\ fitting'[b] = fitting[b] /\ closed'[b] = closed[b]
    BY <1>1 DEF ReadMirror, Observe, TypeOK
  <2>4. early'[c] = mirror
    BY <2>1 DEF TypeOK
  <2>5. ASSUME NEW b \in Calls, pc'[b] = "half"
        PROVE  IF native' THEN \A k \in Keys : table'[k] = None /\ store'[k] # None => early'[b][k] = store'[k]
               ELSE /\ fitting'[b] = Matches(ask'[b], early'[b])
                    /\ closed'[b] = {k \in Keys : early'[b][k] = None}
    <3>1. CASE b = c
      BY <3>1, <2>1, <2>2, <2>4 DEF HostInv
    <3>2. CASE b # c
      BY <3>2, <2>1, <2>3, <2>5 DEF ReadInv
    <3> QED BY <3>1, <3>2
  <2> QED BY <2>5 DEF ReadInv
<1>2. ASSUME NEW k \in Keys, NEW e \in Entries \cup {None}, SessionChanges(k, e) PROVE ReadInv'
  <2>1. UNCHANGED <<pc, ask, early, fitting, closed, native>>
    BY <1>2 DEF SessionChanges
  <2>2. CASE native
    <3>1. \A j \in Keys : table'[j] = None /\ store'[j] # None =>
                            table[j] = None /\ store'[j] = store[j]
      BY <1>2, <2>2 DEF SessionChanges, TypeOK
    <3> QED BY <2>1, <2>2, <3>1 DEF ReadInv
  <2>3. CASE ~native
    BY <2>1, <2>3 DEF ReadInv
  <2> QED BY <2>2, <2>3
<1>3. CASE MirrorFollows
  BY <1>3 DEF MirrorFollows, ReadInv
<1>4. ASSUME NEW k \in Keys, RowSpoils(k) PROVE ReadInv'
  <2>1. UNCHANGED <<pc, ask, early, fitting, closed, native, store>>
    BY <1>4 DEF RowSpoils
  <2>2. \A j \in Keys : table'[j] = None => table[j] = None
    BY <1>4, SubscriptionAssumption DEF RowSpoils, TypeOK
  <2> QED BY <2>1, <2>2 DEF ReadInv
<1>5. ASSUME UNCHANGED host,
             NEW c \in Calls, pc'[c] # "half",
             \A b \in Calls \ {c} : /\ pc'[b] = pc[b] /\ ask'[b] = ask[b] /\ early'[b] = early[b]
                                    /\ fitting'[b] = fitting[b] /\ closed'[b] = closed[b]
      PROVE  ReadInv'
  <2>1. ASSUME NEW b \in Calls, pc'[b] = "half"
        PROVE  IF native' THEN \A k \in Keys : table'[k] = None /\ store'[k] # None => early'[b][k] = store'[k]
               ELSE /\ fitting'[b] = Matches(ask'[b], early'[b])
                    /\ closed'[b] = {k \in Keys : early'[b][k] = None}
    <3>1. b \in Calls \ {c}
      BY <1>5, <2>1
    <3> QED BY <1>5, <2>1, <3>1 DEF ReadInv
  <2> QED BY <2>1 DEF ReadInv
<1>6. ASSUME NEW c \in Calls, NEW q \in Asks, Start(c, q) PROVE ReadInv'
  BY <1>6, <1>5 DEF Start, TypeOK
<1>7. ASSUME NEW c \in Calls, NEW ok \in BOOLEAN, Resolve(c, ok) PROVE ReadInv'
  <2>1. pc'[c] # "half"
    BY <1>7 DEF Resolve, TypeOK
  <2>2. \A b \in Calls \ {c} : /\ pc'[b] = pc[b] /\ ask'[b] = ask[b] /\ early'[b] = early[b]
                               /\ fitting'[b] = fitting[b] /\ closed'[b] = closed[b]
    BY <1>7 DEF Resolve, Observe, TypeOK
  <2> QED BY <1>7, <2>1, <2>2, <1>5 DEF Resolve
<1>8. ASSUME NEW c \in Calls, Write(c) \/ WriteFails(c) \/ Verify(c) PROVE ReadInv'
  BY <1>8, <1>5 DEF Write, WriteFails, Verify, TypeOK
<1>9. CASE UNCHANGED <<host, tool>>
  BY <1>9 DEF ReadInv
<1>10. ASSUME NEW d \in Chats, NEW mark \in Markers \cup {Plain}, Subscribed(d, mark) PROVE ReadInv'
  BY <1>10, <1>9 DEF Subscribed
<1>11. ASSUME NEW d \in Chats, Unsubscribe(d) PROVE ReadInv'
  BY <1>11, <1>9 DEF Unsubscribe
<1>12. CASE UNCHANGED vars
  BY <1>12, <1>9 DEF vars
<1> QED BY <1>1, <1>2, <1>3, <1>4, <1>6, <1>7, <1>8, <1>10, <1>11, <1>12 DEF Next

-----------------------------------------------------------------------------
LEMMA GoalStep ==
  ASSUME TypeOK, GoalInv, [Next]_vars
  PROVE  GoalInv'
<1> USE DEF Goto, Ends, host, tool, Success
<1>1. ASSUME NEW c \in Calls, NEW ok \in BOOLEAN, Resolve(c, ok) PROVE GoalInv'
  <2>1. /\ Named(c, ok) \in Markers \cup {None} /\ Place(c, ok) \in Chats \cup {None}
    BY TargetType
  <2>2. pc[c] = "half" /\ outcome[c] \notin Success /\ goal[c] = None
    BY <1>1 DEF Resolve, GoalInv
  <2>3. /\ pc'[c] \in {"done", "resolved"} /\ outcome'[c] \notin Success
        /\ ask' = ask
        /\ pc'[c] = "resolved" => dest'[c] \in Chats /\ (ask[c].mode = "wake" => goal'[c] # None)
    BY <1>1, <2>1, <2>2 DEF Resolve, TypeOK
  <2>4. \A b \in Calls \ {c} : /\ pc'[b] = pc[b] /\ outcome'[b] = outcome[b]
                               /\ goal'[b] = goal[b] /\ dest'[b] = dest[b]
    BY <1>1 DEF Resolve, TypeOK
  <2> QED BY <2>3, <2>4 DEF GoalInv
<1>2. ASSUME NEW c \in Calls, NEW q \in Asks, Start(c, q) PROVE GoalInv'
  BY <1>2 DEF Start, TypeOK, GoalInv
<1>3. ASSUME NEW c \in Calls, ReadMirror(c) PROVE GoalInv'
  BY <1>3 DEF ReadMirror, TypeOK, GoalInv
<1>4. ASSUME NEW c \in Calls, Write(c) PROVE GoalInv'
  BY <1>4 DEF Write, TypeOK, GoalInv
<1>5. ASSUME NEW c \in Calls, WriteFails(c) PROVE GoalInv'
  BY <1>5 DEF WriteFails, TypeOK, GoalInv
<1>6. ASSUME NEW c \in Calls, Verify(c) PROVE GoalInv'
  BY <1>6 DEF Verify, TypeOK, GoalInv
<1>7. CASE UNCHANGED tool
  BY <1>7 DEF GoalInv
<1>8. ASSUME NEW d \in Chats, NEW mark \in Markers \cup {Plain},
             Subscribed(d, mark) \/ Unsubscribe(d)
      PROVE  GoalInv'
  BY <1>8, <1>7 DEF Subscribed, Unsubscribe
<1>9. ASSUME NEW d \in Chats, Unsubscribe(d) PROVE GoalInv'
  BY <1>9, <1>7 DEF Unsubscribe
<1>10. ASSUME NEW k \in Keys, NEW e \in Entries \cup {None},
              SessionChanges(k, e) \/ MirrorFollows \/ RowSpoils(k)
       PROVE  GoalInv'
  BY <1>10, <1>7 DEF SessionChanges, MirrorFollows, RowSpoils
<1>11. CASE MirrorFollows
  BY <1>11, <1>7 DEF MirrorFollows
<1>12. ASSUME NEW k \in Keys, RowSpoils(k) PROVE GoalInv'
  BY <1>12, <1>7 DEF RowSpoils
<1>13. CASE UNCHANGED vars
  BY <1>13, <1>7 DEF vars
<1> QED BY <1>1, <1>2, <1>3, <1>4, <1>5, <1>6, <1>8, <1>9, <1>10, <1>11, <1>12, <1>13 DEF Next

\* A write of another call to the same destination counts as touching it.
LEMMA RowStep ==
  ASSUME TypeOK, GoalInv, RowInv, [Next]_vars
  PROVE  RowInv'
<1> USE DEF Goto, Ends, host, tool
<1>1. ASSUME NEW c \in Calls, row' = Written(c), pc[c] = "resolved",
             Others(c) \subseteq touched', touched \ {c} \subseteq touched',
             UNCHANGED <<ask, goal, dest>>,
             \A b \in Calls \ {c} : pc'[b] = pc[b] /\ outcome'[b] = outcome[b],
             outcome'[c] \notin Success
      PROVE  RowInv'
  <2>1. ASSUME NEW b \in Calls \ touched', pc'[b] = "written" \/ outcome'[b] \in Success
        PROVE  /\ goal'[b] # None => row'[dest'[b]] = goal'[b]
               /\ outcome'[b] \in Success => (outcome'[b] = "enabled" <=> row'[dest'[b]] \in Markers)
    <3>1. CASE b = c
      BY <3>1, <1>1, WrittenRow
    <3>2. CASE b # c
      <4>1. dest[b] # dest[c] /\ b \in Calls \ touched
        BY <3>2, <2>1, <1>1 DEF Others
      <4>2. dest[b] \in Chats
        BY <3>2, <2>1, <1>1 DEF GoalInv
      <4>3. row'[dest[b]] = row[dest[b]]
        BY <4>1, <4>2, <1>1, WrittenRow
      <4> QED BY <3>2, <4>1, <4>3, <2>1, <1>1 DEF RowInv
    <3> QED BY <3>1, <3>2
  <2> QED BY <2>1 DEF RowInv
<1>2. ASSUME NEW d \in Chats, NEW mark \in Markers \cup {Plain, None},
             row' = [row EXCEPT ![d] = mark],
             touched' = touched \cup {c \in Calls : dest[c] = d},
             UNCHANGED tool
      PROVE  RowInv'
  <2>1. ASSUME NEW b \in Calls \ touched', pc'[b] = "written" \/ outcome'[b] \in Success
        PROVE  b \in Calls \ touched /\ row'[dest[b]] = row[dest[b]]
    <3>1. dest[b] # d /\ b \in Calls \ touched
      BY <1>2, <2>1
    <3>2. dest[b] \in Chats
      BY <1>2, <2>1 DEF GoalInv
    <3> QED BY <3>1, <3>2, <1>2 DEF TypeOK
  <2> QED BY <2>1, <1>2 DEF RowInv
<1>3. ASSUME UNCHANGED <<row, touched>>, NEW c \in Calls,
             pc'[c] # "written" /\ outcome'[c] \notin Success,
             \A b \in Calls \ {c} : /\ pc'[b] = pc[b] /\ outcome'[b] = outcome[b]
                                    /\ goal'[b] = goal[b] /\ dest'[b] = dest[b]
      PROVE  RowInv'
  BY <1>3 DEF RowInv
<1>4. ASSUME NEW c \in Calls, Verify(c) PROVE RowInv'
  <2>1. /\ UNCHANGED <<row, touched, goal, dest>> /\ pc[c] = "written"
        /\ outcome'[c] = "enabled" <=> row[dest[c]] \in Markers
        /\ \A b \in Calls \ {c} : pc'[b] = pc[b] /\ outcome'[b] = outcome[b]
    BY <1>4 DEF Verify, TypeOK
  <2> QED BY <2>1 DEF RowInv
<1>5. ASSUME NEW c \in Calls, Write(c) PROVE RowInv'
  <2>1. outcome'[c] \notin Success
    BY <1>5 DEF Write, GoalInv
  <2> QED BY <1>5, <2>1, <1>1 DEF Write, TypeOK
<1>6. ASSUME NEW c \in Calls, WriteFails(c) PROVE RowInv'
  <2>1. /\ pc'[c] = "done" /\ outcome'[c] \notin Success /\ UNCHANGED <<ask, goal, dest>>
        /\ \A b \in Calls \ {c} : pc'[b] = pc[b] /\ outcome'[b] = outcome[b]
    BY <1>6 DEF WriteFails, TypeOK, Success
  <2>2. CASE UNCHANGED <<row, touched>>
    BY <2>1, <2>2, <1>3
  <2>3. CASE pc[c] = "resolved" /\ row' = Written(c) /\ touched' = touched \cup Others(c)
    BY <2>1, <2>3, <1>1
  <2> QED BY <1>6, <2>2, <2>3 DEF WriteFails
<1>7. ASSUME NEW c \in Calls, NEW ok \in BOOLEAN, Resolve(c, ok) PROVE RowInv'
  <2>1. /\ pc[c] = "half" /\ outcome[c] \notin Success
    BY <1>7 DEF Resolve, GoalInv
  <2>2. pc'[c] # "written" /\ outcome'[c] \notin Success
    BY <1>7, <2>1 DEF Resolve, TypeOK, Success
  <2>3. /\ UNCHANGED <<row, touched>>
        /\ \A b \in Calls \ {c} : /\ pc'[b] = pc[b] /\ outcome'[b] = outcome[b]
                                  /\ goal'[b] = goal[b] /\ dest'[b] = dest[b]
    BY <1>7 DEF Resolve, TypeOK
  <2> QED BY <2>2, <2>3, <1>3
<1>8. ASSUME NEW c \in Calls, NEW q \in Asks, Start(c, q) PROVE RowInv'
  <2>1. outcome[c] \notin Success
    BY <1>8 DEF Start, GoalInv
  <2> QED BY <1>8, <2>1, <1>3 DEF Start, TypeOK
<1>9. ASSUME NEW c \in Calls, ReadMirror(c) PROVE RowInv'
  <2>1. outcome[c] \notin Success
    BY <1>9 DEF ReadMirror, GoalInv
  <2> QED BY <1>9, <2>1, <1>3 DEF ReadMirror, TypeOK
<1>10. CASE UNCHANGED <<row, tool, touched>>
  BY <1>10 DEF RowInv
<1>11. ASSUME NEW d \in Chats, NEW mark \in Markers \cup {Plain}, Subscribed(d, mark) PROVE RowInv'
  BY <1>11, <1>2 DEF Subscribed
<1>12. ASSUME NEW d \in Chats, Unsubscribe(d) PROVE RowInv'
  BY <1>12, <1>2 DEF Unsubscribe
<1>13. ASSUME NEW k \in Keys, NEW e \in Entries \cup {None}, SessionChanges(k, e) PROVE RowInv'
  BY <1>13, <1>10 DEF SessionChanges
<1>14. CASE MirrorFollows
  BY <1>14, <1>10 DEF MirrorFollows
<1>15. ASSUME NEW k \in Keys, RowSpoils(k) PROVE RowInv'
  BY <1>15, <1>10 DEF RowSpoils
<1>16. CASE UNCHANGED vars
  BY <1>16, <1>10 DEF vars
<1> QED BY <1>4, <1>5, <1>6, <1>7, <1>8, <1>9, <1>11, <1>12, <1>13, <1>14, <1>15, <1>16 DEF Next

-----------------------------------------------------------------------------
\* Every session that the gateway has in a row that can be read is in the
\* index as it is, and a session of the index that the gateway has not is one
\* it has closed.
LEMMA IndexIsCurrent ==
  ASSUME TypeOK, HostInv, ReadInv, native, NEW c \in Calls, pc[c] = "half", NEW k \in Keys
  PROVE  /\ store[k] # None /\ table[k] # Unreadable => Index(c, TRUE)[k] = store[k]
         /\ Index(c, TRUE)[k] # None => table[k] # Unreadable
<1>1. table[k] \in {None, Unreadable, store[k]}
  BY DEF HostInv
<1>2. table[k] = None /\ store[k] # None => early[c][k] = store[k]
  BY DEF ReadInv
<1> QED BY <1>1, <1>2, SubscriptionAssumption DEF Index

LEMMA MeantWhenResolved ==
  ASSUME TypeOK, HostInv, ReadInv, GoalInv, NEW c \in Calls, NEW ok \in BOOLEAN,
         Resolve(c, ok), ask[c].key = None, goal'[c] \in Keys, c \notin unsure'
  PROVE  fitting'[c] \subseteq {goal'[c]} /\ goal'[c] \in fitting'[c] \cup closed'[c]
<1>1. pc[c] = "half" /\ goal[c] = None /\ (native => ok)
  BY DEF Resolve, GoalInv
<1>2. goal'[c] = Named(c, ok) /\ ~Ambiguous(Found(c, ok))
  <2>1. None \notin Keys
    BY SubscriptionAssumption
  <2> QED BY <1>1, <2>1 DEF Resolve, TypeOK
<1>3. ask[c].sid \in Sids \cup {None}
  BY SubscriptionAssumption DEF TypeOK, NoAsk
<1>4. Found(c, ok) # {}
  <2>1. Keys \cap Sids = {} /\ None \notin Keys
    BY SubscriptionAssumption
  <2> QED BY <1>2, <1>3, <2>1 DEF Named
<1>5. goal'[c] \in Found(c, ok) /\ goal'[c] = Sole(c, ok)
  BY <1>2, <1>4, TargetType DEF Named
<1>6. Found(c, ok) = {goal'[c]}
  <2>1. Found(c, ok) \subseteq Keys
    BY DEF Found, Matches
  <2> QED BY <1>2, <1>5, <2>1 DEF Ambiguous
<1>7. CASE native
  <2> DEFINE readable == {k \in Keys : table[k] # Unreadable}
  <2>1. ok = TRUE
    BY <1>1, <1>7
  <2>2. /\ fitting'[c] = Matches(ask[c], store) \cap readable
        /\ closed'[c] = {k \in readable : store[k] = None}
    BY <1>7, <2>1 DEF Resolve, Observe, TypeOK
  <2>3. ASSUME NEW k \in fitting'[c] PROVE k \in Found(c, ok)
    <3>1. k \in Keys /\ table[k] # Unreadable /\ Fits(ask[c], k, store[k])
      BY <2>2, <2>3 DEF Matches
    <3>2. Index(c, TRUE)[k] = store[k]
      BY <3>1, <1>1, <1>7, IndexIsCurrent DEF Fits
    <3> QED BY <3>1, <3>2, <2>1 DEF Found, Matches
  <2>4. goal'[c] \in fitting'[c] \cup closed'[c]
    <3> DEFINE k == goal'[c]
    <3>1. k \in Keys /\ Fits(ask[c], k, Index(c, TRUE)[k])
      BY <1>5, <2>1 DEF Found, Matches
    <3>2. k \in readable
      BY <3>1, <1>1, <1>7, IndexIsCurrent DEF Fits
    <3>3. store[k] # None => Index(c, TRUE)[k] = store[k]
      BY <3>1, <3>2, <1>1, <1>7, IndexIsCurrent
    <3> QED BY <2>2, <3>1, <3>2, <3>3 DEF Matches
  <2> QED BY <2>3, <2>4, <1>6
<1>8. CASE ~native
  <2>1. fitting'[c] = fitting[c]
    BY <1>8 DEF Resolve
  <2>2. ASSUME NEW k \in Keys PROVE Index(c, ok)[k] = early[c][k]
    BY <1>8 DEF Index, HostInv, Nobody
  <2>3. Found(c, ok) = Matches(ask[c], early[c])
    BY <2>2 DEF Found, Matches
  <2>4. fitting[c] = Matches(ask[c], early[c])
    BY <1>1, <1>8 DEF ReadInv
  <2> QED BY <2>1, <2>3, <2>4, <1>6
<1> QED BY <1>7, <1>8

\* Only Resolve gives a call its target, and what it observed stays with it.
LEMMA MeantStep ==
  ASSUME IInv, WakesTheOneMeant, [Next]_vars
  PROVE  WakesTheOneMeant'
<1> USE DEF Goto, Ends, host, tool, IInv
<1>1. ASSUME NEW c \in Calls,
             goal'[c] \in Keys /\ ask'[c].key = None /\ c \notin unsure' =>
                fitting'[c] \subseteq {goal'[c]} /\ goal'[c] \in fitting'[c] \cup closed'[c],
             unsure \subseteq unsure',
             \A b \in Calls \ {c} : /\ ask'[b] = ask[b] /\ goal'[b] = goal[b]
                                    /\ fitting'[b] = fitting[b] /\ closed'[b] = closed[b]
      PROVE  WakesTheOneMeant'
  BY <1>1 DEF WakesTheOneMeant
<1>2. ASSUME NEW c \in Calls, NEW ok \in BOOLEAN, Resolve(c, ok) PROVE WakesTheOneMeant'
  <2>1. /\ ask' = ask /\ unsure \subseteq unsure'
        /\ \A b \in Calls \ {c} : /\ goal'[b] = goal[b] /\ fitting'[b] = fitting[b]
                                  /\ closed'[b] = closed[b]
    BY <1>2 DEF Resolve, Observe, TypeOK
  <2>2. goal'[c] \in Keys /\ ask'[c].key = None /\ c \notin unsure' =>
           fitting'[c] \subseteq {goal'[c]} /\ goal'[c] \in fitting'[c] \cup closed'[c]
    BY <1>2, <2>1, MeantWhenResolved
  <2> QED BY <2>1, <2>2, <1>1
<1>3. ASSUME NEW c \in Calls, NEW q \in Asks, Start(c, q) PROVE WakesTheOneMeant'
  <2>1. goal'[c] \notin Keys
    BY <1>3, SubscriptionAssumption DEF Start, GoalInv
  <2> QED BY <1>3, <2>1, <1>1 DEF Start, TypeOK
<1>4. ASSUME NEW c \in Calls, ReadMirror(c) PROVE WakesTheOneMeant'
  <2>1. goal'[c] \notin Keys
    BY <1>4, SubscriptionAssumption DEF ReadMirror, GoalInv
  <2> QED BY <1>4, <2>1, <1>1 DEF ReadMirror, Observe, TypeOK
<1>5. CASE UNCHANGED <<ask, goal, fitting, closed, unsure>>
  BY <1>5 DEF WakesTheOneMeant
<1> QED BY <1>2, <1>3, <1>4, <1>5 DEF Next, vars, Write, WriteFails, Verify, SessionChanges,
           MirrorFollows, RowSpoils, Subscribed, Unsubscribe

-----------------------------------------------------------------------------
LEMMA SubscriptionDiscipline == Spec => [](IInv /\ WakesTheOneMeant)
<1>1. Init => IInv /\ WakesTheOneMeant
  BY InitialSubscription
<1>2. IInv /\ WakesTheOneMeant /\ [Next]_vars => IInv' /\ WakesTheOneMeant'
  BY SubscriptionTypeStep, HostStep, ReadStep, GoalStep, RowStep, MeantStep DEF IInv
<1> QED BY <1>1, <1>2, PTL DEF Spec

\* The variables of kanban.create_wake_subscription, of the files it reads and
\* of the row it writes stay within their types.
THEOREM SubscriptionTypes == Spec => []TypeOK
BY SubscriptionDiscipline, PTL DEF IInv

\* resolve_target_session: however the mirror lags behind the routing table,
\* whichever rows are unreadable and whatever the gateway changes between the
\* two reads, filters select the one session that fits or none.
THEOREM SubscriptionWakesTheOneMeant == Spec => []WakesTheOneMeant
BY SubscriptionDiscipline, PTL

\* create_wake_subscription: with any number of concurrent callers and other
\* writers, the reported state of the subscription is that of the row until
\* somebody else writes the row.
THEOREM SubscriptionReportsTrue == Spec => []ReportMatchesRow
<1>1. GoalInv /\ RowInv => ReportMatchesRow
  BY DEF GoalInv, RowInv, ReportMatchesRow
<1> QED BY <1>1, SubscriptionDiscipline, PTL DEF IInv
=============================================================================
