------------------------- MODULE CronDeliveryProofs -------------------------
(***************************************************************************)
(* Proofs about CronDelivery, for any number of calls, executions,         *)
(* sessions, routes and resets.                                            *)
(***************************************************************************)
EXTENDS CronDelivery, FiniteSetTheorems, TLAPS

\* A route with exactly one session has one.
LEMMA OneMatch ==
  ASSUME NEW r, Cardinality(Matches(r)) = 1
  PROVE  (CHOOSE k \in Matches(r) : TRUE) \in Keys
<1>1. Matches(r) # {}
  BY FS_EmptySet
<1> QED BY <1>1 DEF Matches

\* The numbers a session id is made of.
LEMMA SessionParts ==
  /\ \A s \in Sessions : s[1] \in 0..MaxEntries /\ s[2] \in 0..MaxResets
  /\ \A n \in 0..MaxEntries, i \in 0..MaxResets :
       <<n, i>> \in Sessions /\ <<n, i>>[1] = n /\ <<n, i>>[2] = i
BY DEF Sessions

\* What is observed at a target, and what is resolved and looked up for it, is a
\* target's.
LEMMA ObservedTarget ==
  /\ \A t, r \in Routes \cup {None} :
       /\ Observed(t, r) \in Target
       /\ Observed(t, r).asked = t /\ Observed(t, r).route = r
  /\ NoTarget \in Target
<1>1. <<0, 0>> \in Sessions
  BY SessionParts, CronAssumption
<1> QED BY <1>1 DEF Observed, NoTarget, Target

LEMMA ResolvedTarget ==
  ASSUME NEW t \in Target, NEW k \in Keys, NEW s \in Sessions
  PROVE  /\ [t EXCEPT !.key = k, !.sid = s] \in Target
         /\ [t EXCEPT !.held = s] \in Target
         /\ [t EXCEPT !.held = s, !.late = TRUE] \in Target
BY DEF Target

\* What a change of a session leaves alone: an entry keeps its route when it is
\* reset in place, a new one has the next number, and what calls know stays but for
\* the session of the entry they hold.
LEMMA SessionChangeKeeps ==
  ASSUME TypeOK, NEW k \in Keys, SessionChanges(k)
  PROVE  /\ entry' \in [Keys -> Entries] /\ at' \in [Calls -> Target]
         /\ \A j \in Keys : \/ /\ entry'[j].sid[1] = entry[j].sid[1]
                               /\ entry'[j].route = entry[j].route
                            \/ entry'[j].sid[1] = entry[j].sid[1] + 1
         /\ \A c \in Calls : /\ at'[c].asked = at[c].asked /\ at'[c].route = at[c].route
                             /\ at'[c].key = at[c].key /\ at'[c].sid = at[c].sid
                             /\ at'[c].held[1] = at[c].held[1]
                             /\ at'[c] = at[c] \/ at'[c].late
<1> DEFINE n == entry[k].sid[1]
           i == entry[k].sid[2]
<1>1. entry[k].sid \in Sessions /\ entry[k].route \in Routes \cup {None}
  BY DEF TypeOK, Entries
<1>2. n \in 0..MaxEntries /\ i \in 0..MaxResets
  BY <1>1, SessionParts
<1>3. CASE /\ n < MaxEntries
           /\ \E r \in Routes \cup {None} :
                entry' = [entry EXCEPT ![k] = [sid |-> <<n + 1, 0>>, route |-> r]]
           /\ UNCHANGED at
  <2>1. PICK r \in Routes \cup {None} :
          entry' = [entry EXCEPT ![k] = [sid |-> <<n + 1, 0>>, route |-> r]]
    BY <1>3
  <2>2. <<n + 1, 0>> \in Sessions /\ <<n + 1, 0>>[1] = n + 1
    BY <1>2, <1>3, SessionParts, CronAssumption
  <2>3. [sid |-> <<n + 1, 0>>, route |-> r] \in Entries
    BY <2>2 DEF Entries
  <2>4. entry' \in [Keys -> Entries]
    BY <2>1, <2>3 DEF TypeOK
  <2>5. \A j \in Keys : entry'[j] = entry[j] \/ entry'[j].sid[1] = entry[j].sid[1] + 1
    BY <2>1, <2>2 DEF TypeOK
  <2>6. at' \in [Calls -> Target]
    BY <1>3 DEF TypeOK
  <2> QED BY <1>3, <2>4, <2>5, <2>6
<1>4. CASE /\ entry[k].route # None /\ i < MaxResets
           /\ entry' = [entry EXCEPT ![k].sid = <<n, i + 1>>]
           /\ at' = [c \in Calls |-> IF Holds(c, k)
                                     THEN [at[c] EXCEPT !.held = <<n, i + 1>>, !.late = TRUE]
                                     ELSE at[c]]
  <2>1. <<n, i + 1>> \in Sessions /\ <<n, i + 1>>[1] = n
    <3>1. i < MaxResets
      BY <1>4
    <3>2. i + 1 \in 0..MaxResets
      BY <1>2, <3>1, CronAssumption
    <3> HIDE DEF n, i
    <3> QED BY <1>2, <3>2, SessionParts
  <2>2. entry'[k] = [sid |-> <<n, i + 1>>, route |-> entry[k].route]
    BY <1>4 DEF TypeOK, Entries
  <2>3. \A j \in Keys : j # k => entry'[j] = entry[j]
    BY <1>4 DEF TypeOK
  <2>4. entry' \in [Keys -> Entries]
    <3>1. [sid |-> <<n, i + 1>>, route |-> entry[k].route] \in Entries
      BY <1>1, <2>1 DEF Entries
    <3>2. [entry[k] EXCEPT !.sid = <<n, i + 1>>] \in Entries
      BY <1>4, <2>2, <3>1 DEF TypeOK
    <3> QED BY <1>4, <3>2 DEF TypeOK
  <2>5. \A j \in Keys : entry'[j].sid[1] = entry[j].sid[1] /\ entry'[j].route = entry[j].route
    BY <2>1, <2>2, <2>3
  <2>6. ASSUME NEW c \in Calls
        PROVE  /\ at'[c] \in Target
               /\ at'[c].asked = at[c].asked /\ at'[c].route = at[c].route
               /\ at'[c].key = at[c].key /\ at'[c].sid = at[c].sid
               /\ at'[c].held[1] = at[c].held[1]
               /\ at'[c] = at[c] \/ at'[c].late
    <3>1. at[c] \in Target
      BY DEF TypeOK
    <3>2. CASE Holds(c, k)
      <4>1. at'[c] = [at[c] EXCEPT !.held = <<n, i + 1>>, !.late = TRUE]
        BY <1>4, <3>2
      <4>2. at[c].held[1] = n
        BY <3>2 DEF Holds
      <4>3. at'[c] \in Target
        BY <2>1, <3>1, <4>1, ResolvedTarget
      <4>4. /\ at'[c].asked = at[c].asked /\ at'[c].route = at[c].route
            /\ at'[c].key = at[c].key /\ at'[c].sid = at[c].sid
            /\ at'[c].held = <<n, i + 1>> /\ at'[c].late
        BY <3>1, <4>1 DEF Target
      <4> QED BY <2>1, <4>2, <4>3, <4>4
    <3>3. CASE ~Holds(c, k)
      BY <1>4, <3>1, <3>3
    <3> QED BY <3>2, <3>3
  <2>7. at' \in [Calls -> Target]
    <3>1. at' = [c \in Calls |-> at'[c]]
      BY <1>4
    <3> QED BY <2>6, <3>1
  <2> QED BY <2>4, <2>5, <2>6, <2>7
<1> QED BY <1>3, <1>4 DEF SessionChanges

\* What a call knows at the point where it is: who it is, and from the
\* observation on the target, its session and the proof of delivery; what it
\* holds is the session it resolved, unless it was reset in place since.
Identity(c) == IF exec[c] = None THEN c ELSE exec[c]
SameOrLate(found, sid, late) == sid = found \/ (late /\ sid[1] = found[1])

CallKnows(c) ==
  /\ pc[c] # "new" => fire[c] = Identity(c)
  /\ pc[c] \in {"observing", "checking", "storing", "scheduling"} => at[c].route \in Routes
  /\ pc[c] \in {"checking", "storing"} => durable /\ at[c].key \in Keys
  /\ pc[c] \in {"observing", "checking", "storing"} /\ durable =>
        at[c].route \in Origin /\ <<c, at[c].route>> \in shown
  /\ pc[c] = "storing" => SameOrLate(at[c].sid, at[c].held, at[c].late)

CallInv == \A c \in Calls : CallKnows(c)

\* Rows know who made them.
RowInv == \A q \in requests : pc[q.call] # "new" /\ q.fire = Identity(q.call)

\* Entry n of key k is claimed for route r, by a row or by a call about to make
\* one.  No entry is claimed for two routes: it never has a second one.
Claim(k, n, r) ==
  \/ \E q \in requests : q.key = k /\ q.sid[1] = n /\ q.route = r
  \/ \E c \in Calls : /\ pc[c] = "storing"
                      /\ at[c].key = k /\ at[c].held[1] = n /\ at[c].route = r

ClaimInv ==
  \A k \in Keys, n \in 0..MaxEntries, r \in Routes :
     Claim(k, n, r) => /\ n <= entry[k].sid[1]
                       /\ n = entry[k].sid[1] => r = entry[k].route
                       /\ \A s \in Routes : Claim(k, n, s) => r = s

IInv == TypeOK /\ CallInv /\ RowInv /\ ClaimInv /\ WakesWhereShown /\ OncePerExecution

\* A step of one call, after which only it may know something else, keeps what
\* calls know.
LEMMA OthersKnow ==
  ASSUME CallInv, NEW c \in Calls, CallKnows(c)', UNCHANGED durable, shown \subseteq shown',
         \A b \in Calls \ {c} : /\ pc'[b] = pc[b] /\ at'[b] = at[b]
                                /\ fire'[b] = fire[b] /\ exec'[b] = exec[b]
  PROVE  CallInv'
<1> SUFFICES ASSUME NEW b \in Calls PROVE CallKnows(b)'
  BY DEF CallInv
<1>1. CASE b = c
  BY <1>1
<1>2. CASE b # c
  BY <1>2 DEF CallInv, CallKnows, Identity
<1> QED BY <1>1, <1>2

\* A call that goes on to its next target keeps it.
LEMMA NextTargetKnows ==
  ASSUME TypeOK, CallInv, NEW c \in Calls, NextTarget(c), pc[c] # "new",
         UNCHANGED <<durable, exec, fire, shown>>
  PROVE  CallInv' /\ pc' \in [Calls -> {"new", "sending", "observing", "checking", "storing",
                                       "scheduling", "waiting", "done"}]
         /\ at' \in [Calls -> Target]
<1>1. CallKnows(c)'
  BY DEF CallInv, CallKnows, Identity, NextTarget, Goto, TypeOK
<1>2. at' \in [Calls -> Target]
  BY ObservedTarget DEF NextTarget, TypeOK
<1>3. CallInv'
  BY <1>1, OthersKnow DEF NextTarget, Goto, TypeOK
<1> QED BY <1>2, <1>3 DEF NextTarget, Goto, TypeOK

\* Types and what calls know are kept by every step of the calls, the gateway
\* and the session store.
LEMMA CallsInductive == TypeOK /\ CallInv /\ [Next]_vars => TypeOK' /\ CallInv'
<1> SUFFICES ASSUME TypeOK, CallInv, [Next]_vars PROVE TypeOK' /\ CallInv'
  OBVIOUS
<1> USE CronAssumption DEF TypeOK, Goto, store
<1>k. ASSUME UNCHANGED <<pc, durable, exec, fire, shown, at>>
      PROVE  CallInv'
  BY <1>k DEF CallInv, CallKnows, Identity
<1>1. ASSUME NEW c \in Calls, NEW x \in Execs \cup {None}, NEW targets \in Fanouts,
             NEW enabled \in BOOLEAN, Start(c, x, targets, enabled)
      PROVE  TypeOK' /\ CallInv'
  <2>1. /\ exec' = [exec EXCEPT ![c] = x] /\ pc' = [pc EXCEPT ![c] = "sending"]
        /\ fire' = [fire EXCEPT ![c] = IF x = None THEN c ELSE x]
        /\ UNCHANGED <<durable, store, at, shown, requests, wake>>
    BY <1>1 DEF Start, Enter
  <2>2. left' \in [Calls -> SUBSET Routes] /\ onLoop' \subseteq Calls
    BY <1>1 DEF Start, Enter
  <2>3. CallKnows(c)'
    BY <2>1 DEF CallKnows, Identity
  <2>4. CallInv'
    BY <2>1, <2>3, OthersKnow
  <2> QED BY <2>1, <2>2, <2>4
<1>2. ASSUME NEW c \in Calls, NEW t \in Routes, TargetFails(c, t) PROVE TypeOK' /\ CallInv'
  BY <1>2, <1>k DEF TargetFails
<1>o. ASSUME NEW c \in Calls, NEW t \in Routes, NEW r \in Routes,
             TargetShown(c, t, r) \/ (r = t /\ TargetUnproven(c, t))
      PROVE  TypeOK' /\ CallInv'
  <2>1. \/ at' = at /\ pc' = pc
        \/ at' = [at EXCEPT ![c] = Observed(t, r)] /\ pc' = [pc EXCEPT ![c] = "observing"]
           /\ (durable => r \in Origin /\ <<c, r>> \in shown')
    BY <1>o DEF TargetShown, TargetUnproven
  <2>2. /\ UNCHANGED <<durable, store, exec, fire, onLoop, requests, wake>>
        /\ left' \in [Calls -> SUBSET Routes] /\ pc[c] = "sending"
        /\ shown \subseteq shown' /\ shown' \subseteq Calls \X Routes
    BY <1>o DEF TargetShown, TargetUnproven
  <2>3. CASE at' = at /\ pc' = pc
    <3>1. CallKnows(c)'
      BY <2>2, <2>3 DEF CallInv, CallKnows, Identity
    <3>2. CallInv'
      BY <2>2, <2>3, <3>1, OthersKnow
    <3> QED BY <2>2, <2>3, <3>2
  <2>4. CASE /\ at' = [at EXCEPT ![c] = Observed(t, r)] /\ pc' = [pc EXCEPT ![c] = "observing"]
             /\ durable => r \in Origin /\ <<c, r>> \in shown'
    <3>1. at' \in [Calls -> Target] /\ at'[c].route = r
      BY <2>4, ObservedTarget
    <3>2. CallKnows(c)'
      BY <2>2, <2>4, <3>1 DEF CallInv, CallKnows, Identity
    <3>3. CallInv'
      BY <2>2, <2>4, <3>2, OthersKnow
    <3> QED BY <2>2, <2>4, <3>1, <3>3
  <2> QED BY <2>1, <2>3, <2>4
<1>3. ASSUME NEW c \in Calls, NEW t \in Routes, TargetUnproven(c, t) PROVE TypeOK' /\ CallInv'
  <2> HIDE DEF TypeOK
  <2> QED BY <1>3, <1>o
<1>4. ASSUME NEW c \in Calls, NEW t \in Routes, NEW r \in Routes, TargetShown(c, t, r)
      PROVE  TypeOK' /\ CallInv'
  <2> HIDE DEF TypeOK
  <2> QED BY <1>4, <1>o
<1>5. ASSUME NEW c \in Calls, Return(c) PROVE TypeOK' /\ CallInv'
  <2>1. CallKnows(c)'
    BY <1>5 DEF Return, CallInv, CallKnows, Identity
  <2>2. CallInv'
    BY <1>5, <2>1, OthersKnow DEF Return
  <2> QED BY <1>5, <2>2 DEF Return
<1>6. ASSUME NEW c \in Calls, Resolve(c) PROVE TypeOK' /\ CallInv'
  <2>1. CASE up /\ Cardinality(Matches(at[c].route)) = 1
    <3> DEFINE k == CHOOSE k \in Matches(at[c].route) : TRUE
    <3>1. k \in Keys
      BY <2>1, OneMatch
    <3>2. entry[k].sid \in Sessions
      BY <3>1 DEF Entries
    <3>3. /\ at' = [at EXCEPT ![c].key = k, ![c].sid = entry[k].sid]
          /\ pc' = [pc EXCEPT ![c] = IF durable THEN "checking" ELSE "scheduling"]
          /\ pc[c] = "observing"
          /\ UNCHANGED <<durable, store, exec, fire, onLoop, left, shown, requests, wake>>
      BY <1>6, <2>1 DEF Resolve
    <3> HIDE DEF k
    <3>4. at'[c] \in Target
      <4>1. [at[c] EXCEPT !.key = k, !.sid = entry[k].sid] \in Target
        BY <3>1, <3>2, ResolvedTarget
      <4>2. at'[c] = [at[c] EXCEPT !.key = k, !.sid = entry[k].sid]
        BY <3>3
      <4> QED BY <4>1, <4>2
    <3>5. TypeOK'
      BY <3>3, <3>4
    <3>6. at'[c].key = k /\ at'[c].route = at[c].route
      BY <3>3 DEF Target
    <3>7. CallKnows(c)'
      BY <3>1, <3>3, <3>6 DEF CallInv, CallKnows, Identity
    <3>8. CallInv'
      BY <3>3, <3>7, OthersKnow
    <3> QED BY <3>5, <3>8
  <2>2. CASE ~(up /\ Cardinality(Matches(at[c].route)) = 1)
    <3>1. /\ NextTarget(c) /\ pc[c] # "new"
          /\ UNCHANGED <<durable, store, exec, fire, onLoop, left, shown, requests, wake>>
      BY <1>6, <2>2 DEF Resolve
    <3> QED BY <3>1, NextTargetKnows
  <2> QED BY <2>1, <2>2
<1>7. ASSUME NEW c \in Calls, Check(c) PROVE TypeOK' /\ CallInv'
  <2>1. /\ pc[c] = "checking"
        /\ UNCHANGED <<durable, store, exec, fire, onLoop, left, shown, requests, wake>>
    BY <1>7 DEF Check
  <2>2. CASE NextTarget(c)
    BY <2>1, <2>2, NextTargetKnows
  <2>3. CASE Goto(c, "storing") /\ at' = [at EXCEPT ![c].held = at[c].sid]
    <3>1. at[c] \in Target /\ at[c].sid \in Sessions
      BY DEF Target
    <3>2. at'[c] = [at[c] EXCEPT !.held = at[c].sid]
      BY <2>3
    <3>3. at'[c] \in Target
      BY <3>1, <3>2 DEF Target
    <3>4. /\ at'[c].held = at[c].sid /\ at'[c].sid = at[c].sid
          /\ at'[c].route = at[c].route /\ at'[c].key = at[c].key
      BY <3>1, <3>2 DEF Target
    <3>5. CallKnows(c)'
      BY <2>1, <2>3, <3>4 DEF CallInv, CallKnows, Identity, SameOrLate
    <3>6. CallInv'
      BY <2>1, <2>3, <3>5, OthersKnow
    <3> QED BY <2>1, <2>3, <3>3, <3>6
  <2> QED BY <1>7, <2>2, <2>3 DEF Check
<1>8. ASSUME NEW c \in Calls, Store(c) PROVE TypeOK' /\ CallInv'
  <2>1. /\ pc[c] = "storing" /\ NextTarget(c)
        /\ UNCHANGED <<durable, store, exec, fire, onLoop, left, shown, wake>>
    BY <1>8 DEF Store
  <2>2. requests' \subseteq Rows
    <3>1. fire[c] \in Execs \cup Calls /\ at[c].key \in Keys /\ at[c].route \in Routes
      BY <2>1 DEF CallInv, CallKnows, Identity
    <3>2. at[c].held \in Sessions /\ at[c].sid \in Sessions /\ at[c].late \in BOOLEAN
      BY DEF Target
    <3> QED BY <1>8, <3>1, <3>2 DEF Store, Rows
  <2> QED BY <2>1, <2>2, NextTargetKnows
<1>9. ASSUME NEW c \in Calls, Schedule(c) PROVE TypeOK' /\ CallInv'
  <2>1. /\ pc[c] = "scheduling"
        /\ UNCHANGED <<durable, store, exec, fire, onLoop, left, shown, requests>>
        /\ wake' \in [Calls \X Routes -> {"none", "scheduled", "running", "over", "lost"}]
    BY <1>9 DEF Schedule
  <2>2. CASE NextTarget(c)
    BY <2>1, <2>2, NextTargetKnows
  <2>3. CASE Goto(c, "waiting") /\ UNCHANGED at
    <3>1. CallKnows(c)'
      BY <2>1, <2>3 DEF CallInv, CallKnows, Identity
    <3>2. CallInv'
      BY <2>1, <2>3, <3>1, OthersKnow
    <3> QED BY <2>1, <2>3, <3>2
  <2> QED BY <1>9, <2>2, <2>3 DEF Schedule
<1>10. ASSUME NEW c \in Calls, WakeAnswers(c) \/ Timeout(c) PROVE TypeOK' /\ CallInv'
  <2>1. /\ pc[c] = "waiting" /\ NextTarget(c)
        /\ UNCHANGED <<durable, store, exec, fire, onLoop, left, shown, requests, wake>>
    BY <1>10 DEF WakeAnswers, Timeout
  <2> QED BY <2>1, NextTargetKnows
<1>11. ASSUME NEW w \in Calls \X Routes, WakeStarts(w) PROVE TypeOK' /\ CallInv'
  BY <1>11 DEF WakeStarts, CallInv, CallKnows, Identity
<1>12. ASSUME NEW w \in Calls \X Routes, WakeEnds(w) PROVE TypeOK' /\ CallInv'
  BY <1>12 DEF WakeEnds, CallInv, CallKnows, Identity
<1>13. CASE StopOrStart BY <1>13 DEF StopOrStart, CallInv, CallKnows, Identity
<1>14. ASSUME NEW k \in Keys, SessionChanges(k) PROVE TypeOK' /\ CallInv'
  <2>1. UNCHANGED <<durable, up, pc, exec, fire, onLoop, left, shown, requests, wake>>
    BY <1>14 DEF SessionChanges
  <2>2. TypeOK'
    BY <1>14, <2>1, SessionChangeKeeps
  <2>3. ASSUME NEW c \in Calls PROVE CallKnows(c)'
    <3>1. /\ at'[c].route = at[c].route /\ at'[c].key = at[c].key /\ at'[c].sid = at[c].sid
          /\ at'[c].held[1] = at[c].held[1] /\ (at'[c] = at[c] \/ at'[c].late)
      BY <1>14, SessionChangeKeeps
    <3>2. pc[c] = "storing" => at[c].held[1] = at[c].sid[1]
      BY DEF CallInv, CallKnows, SameOrLate
    <3>3. pc[c] = "storing" => SameOrLate(at[c].sid, at[c].held, at[c].late)'
      BY <3>1, <3>2 DEF CallInv, CallKnows, SameOrLate
    <3> QED BY <2>1, <3>1, <3>3 DEF CallInv, CallKnows, Identity
  <2> QED BY <2>2, <2>3 DEF CallInv
<1>15. CASE UNCHANGED vars BY <1>15 DEF vars, CallInv, CallKnows, Identity
<1>16. ASSUME NEW c \in Calls, Deliver(c) PROVE TypeOK' /\ CallInv'
  <2> HIDE DEF TypeOK
  <2> QED BY <1>2, <1>3, <1>4, <1>5, <1>6, <1>7, <1>8, <1>9, <1>10, <1>16 DEF Deliver
<1> HIDE DEF TypeOK
<1> QED BY <1>1, <1>11, <1>12, <1>13, <1>14, <1>15, <1>16 DEF Next

\* No entry is claimed for two routes: a step claims nothing new, or an entry that
\* is its key's for the route that one has, and no entry changes its route.
LEMMA ClaimsKept ==
  ASSUME TypeOK, ClaimInv,
         \A k \in Keys : /\ entry'[k].sid[1] \in Nat
                         /\ \/ /\ entry'[k].sid[1] = entry[k].sid[1]
                               /\ entry'[k].route = entry[k].route
                            \/ entry'[k].sid[1] = entry[k].sid[1] + 1,
         \A k \in Keys, n \in 0..MaxEntries, r \in Routes :
            Claim(k, n, r)' => \/ Claim(k, n, r)
                               \/ /\ n = entry[k].sid[1] /\ r = entry[k].route
                                  /\ entry' = entry
  PROVE  ClaimInv'
<1> SUFFICES ASSUME NEW k \in Keys, NEW n \in 0..MaxEntries, NEW r \in Routes,
                    Claim(k, n, r)'
             PROVE  /\ n <= entry'[k].sid[1]
                    /\ n = entry'[k].sid[1] => r = entry'[k].route
                    /\ \A s \in Routes : Claim(k, n, s)' => r = s
  BY DEF ClaimInv
<1> DEFINE Was(s) == Claim(k, n, s)
           Is(s)  == Claim(k, n, s)'
           now    == entry[k].sid[1]
           next   == entry'[k].sid[1]
<1>1. now \in Nat /\ next \in Nat /\ n \in Nat
  BY SessionParts, CronAssumption DEF TypeOK, Entries
<1>2. (next = now /\ entry'[k].route = entry[k].route) \/ next = now + 1
  OBVIOUS
<1>3. \A s \in Routes : Is(s) => Was(s) \/ (n = now /\ s = entry[k].route /\ entry' = entry)
  OBVIOUS
<1>4. \A s \in Routes : Was(s) => /\ n <= now
                                  /\ n = now => s = entry[k].route
                                  /\ \A t \in Routes : Was(t) => s = t
  BY DEF ClaimInv
<1>5. Is(r)
  OBVIOUS
<1>6. entry' = entry => next = now
  OBVIOUS
<1> HIDE DEF Was, Is, now, next
<1>7. n <= now /\ (n = now => r = entry[k].route)
  BY <1>1, <1>3, <1>4, <1>5
<1>8. n <= next /\ (n = next => r = entry'[k].route)
  BY <1>1, <1>2, <1>7
<1>9. \A s \in Routes : Is(s) => r = s
  BY <1>3, <1>4, <1>5
<1> QED BY <1>8, <1>9 DEF Is, next

\* A step adds at most the row of one call: it holds what it resolved where its text
\* was shown, finds no row like it, and its entry is claimed for its route alone.
LEMMA RowsInductive ==
  IInv /\ [Next]_vars => RowInv' /\ ClaimInv' /\ WakesWhereShown' /\ OncePerExecution'
<1> DEFINE Rest == RowInv' /\ ClaimInv' /\ WakesWhereShown' /\ OncePerExecution'
<1> SUFFICES ASSUME IInv, [Next]_vars PROVE Rest
  OBVIOUS
<1> USE CronAssumption DEF IInv
<1>e. \A k \in Keys : entry[k].sid[1] \in Nat
  BY SessionParts DEF TypeOK, Entries
<1>r. \A q \in requests : /\ q.call \in Calls /\ q.key \in Keys /\ q.route \in Routes
                          /\ q.sid[1] \in 0..MaxEntries /\ q.fire \in Execs \cup Calls
  BY SessionParts DEF TypeOK, Rows
<1>c. \A c \in Calls : at[c] \in Target /\ at[c].held[1] \in 0..MaxEntries
  BY SessionParts DEF TypeOK, Target
\* A step without a new row keeps the rows' part when it keeps who the calls are.
<1>q. ASSUME requests' = requests, shown \subseteq shown',
             \A c \in Calls : pc[c] # "new" => pc'[c] # "new" /\ exec'[c] = exec[c]
      PROVE  RowInv' /\ WakesWhereShown' /\ OncePerExecution'
  <2>1. \A q \in requests : pc'[q.call] # "new" /\ exec'[q.call] = exec[q.call]
    BY <1>q, <1>r DEF RowInv
  <2>2. RowInv'
    BY <1>q, <2>1 DEF RowInv, Identity
  <2>3. WakesWhereShown'
    BY <1>q DEF WakesWhereShown
  <2>4. \A q, p \in requests : SameRun(q.call, p.call)' => SameRun(q.call, p.call)
    BY <2>1 DEF SameRun
  <2>5. OncePerExecution'
    BY <1>q, <2>4 DEF OncePerExecution
  <2> QED BY <2>2, <2>3, <2>5
\* And the claims when no call comes to store with what it did not hold.
<1>h. ASSUME requests' = requests, entry' = entry,
             \A c \in Calls : pc'[c] = "storing" => pc[c] = "storing" /\ at'[c] = at[c]
      PROVE  ClaimInv'
  <2>1. \A k \in Keys, n \in 0..MaxEntries, r \in Routes : Claim(k, n, r)' => Claim(k, n, r)
    BY <1>h DEF Claim
  <2> QED BY <1>e, <1>h, <2>1, ClaimsKept
<1>1. ASSUME NEW c \in Calls, NEW x \in Execs \cup {None}, NEW targets \in Fanouts,
             NEW enabled \in BOOLEAN, Start(c, x, targets, enabled)
      PROVE  Rest
  <2>1. /\ exec' = [exec EXCEPT ![c] = x] /\ pc' = [pc EXCEPT ![c] = "sending"]
        /\ pc[c] = "new" /\ UNCHANGED <<entry, at, shown, requests>>
    BY <1>1 DEF Start, Enter, Goto, store
  <2>2. \A b \in Calls : /\ pc[b] # "new" => pc'[b] # "new" /\ exec'[b] = exec[b]
                         /\ pc'[b] = "storing" => pc[b] = "storing" /\ at'[b] = at[b]
    BY <2>1 DEF TypeOK
  <2> QED BY <1>q, <1>h, <2>1, <2>2
<1>2. ASSUME NEW c \in Calls, NEW t \in Routes,
             TargetFails(c, t) \/ TargetUnproven(c, t) \/ \E r \in Routes : TargetShown(c, t, r)
      PROVE  Rest
  <2>1. /\ UNCHANGED <<entry, exec, requests>> /\ shown \subseteq shown'
        /\ pc[c] = "sending" /\ pc'[c] \in {"sending", "observing"}
        /\ \A b \in Calls \ {c} : pc'[b] = pc[b] /\ at'[b] = at[b]
    BY <1>2 DEF TargetFails, TargetUnproven, TargetShown, Goto, TypeOK, store
  <2>2. \A b \in Calls : /\ pc[b] # "new" => pc'[b] # "new" /\ exec'[b] = exec[b]
                         /\ pc'[b] = "storing" => pc[b] = "storing" /\ at'[b] = at[b]
    BY <2>1
  <2> QED BY <1>q, <1>h, <2>1, <2>2
<1>3. ASSUME NEW c \in Calls,
             Return(c) \/ Resolve(c) \/ Schedule(c) \/ WakeAnswers(c) \/ Timeout(c)
      PROVE  Rest
  <2>1. /\ UNCHANGED <<entry, exec, requests, shown>>
        /\ pc[c] # "new" /\ pc'[c] \in {"sending", "checking", "scheduling", "waiting", "done"}
        /\ \A b \in Calls \ {c} : pc'[b] = pc[b] /\ at'[b] = at[b]
    BY <1>3 DEF Return, Resolve, Schedule, WakeAnswers, Timeout, NextTarget, Goto, TypeOK, store
  <2>2. \A b \in Calls : /\ pc[b] # "new" => pc'[b] # "new" /\ exec'[b] = exec[b]
                         /\ pc'[b] = "storing" => pc[b] = "storing" /\ at'[b] = at[b]
    BY <2>1
  <2> QED BY <1>q, <1>h, <2>1, <2>2
<1>4. ASSUME NEW c \in Calls, Check(c) PROVE Rest
  <2>1. /\ UNCHANGED <<entry, exec, requests, shown>>
        /\ pc[c] = "checking" /\ pc'[c] \in {"sending", "storing"}
        /\ \A b \in Calls \ {c} : pc'[b] = pc[b] /\ at'[b] = at[b]
    BY <1>4 DEF Check, NextTarget, Goto, TypeOK, store
  <2>2. \A b \in Calls : pc[b] # "new" => pc'[b] # "new" /\ exec'[b] = exec[b]
    BY <2>1
  <2>3. CASE pc'[c] # "storing"
    <3>1. \A b \in Calls : pc'[b] = "storing" => pc[b] = "storing" /\ at'[b] = at[b]
      BY <2>1, <2>3
    <3> QED BY <1>q, <1>h, <2>1, <2>2, <3>1
  <2>4. CASE pc'[c] = "storing"
    <3>1. /\ entry[at[c].key] = [sid |-> at[c].sid, route |-> at[c].route]
          /\ at' = [at EXCEPT ![c].held = at[c].sid]
      BY <1>4, <2>1, <2>4 DEF Check, NextTarget, Goto, TypeOK
    <3>2. /\ at'[c].key = at[c].key /\ at'[c].route = at[c].route
          /\ at'[c].held[1] = entry[at[c].key].sid[1]
          /\ at[c].route = entry[at[c].key].route
      BY <1>c, <3>1 DEF TypeOK, Target
    <3>3. \A k \in Keys, n \in 0..MaxEntries, r \in Routes :
            Claim(k, n, r)' => \/ Claim(k, n, r)
                               \/ n = entry[k].sid[1] /\ r = entry[k].route
      BY <2>1, <3>2 DEF Claim
    <3>4. ClaimInv'
      BY <1>e, <2>1, <3>3, ClaimsKept
    <3> QED BY <1>q, <2>1, <2>2, <3>4
  <2> QED BY <2>3, <2>4
<1>5. ASSUME NEW c \in Calls, Store(c) PROVE Rest
  <2>1. /\ UNCHANGED <<entry, exec, fire, shown>> /\ pc[c] = "storing" /\ pc'[c] = "sending"
        /\ \A b \in Calls \ {c} : pc'[b] = pc[b] /\ at'[b] = at[b]
    BY <1>5 DEF Store, NextTarget, Goto, TypeOK, store
  <2>2. \A b \in Calls : /\ pc[b] # "new" => pc'[b] # "new" /\ exec'[b] = exec[b]
                         /\ pc'[b] = "storing" => pc[b] = "storing" /\ at'[b] = at[b]
    BY <2>1
  <2>3. CASE requests' = requests
    BY <1>q, <1>h, <2>1, <2>2, <2>3
  <2>4. CASE requests' # requests
    <3> DEFINE new == [call |-> c, fire |-> fire[c], key |-> at[c].key,
                       route |-> at[c].route, sid |-> at[c].held, found |-> at[c].sid,
                       late |-> at[c].late]
    <3>1. Known(c) = {} /\ requests' = requests \cup {new}
      BY <1>5, <2>4 DEF Store
    <3>2. /\ at[c].route \in Routes \cap Origin /\ <<c, at[c].route>> \in shown
          /\ at[c].key \in Keys /\ fire[c] = Identity(c)
          /\ SameOrLate(at[c].sid, at[c].held, at[c].late)
      BY <2>1 DEF CallInv, CallKnows
    <3>3. /\ new.call = c /\ new.fire = fire[c] /\ new.key = at[c].key
          /\ new.route = at[c].route /\ new.sid = at[c].held /\ new.found = at[c].sid
          /\ new.late = at[c].late
      OBVIOUS
    <3> HIDE DEF new
    <3>4. RowInv'
      BY <1>r, <2>1, <2>2, <3>1, <3>2, <3>3 DEF RowInv, Identity
    <3>5. WakesWhereShown'
      BY <2>1, <3>1, <3>2, <3>3 DEF WakesWhereShown, SameOrLate
    <3>6. \A k \in Keys, n \in 0..MaxEntries, r \in Routes : Claim(k, n, r)' => Claim(k, n, r)
      BY <2>1, <2>2, <3>1, <3>3 DEF Claim
    <3>7. ClaimInv'
      BY <1>e, <2>1, <3>6, ClaimsKept
    <3>8. \A b \in Calls : SameRun(c, b) \/ SameRun(b, c) => Identity(b) = Identity(c)
      BY DEF SameRun, Identity
    <3>9. ASSUME NEW q \in requests, SameRun(q.call, c) \/ SameRun(c, q.call),
                 q.key = at[c].key,
                 q.route = at[c].route \/ q.sid[1] = at[c].held[1]
          PROVE  FALSE
      <4>1. q.fire = fire[c]
        BY <1>r, <3>2, <3>8, <3>9 DEF RowInv
      <4>2. q.route = at[c].route
        <5>1. CASE q.sid[1] = at[c].held[1]
          <6>1. /\ Claim(q.key, q.sid[1], q.route)
                /\ Claim(q.key, q.sid[1], at[c].route)
            BY <2>1, <3>9, <5>1 DEF Claim
          <6>2. q.key \in Keys /\ q.sid[1] \in 0..MaxEntries /\ q.route \in Routes
            BY <1>r
          <6> QED BY <3>2, <6>1, <6>2 DEF ClaimInv
        <5> QED BY <3>9, <5>1
      <4>3. q \in Known(c)
        BY <3>9, <4>1, <4>2 DEF Known
      <4> QED BY <3>1, <4>3
    <3>10. OncePerExecution'
      <4> SUFFICES ASSUME NEW q \in requests', NEW p \in requests',
                          SameRun(q.call, p.call)', q.key = p.key,
                          q.route = p.route \/ q.sid[1] = p.sid[1]
                   PROVE  q = p
        BY DEF OncePerExecution
      <4>1. SameRun(q.call, p.call)
        BY <2>1 DEF SameRun
      <4>2. CASE q \in requests /\ p \in requests
        BY <4>1, <4>2 DEF OncePerExecution
      <4>3. CASE q \in requests /\ p = new
        BY <3>3, <3>9, <4>1, <4>3
      <4>4. CASE q = new /\ p \in requests
        BY <3>3, <3>9, <4>1, <4>4
      <4> QED BY <3>1, <4>2, <4>3, <4>4
    <3> QED BY <3>4, <3>5, <3>7, <3>10
  <2> QED BY <2>3, <2>4
<1>6. ASSUME NEW k \in Keys, SessionChanges(k) PROVE Rest
  <2>1. UNCHANGED <<pc, exec, shown, requests>>
    BY <1>6 DEF SessionChanges
  <2>2. \A j \in Keys : entry'[j].sid[1] \in Nat
    BY <1>6, SessionChangeKeeps, SessionParts DEF Entries
  <2>3. \A j \in Keys, n \in 0..MaxEntries, r \in Routes : Claim(j, n, r)' => Claim(j, n, r)
    BY <1>6, <2>1, SessionChangeKeeps DEF Claim
  <2>4. ClaimInv'
    BY <1>6, <2>2, <2>3, SessionChangeKeeps, ClaimsKept
  <2> QED BY <1>q, <2>1, <2>4
<1>7. CASE \/ \E w \in Calls \X Routes : WakeStarts(w) \/ WakeEnds(w)
           \/ StopOrStart \/ UNCHANGED vars
  <2>1. UNCHANGED <<entry, pc, exec, at, shown, requests>>
    BY <1>7 DEF WakeStarts, WakeEnds, StopOrStart, vars, store
  <2> QED BY <1>q, <1>h, <2>1
<1>8. ASSUME NEW c \in Calls, Deliver(c) PROVE Rest
  <2> HIDE DEF IInv, Rest
  <2> QED BY <1>2, <1>3, <1>4, <1>5, <1>8 DEF Deliver
<1> HIDE DEF IInv, Rest
<1> QED BY <1>1, <1>6, <1>7, <1>8 DEF Next

\* IInv holds in every state deliveries, sessions and gateway can reach.
LEMMA CronInvariant == Spec => []IInv
<1>1. Init => IInv
  <2> SUFFICES ASSUME Init PROVE IInv
    OBVIOUS
  <2>1. <<0, 0>> \in Sessions
    BY SessionParts, CronAssumption
  <2>2. entry \in [Keys -> Entries]
    BY <2>1 DEF Init, Entries
  <2>3. TypeOK
    BY <2>2, ObservedTarget DEF Init, TypeOK
  <2>4. CallInv /\ RowInv /\ ClaimInv
    BY DEF Init, CallInv, CallKnows, RowInv, ClaimInv, Claim
  <2>5. WakesWhereShown /\ OncePerExecution
    BY DEF Init, WakesWhereShown, OncePerExecution
  <2> QED BY <2>3, <2>4, <2>5 DEF IInv
<1>2. IInv /\ [Next]_vars => IInv'
  BY CallsInductive, RowsInductive DEF IInv
<1> QED BY <1>1, <1>2, PTL DEF Spec

\* Every variable keeps its type, whatever targets, sessions and gateway do.
THEOREM CronTypes == Spec => []TypeOK
<1>1. IInv => TypeOK BY DEF IInv
<1> QED BY <1>1, CronInvariant, PTL

\* A row the current host's wrapper stores names a route of the job's own chat where
\* its call showed the text for certain, and the session that call had found there,
\* however entries are replaced, moved and reset meanwhile: a reset in place while the
\* entry is held for the insert leaves at least the entry the same.
THEOREM AlwaysWhereShown == Spec => []WakesWhereShown
<1>1. IInv => WakesWhereShown BY DEF IInv
<1> QED BY <1>1, CronInvariant, PTL

\* One execution never asks one conversation twice, though its calls are repeated,
\* its targets flatten to one route, and sessions are reset or replaced between: the
\* rows' identity is the execution's, and no entry is ever claimed for two routes.
THEOREM AlwaysOncePerExecution == Spec => []OncePerExecution
<1>1. IInv => OncePerExecution BY DEF IInv
<1> QED BY <1>1, CronInvariant, PTL
-----------------------------------------------------------------------------
(* A wake that was handed over is not touched by the calls.                *)

\* A call hands over at most one wake for each target it was asked to deliver
\* to: none for those it has not been at.
AskInv ==
  \A c \in Calls :
     /\ pc[c] = "new" => \A r \in Routes : wake[<<c, r>>] = "none"
     /\ \A r \in left[c] : wake[<<c, r>>] = "none"
     /\ pc[c] \in {"observing", "scheduling"} =>
          at[c].asked \in Routes \ left[c] /\ wake[here(c)] = "none"

\* A step of a call keeps it when it hands nothing over.
LEMMA AskStays ==
  ASSUME TypeOK, AskInv, NEW c \in Calls, wake' = wake, pc[c] # "new", pc'[c] # "new",
         \A b \in Calls \ {c} : pc'[b] = pc[b] /\ left'[b] = left[b] /\ at'[b] = at[b],
         left'[c] \subseteq left[c],
         pc'[c] \in {"observing", "scheduling"} =>
           at'[c].asked \in Routes \ left'[c] /\ wake[<<c, at'[c].asked>>] = "none"
  PROVE  AskInv'
<1> SUFFICES ASSUME NEW b \in Calls
             PROVE  /\ pc'[b] = "new" => \A r \in Routes : wake[<<b, r>>] = "none"
                    /\ \A r \in left'[b] : wake[<<b, r>>] = "none"
                    /\ pc'[b] \in {"observing", "scheduling"} =>
                         at'[b].asked \in Routes \ left'[b] /\ wake[<<b, at'[b].asked>>] = "none"
  BY DEF AskInv, here
<1>1. CASE b = c
  BY <1>1 DEF AskInv
<1>2. CASE b # c
  BY <1>2 DEF AskInv, here
<1> QED BY <1>1, <1>2

LEMMA AskInductive == TypeOK /\ AskInv /\ [Next]_vars => AskInv'
<1> SUFFICES ASSUME TypeOK, AskInv, [Next]_vars PROVE AskInv'
  OBVIOUS
<1> USE DEF TypeOK, Goto, NextTarget
<1>1. ASSUME NEW c \in Calls, NEW x \in Execs \cup {None}, NEW targets \in Fanouts,
             NEW enabled \in BOOLEAN, Start(c, x, targets, enabled)
      PROVE  AskInv'
  <2>1. /\ pc[c] = "new" /\ pc'[c] = "sending" /\ wake' = wake /\ at' = at
        /\ left'[c] \subseteq Routes
        /\ \A b \in Calls \ {c} : pc'[b] = pc[b] /\ left'[b] = left[b]
    BY <1>1, CronAssumption DEF Start, Enter
  <2> QED BY <2>1 DEF AskInv, here
<1>2. ASSUME NEW c \in Calls, NEW t \in Routes,
             TargetFails(c, t) \/ TargetUnproven(c, t) \/ \E r \in Routes : TargetShown(c, t, r)
      PROVE  AskInv'
  <2>1. /\ pc[c] = "sending" /\ t \in left[c] /\ wake' = wake
        /\ left' = [left EXCEPT ![c] = @ \ {t}]
    BY <1>2 DEF TargetFails, TargetUnproven, TargetShown
  <2>2. \/ pc' = pc /\ at' = at
        \/ \E r \in Routes :
              /\ at' = [at EXCEPT ![c] = Observed(t, r)]
              /\ pc' = [pc EXCEPT ![c] = "observing"]
    BY <1>2 DEF TargetFails, TargetUnproven, TargetShown
  <2>3. /\ left'[c] = left[c] \ {t} /\ wake[<<c, t>>] = "none"
        /\ \A b \in Calls \ {c} : pc'[b] = pc[b] /\ left'[b] = left[b] /\ at'[b] = at[b]
    BY <2>1, <2>2 DEF AskInv
  <2>4. pc'[c] = "sending" \/ (pc'[c] = "observing" /\ at'[c].asked = t)
    BY <2>1, <2>2, ObservedTarget
  <2> HIDE DEF TypeOK
  <2> QED BY <2>1, <2>3, <2>4, AskStays
<1>3. ASSUME NEW c \in Calls, Resolve(c) PROVE AskInv'
  <2>1. /\ pc[c] = "observing" /\ wake' = wake /\ left' = left
        /\ \A b \in Calls \ {c} : pc'[b] = pc[b] /\ at'[b] = at[b]
        /\ pc'[c] \in {"sending", "checking", "scheduling"}
    BY <1>3 DEF Resolve
  <2>2. pc'[c] # "sending" => at'[c].asked = at[c].asked
    BY <1>3 DEF Resolve, Target
  <2>3. at[c].asked \in Routes \ left[c] /\ wake[<<c, at[c].asked>>] = "none"
    BY <2>1 DEF AskInv, here
  <2> HIDE DEF TypeOK
  <2> QED BY <2>1, <2>2, <2>3, AskStays
<1>4. ASSUME NEW c \in Calls, Return(c) \/ Check(c) \/ Store(c) \/ WakeAnswers(c) \/ Timeout(c)
      PROVE  AskInv'
  <2>1. /\ pc[c] # "new" /\ wake' = wake /\ left' = left
        /\ \A b \in Calls \ {c} : pc'[b] = pc[b] /\ at'[b] = at[b]
        /\ pc'[c] \in {"sending", "storing", "done"}
    BY <1>4 DEF Return, Check, Store, WakeAnswers, Timeout
  <2> HIDE DEF TypeOK
  <2> QED BY <2>1, AskStays
<1>5. ASSUME NEW c \in Calls, Schedule(c) PROVE AskInv'
  <2>1. /\ pc[c] = "scheduling" /\ left' = left
        /\ \A b \in Calls \ {c} : pc'[b] = pc[b] /\ at'[b] = at[b]
        /\ pc'[c] \in {"sending", "waiting"}
        /\ wake' = wake \/ wake' = [wake EXCEPT ![here(c)] = "scheduled"]
    BY <1>5 DEF Schedule
  <2>2. at[c].asked \notin left[c]
    BY <2>1 DEF AskInv
  <2>3. \A b \in Calls, r \in Routes : b # c \/ r \in left[c] => wake'[<<b, r>>] = wake[<<b, r>>]
    BY <2>1, <2>2 DEF here
  <2> SUFFICES ASSUME NEW b \in Calls
               PROVE  /\ pc'[b] = "new" => \A r \in Routes : wake'[<<b, r>>] = "none"
                      /\ \A r \in left[b] : wake'[<<b, r>>] = "none"
                      /\ pc'[b] \in {"observing", "scheduling"} =>
                           at'[b].asked \in Routes \ left[b] /\ wake'[<<b, at'[b].asked>>] = "none"
    BY <2>1 DEF AskInv, here
  <2>4. CASE b = c
    BY <2>1, <2>3, <2>4 DEF AskInv
  <2>5. CASE b # c
    BY <2>1, <2>3, <2>5 DEF AskInv, here
  <2> QED BY <2>4, <2>5
<1>6. ASSUME UNCHANGED <<pc, left, at>>,
             \A w \in Calls \X Routes : wake[w] = "none" => wake'[w] = "none"
      PROVE  AskInv'
  BY <1>6 DEF AskInv, here
<1>7. ASSUME NEW w \in Calls \X Routes, WakeStarts(w) \/ WakeEnds(w) PROVE AskInv'
  BY <1>6, <1>7 DEF WakeStarts, WakeEnds
<1>8. CASE StopOrStart
  BY <1>6, <1>8 DEF StopOrStart
<1>9. CASE UNCHANGED vars
  BY <1>6, <1>9 DEF vars
<1>11. ASSUME NEW k \in Keys, SessionChanges(k) PROVE AskInv'
  <2>1. UNCHANGED <<pc, left, wake>>
    BY <1>11 DEF SessionChanges
  <2>2. \A c \in Calls : at'[c].asked = at[c].asked
    BY <1>11, SessionChangeKeeps
  <2> QED BY <2>1, <2>2 DEF AskInv, here
<1>10. ASSUME NEW c \in Calls, Deliver(c) PROVE AskInv'
  BY <1>2, <1>3, <1>4, <1>5, <1>10 DEF Deliver
<1> QED BY <1>1, <1>7, <1>8, <1>9, <1>10, <1>11 DEF Next

\* _schedule_wake and its sixty seconds: no step of a delivery call takes a
\* handed-over wake back, replaces it or ends it, however the targets of
\* several calls, the gateway and the sessions interleave.
THEOREM HandedOverStays == Spec => HandedOverIsKept
<1>1. Init => AskInv
  BY DEF Init, AskInv
<1>2. TypeOK /\ AskInv /\ [Next]_vars =>
        [\A w \in Calls \X Routes :
           wake[w] \in {"scheduled", "running"} /\ pc' # pc => wake'[w] = wake[w]]_vars
  <2> SUFFICES ASSUME TypeOK, AskInv, Next, pc' # pc, NEW w \in Calls \X Routes,
                      wake[w] \in {"scheduled", "running"}
               PROVE  wake'[w] = wake[w]
    BY DEF vars
  <2>1. ASSUME NEW c \in Calls, Schedule(c) PROVE wake'[w] = wake[w]
    <3>1. wake[here(c)] = "none"
      BY <2>1 DEF Schedule, AskInv
    <3>2. w # here(c)
      BY <3>1
    <3>3. wake' = wake \/ wake' = [wake EXCEPT ![here(c)] = "scheduled"]
      BY <2>1 DEF Schedule
    <3> QED BY <3>2, <3>3 DEF TypeOK
  <2>2. wake' = wake \/ \E c \in Calls : Schedule(c)
    BY DEF Next, Deliver, Start, Enter, TargetFails, TargetUnproven, TargetShown, Return, Resolve,
           Check, Store, WakeAnswers, Timeout, WakeStarts, WakeEnds, StopOrStart,
           SessionChanges
  <2> QED BY <2>1, <2>2
<1> QED BY <1>1, <1>2, AskInductive, CronTypes, PTL DEF Spec, HandedOverIsKept
=============================================================================
