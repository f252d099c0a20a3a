-------------------------- MODULE NativeWakeProofs --------------------------
(***************************************************************************)
(* Proofs about NativeWake, for any number of sessions, events, attempts,  *)
(* resets and faults.                                                      *)
(***************************************************************************)
EXTENDS NativeWake, TLAPS

\* No step of native_wake.py, its callers, its host or a fault breaks a type.
LEMMA TypeStep == TypeOK /\ [Next]_vars => TypeOK'
<1> USE ConstantsAssumption
<1> SUFFICES ASSUME TypeOK, [Next]_vars PROVE TypeOK'
  OBVIOUS
<1> USE DEF TypeOK, Goto, Tell, Finish, Event, Key, host, Row, Job
<1>1. ASSUME NEW a \in Attempts, Call(a) PROVE TypeOK'
  <2> PICK e \in Events, p \in Payloads, sid \in {None} \cup 0..MaxResets,
           route \in {None} \cup Routes : Pin(a, e, p, sid, route)
    BY <1>1 DEF Call
  <2>1. job' \in [Attempts -> Jobs]
    BY DEF Pin, Jobs, Sessions
  <2> QED BY <2>1 DEF Pin, Labels, Answers
<1>2. ASSUME NEW a \in Attempts, Step(a) PROVE TypeOK'
  <2> USE DEF Labels, Answers, Accepted, Confirmed, Statuses
  <2>1. CASE ClaimConflicts(a) BY <2>1 DEF ClaimConflicts
  <2>2. CASE ClaimOwns(a)
    BY <2>2 DEF ClaimOwns, Receipts, Jobs, Conflicts, Retryable
  <2>3. CASE ClaimObserves(a)
    <3>1. job' \in [Attempts -> Jobs]
      BY <2>3 DEF ClaimObserves, Receipts, Jobs
    <3> QED BY <2>3, <3>1 DEF ClaimObserves
  <2>4. CASE MarkDispatching(a)
    <3>1. receipt' \in [Events -> Receipts]
      BY <2>4 DEF MarkDispatching, Transition, Receipts
    <3>2. job' \in [Attempts -> Jobs]
      BY <2>4 DEF MarkDispatching, Jobs
    <3> QED BY <2>4, <3>1, <3>2 DEF MarkDispatching
  <2>5. CASE AdmitStarts(a) BY <2>5 DEF AdmitStarts
  <2>6. CASE AdmitRefused(a) BY <2>6 DEF AdmitRefused
  <2>7. CASE RecordRefusal(a)
    BY <2>7 DEF RecordRefusal, Transition, Receipts
  <2>8. CASE RecordDoubt(a)
    BY <2>8 DEF RecordDoubt, Transition, Receipts
  <2>9. CASE SettleRead(a) BY <2>9 DEF SettleRead
  <2>10. CASE SettleFound(a)
    BY <2>10 DEF SettleFound, Transition, Receipts
  <2>11. CASE SettleUnsure(a)
    BY <2>11 DEF SettleUnsure, Transition, Receipts
  <2>12. CASE ReadTranscript(a) BY <2>12 DEF ReadTranscript
  <2>13. CASE Reconcile(a)
    BY <2>13 DEF Reconcile, Receipts
  <2> QED BY <1>2, <2>1, <2>2, <2>3, <2>4, <2>5, <2>6, <2>7, <2>8, <2>9,
             <2>10, <2>11, <2>12, <2>13 DEF Step
<1>3. ASSUME NEW a \in Attempts, Turn(a) PROVE TypeOK'
  BY <1>3 DEF Turn, PersistWake, PersistReply, TurnEnds
<1>4. ASSUME NEW a \in Attempts, Fault(a) PROVE TypeOK'
  BY <1>4 DEF Fault, CallerCancelled, AdmitUnclear, SettleInterrupted,
              DatabaseFails, Labels, Answers
<1>5. CASE World
  <2>1. ASSUME NEW k \in Keys, ForeignTurn(k) PROVE TypeOK'
    BY <2>1 DEF ForeignTurn
  <2>2. ASSUME NEW k \in Keys, Reset(k) PROVE TypeOK'
    BY <2>2 DEF Reset, Sessions
  <2>3. ASSUME NEW k \in Keys, NEW r \in Routes, Reroute(k, r) PROVE TypeOK'
    BY <2>3 DEF Reroute, Sessions
  <2>4. ASSUME NEW d \in Adapters \cup {None}, SwapAdapter(d) PROVE TypeOK'
    BY <2>4 DEF SwapAdapter
  <2>5. CASE OpenOrClose BY <2>5 DEF OpenOrClose
  <2>6. ASSUME NEW e \in Events, Age(e) PROVE TypeOK'
    BY <2>6 DEF Age, Receipts
  <2> QED BY <1>5, <2>1, <2>2, <2>3, <2>4, <2>5, <2>6 DEF World
<1>6. CASE Crash BY <1>6 DEF Crash, Labels, Answers
<1>7. CASE UNCHANGED vars BY <1>7 DEF vars
<1> QED BY <1>1, <1>2, <1>3, <1>4, <1>5, <1>6, <1>7 DEF Next

\* Every variable keeps its type, whatever the receivers, callers, host and
\* database of native_wake.py do.
THEOREM TypeCorrect == Spec => []TypeOK
<1>1. Init => TypeOK
  BY ConstantsAssumption
  DEF Init, TypeOK, Row, Job, NoReceipt, NoJob, Receipts, Jobs, Sessions, Statuses, Labels, Answers
<1> QED BY <1>1, TypeStep, PTL DEF Spec

-----------------------------------------------------------------------------
(* The inductive invariant: who may write a receipt at which point.        *)

\* A token names an attempt at its own event, past the claim.
ClaimInv ==
  \A e \in Events : claim[e] # None =>
     /\ Event(claim[e]) = e
     /\ pc[claim[e]] \notin {"new", "pinned", "reading", "reconciling"}
     /\ receipt[e].status # "absent"

\* The receipt is bound to what attempt a pinned.
Bound(a) == /\ claim[Event(a)] = a
            /\ receipt[Event(a)].sid = job[a].sid
            /\ receipt[Event(a)].payload = job[a].payload

\* An admitted attempt holds the token for ever, and its receipt is in doubt
\* or confirmed: nobody can reclaim it.
AdmittedInv ==
  \A a \in Attempts : Admitted(a) =>
     /\ Event(a) \in Events
     /\ Bound(a)
     /\ receipt[Event(a)].status \in InDoubt \cup Confirmed
     /\ pc[a] \in {"doubtful", "admitted", "found", "unsure", "done"}

WroteInv == \A a \in Attempts : wrote[a] # "nothing" => Admitted(a)

\* Before dispatching the owner may be fenced; afterwards it cannot be.
OwnerInv ==
  \A a \in Attempts :
     /\ pc[a] = "owner" /\ claim[Event(a)] = a =>
          Bound(a) /\ receipt[Event(a)].status = "requested"
     /\ pc[a] \in {"dispatching", "refused"} =>
          Bound(a) /\ receipt[Event(a)].status = "dispatching"
     /\ pc[a] \in {"doubtful", "admitted", "found", "unsure"} =>
          Bound(a) /\ receipt[Event(a)].status \in {"dispatching", "dispatched"}
     /\ pc[a] \in {"admitted", "found", "unsure"} => Admitted(a)

\* The token holder of event e persisted the row with its marker.
Evident(e) == claim[e] # None /\ wrote[claim[e]] # "nothing"

EvidenceInv ==
  \A e \in Events :
     /\ receipt[e].injected <=> receipt[e].status \in Confirmed
     /\ receipt[e].status \in Confirmed => Evident(e)
     /\ receipt[e].status = "agent_responded" => wrote[claim[e]] = "reply"

ReaderInv ==
  \A a \in Attempts :
     /\ pc[a] = "found" => wrote[a] # "nothing"
     /\ pc[a] = "reconciling" => Evident(Event(a))

AnswerInv ==
  \A a \in Attempts : answer[a] \in Accepted =>
     /\ Event(a) \in Events
     /\ receipt[Event(a)].status \in Confirmed
     /\ pc[a] = "done"

IInv == /\ TypeOK /\ ClaimInv /\ AdmittedInv /\ WroteInv
        /\ OwnerInv /\ EvidenceInv /\ ReaderInv /\ AnswerInv

\* IInv is inductive, given that the types hold after the step: no action of an
\* attempt, the host, the callers or a fault breaks the claim discipline.
LEMMA Inductive == IInv /\ TypeOK' /\ [Next]_vars => IInv'
<1> SUFFICES ASSUME IInv, TypeOK', [Next]_vars PROVE IInv'
  OBVIOUS
<1> USE ConstantsAssumption
        DEF IInv, TypeOK, ClaimInv, AdmittedInv, WroteInv, OwnerInv, EvidenceInv,
            ReaderInv, AnswerInv, Bound, Evident, Admitted, Goto, Tell, Finish,
            Event, InDoubt, Confirmed, Accepted, host, Row, Job
<1>1. ASSUME NEW a \in Attempts, Call(a) PROVE IInv'
  <2> PICK e \in Events, p \in Payloads, sid \in {None} \cup 0..MaxResets,
           route \in {None} \cup Routes : Pin(a, e, p, sid, route)
    BY <1>1 DEF Call
  <2> QED BY DEF Pin
<1>2. ASSUME NEW a \in Attempts, ClaimConflicts(a) PROVE IInv'
  BY <1>2 DEF ClaimConflicts
<1>3. ASSUME NEW a \in Attempts, ClaimOwns(a) PROVE IInv'
  BY <1>3 DEF ClaimOwns, Conflicts, Retryable
<1>4. ASSUME NEW a \in Attempts, ClaimObserves(a) PROVE IInv'
  BY <1>4 DEF ClaimObserves, Conflicts, Retryable, Receipts, Jobs
<1>5. ASSUME NEW a \in Attempts, MarkDispatching(a) PROVE IInv'
  BY <1>5 DEF MarkDispatching, Transition
<1>6. ASSUME NEW a \in Attempts, AdmitStarts(a) PROVE IInv'
  BY <1>6 DEF AdmitStarts
<1>7. ASSUME NEW a \in Attempts, AdmitRefused(a) PROVE IInv'
  BY <1>7 DEF AdmitRefused
<1>8. ASSUME NEW a \in Attempts, RecordRefusal(a) PROVE IInv'
  BY <1>8 DEF RecordRefusal, Transition
<1>9. ASSUME NEW a \in Attempts, RecordDoubt(a) PROVE IInv'
  BY <1>9 DEF RecordDoubt, Transition
<1>10. ASSUME NEW a \in Attempts, SettleRead(a) PROVE IInv'
  <2>1. pc'[a] = "found" => wrote[a] # "nothing"
    <3> SUFFICES ASSUME NEW b \in Attempts, Marked(Event(a), job[a].sid) = {b}
                 PROVE  b = a
      BY <1>10 DEF SettleRead, Exact, Marked
    <3> QED BY <1>10 DEF SettleRead, Marked
  <2>2. ReaderInv' BY <1>10, <2>1 DEF SettleRead
  <2> QED BY <1>10, <2>2 DEF SettleRead
<1>11. ASSUME NEW a \in Attempts, SettleFound(a) PROVE IInv'
  BY <1>11 DEF SettleFound, Transition
<1>12. ASSUME NEW a \in Attempts, SettleUnsure(a) PROVE IInv'
  BY <1>12 DEF SettleUnsure, Transition
<1>13. ASSUME NEW a \in Attempts, ReadTranscript(a) PROVE IInv'
  BY <1>13 DEF ReadTranscript, Exact, Marked
<1>14. ASSUME NEW a \in Attempts, Reconcile(a) PROVE IInv'
  BY <1>14 DEF Reconcile
<1>15. ASSUME NEW a \in Attempts, PersistWake(a) PROVE IInv'
  BY <1>15 DEF PersistWake
<1>16. ASSUME NEW a \in Attempts, PersistReply(a) PROVE IInv'
  BY <1>16 DEF PersistReply
<1>17. ASSUME NEW a \in Attempts, TurnEnds(a) PROVE IInv'
  BY <1>17 DEF TurnEnds
<1>18. ASSUME NEW a \in Attempts, CallerCancelled(a) PROVE IInv'
  BY <1>18 DEF CallerCancelled
<1>19. ASSUME NEW a \in Attempts, AdmitUnclear(a) PROVE IInv'
  BY <1>19 DEF AdmitUnclear
<1>20. ASSUME NEW a \in Attempts, SettleInterrupted(a) PROVE IInv'
  BY <1>20 DEF SettleInterrupted
<1>21. ASSUME NEW a \in Attempts, DatabaseFails(a) PROVE IInv'
  <2>1. CASE pc[a] = "found" BY <1>21, <2>1 DEF DatabaseFails
  <2>2. CASE pc[a] # "found" BY <1>21, <2>2 DEF DatabaseFails
  <2> QED BY <2>1, <2>2
<1>22. CASE World
  <2>1. CASE \E e \in Events : Age(e)
    BY <2>1 DEF Age
  <2>2. CASE UNCHANGED <<receipt, claim, pc, job, answer, turn, wrote, faults>>
    BY <2>2
  <2> QED BY <1>22, <2>1, <2>2 DEF World, ForeignTurn, Reset, Reroute, SwapAdapter, OpenOrClose
<1>23. CASE Crash BY <1>23 DEF Crash
<1>24. CASE UNCHANGED vars BY <1>24 DEF vars
<1> QED
  BY <1>1, <1>2, <1>3, <1>4, <1>5, <1>6, <1>7, <1>8, <1>9, <1>10, <1>11, <1>12, <1>13, <1>14, <1>15, <1>16, <1>17, <1>18, <1>19, <1>20, <1>21, <1>22, <1>23, <1>24
  DEF Next, Step, Turn, Fault

LEMMA InitialDiscipline == Init => IInv
BY ConstantsAssumption
DEF Init, IInv, TypeOK, ClaimInv, AdmittedInv, WroteInv, OwnerInv, EvidenceInv,
    ReaderInv, AnswerInv, Admitted, Accepted, Confirmed, InDoubt,
    NoReceipt, NoJob, Row, Job, Receipts, Jobs, Sessions, Statuses, Labels, Answers

\* The claim discipline holds in every reachable state.
THEOREM ClaimDiscipline == Spec => []IInv
BY InitialDiscipline, TypeCorrect, Inductive, PTL DEF Spec

\* No event starts two turns: the receipt's token names the one attempt that
\* was admitted, and an admitted receipt is never claimed again.
THEOREM NeverTwice == Spec => []AtMostOnce
<1>1. IInv => AtMostOnce
  BY DEF IInv, AdmittedInv, Bound, AtMostOnce
<1> QED BY <1>1, ClaimDiscipline, PTL

\* A receipt that says delivered rests on one row in the named transcript.
THEOREM DeliveredIsPersisted == Spec => []ConfirmedIsPersisted
<1>1. IInv => ConfirmedIsPersisted
  <2> SUFFICES ASSUME IInv, NEW e \in Events, receipt[e].status \in Confirmed
               PROVE  \E a \in Attempts :
                        /\ Marked(e, receipt[e].sid) = {a}
                        /\ job[a].payload = receipt[e].payload
                        /\ receipt[e].status = "agent_responded" => wrote[a] = "reply"
    BY DEF ConfirmedIsPersisted
  <2> DEFINE w == claim[e]
  <2>1. /\ w \in Attempts /\ wrote[w] # "nothing"
        /\ receipt[e].status = "agent_responded" => wrote[w] = "reply"
    BY DEF IInv, TypeOK, EvidenceInv, Evident
  <2>2. Event(w) = e /\ Bound(w)
    BY <2>1, ConstantsAssumption DEF IInv, WroteInv, AdmittedInv, ClaimInv, Bound
  <2>3. Marked(e, receipt[e].sid) = {w}
    BY <2>1, <2>2 DEF Marked, IInv, WroteInv, AdmittedInv, Bound
  <2> QED BY <2>1, <2>2, <2>3 DEF Bound
<1> QED BY <1>1, ClaimDiscipline, PTL

\* What a caller was told about a delivery is on record.
THEOREM AnswersAreTrue == Spec => []AcceptedIsRecorded
<1>1. IInv => AcceptedIsRecorded
  BY DEF IInv, AnswerInv, EvidenceInv, AcceptedIsRecorded
<1> QED BY <1>1, ClaimDiscipline, PTL

\* The turn of an event runs where, and with the text that, its receipt says.
THEOREM TurnsMatch == Spec => []TurnMatchesReceipt
<1>1. IInv => TurnMatchesReceipt
  BY DEF IInv, AdmittedInv, Bound, TurnMatchesReceipt
<1> QED BY <1>1, ClaimDiscipline, PTL

-----------------------------------------------------------------------------
\* A conversation never runs two turns, because the busy check and the start of
\* the turn are one step of the event loop.
THEOREM ConversationIsExclusive == Spec => []OneTurnPerSession
<1>1. Init => OneTurnPerSession
  BY DEF Init, OneTurnPerSession
<1>2. IInv /\ OneTurnPerSession /\ [Next]_vars => OneTurnPerSession'
  <2> SUFFICES ASSUME IInv, OneTurnPerSession, [Next]_vars PROVE OneTurnPerSession'
    OBVIOUS
  <2> USE DEF OneTurnPerSession, WakeTurns, Key, host
  <2>1. ASSUME NEW a \in Attempts, AdmitStarts(a) \/ AdmitUnclear(a)
        PROVE  OneTurnPerSession'
    BY <2>1 DEF AdmitStarts, AdmitUnclear, Admissible, Busy, IInv, TypeOK
  <2>2. ASSUME NEW a \in Attempts, TurnEnds(a) PROVE OneTurnPerSession'
    BY <2>2 DEF TurnEnds, IInv, TypeOK
  <2>3. CASE Crash
    BY <2>3 DEF Crash, IInv, TypeOK
  <2>4. ASSUME NEW k \in Keys, ForeignTurn(k) PROVE OneTurnPerSession'
    BY <2>4 DEF ForeignTurn, Busy
  <2>5. ASSUME NEW a \in Attempts,
               \/ Call(a) \/ ClaimObserves(a) \/ MarkDispatching(a)
        PROVE  OneTurnPerSession'
    <3>1. turn' = turn /\ foreign' = foreign /\ turn[a] # "running"
      BY <2>5 DEF Call, Pin, ClaimObserves, MarkDispatching, IInv, AdmittedInv, Admitted
    <3>2. \A b \in Attempts \ {a} : job'[b] = job[b]
      BY <2>5 DEF Call, Pin, ClaimObserves, MarkDispatching, IInv, TypeOK
    <3> QED BY <3>1, <3>2
  <2>6. CASE UNCHANGED <<turn, foreign, job>>
    BY <2>6
  <2>7. ASSUME NEW a \in Attempts, Step(a) \/ Turn(a) \/ Fault(a)
        PROVE  OneTurnPerSession'
    BY <2>1, <2>2, <2>5, <2>6, <2>7
    DEF Step, Turn, Fault, ClaimConflicts, ClaimOwns, AdmitRefused, RecordRefusal,
        RecordDoubt, SettleRead, SettleFound, SettleUnsure, ReadTranscript, Reconcile,
        PersistWake, PersistReply, CallerCancelled, SettleInterrupted, DatabaseFails
  <2>8. CASE World
    BY <2>4, <2>6, <2>8 DEF World, Reset, Reroute, SwapAdapter, OpenOrClose, Age
  <2> QED BY <2>3, <2>5, <2>6, <2>7, <2>8 DEF Next, vars
<1> QED BY <1>1, <1>2, ClaimDiscipline, PTL DEF Spec

-----------------------------------------------------------------------------
(* What no step may do.                                                    *)

\* Every step leaves a receipt alone, or the token holder or a reconciling
\* observer writes it; neither takes evidence back.
LEMMA StepKeepsEvidence ==
  ASSUME IInv, [Next]_vars, NEW e \in Events
  PROVE  /\ receipt[e].status \in Confirmed => receipt'[e].status \in Confirmed
         /\ receipt[e].status = "agent_responded" => receipt'[e] = receipt[e]
<1> DEFINE Kept == /\ receipt[e].status \in Confirmed => receipt'[e].status \in Confirmed
                   /\ receipt[e].status = "agent_responded" => receipt'[e] = receipt[e]
<1> USE DEF IInv, TypeOK, Event, Confirmed, InDoubt, Row
<1>1. ASSUME NEW a \in Attempts, ClaimOwns(a) PROVE Kept
  BY <1>1 DEF ClaimOwns, Retryable
<1>2. ASSUME NEW a \in Attempts, MarkDispatching(a) \/ RecordRefusal(a) PROVE Kept
  <2>1. claim[Event(a)] = a => receipt[Event(a)].status \notin Confirmed
    BY <1>2 DEF MarkDispatching, RecordRefusal, OwnerInv
  <2> QED
    BY <1>2, <2>1 DEF MarkDispatching, RecordRefusal, Transition
<1>3. ASSUME NEW a \in Attempts, RecordDoubt(a) \/ SettleUnsure(a) PROVE Kept
  <2>1. receipt[Event(a)].status \in Confirmed => receipt[Event(a)].injected
    BY <1>3 DEF RecordDoubt, SettleUnsure, EvidenceInv
  <2> QED
    BY <1>3, <2>1 DEF RecordDoubt, SettleUnsure, Transition
<1>4. ASSUME NEW a \in Attempts, SettleFound(a) PROVE Kept
  <2>1. receipt[Event(a)].status # "agent_responded"
    BY <1>4 DEF SettleFound, OwnerInv
  <2> QED
    BY <1>4, <2>1 DEF SettleFound, Transition
<1>5. ASSUME NEW a \in Attempts, Reconcile(a) PROVE Kept
  BY <1>5 DEF Reconcile
<1>6. ASSUME NEW f \in Events, Age(f) PROVE Kept
  BY <1>6 DEF Age
<1>7. CASE UNCHANGED receipt BY <1>7
<1> QED
  BY <1>1, <1>2, <1>5, <1>6, <1>7, <1>3, <1>4
  DEF Next, Call, Pin, Step, Turn, Fault, World, Crash, vars, ClaimConflicts, ClaimObserves,
      AdmitStarts, AdmitRefused, AdmitUnclear, SettleRead, ReadTranscript, PersistWake,
      PersistReply, TurnEnds, CallerCancelled, SettleInterrupted, DatabaseFails,
      ForeignTurn, Reset, Reroute, SwapAdapter, OpenOrClose

\* A delivered receipt stays delivered and a linked response stays linked.
THEOREM EvidenceStays == Spec => NoDowngrade
<1>1. IInv /\ [Next]_vars =>
        [\A e \in Events :
           /\ receipt[e].status \in Confirmed => receipt'[e].status \in Confirmed
           /\ receipt[e].status = "agent_responded" => receipt'[e] = receipt[e]]_vars
  BY StepKeepsEvidence
<1> QED BY <1>1, ClaimDiscipline, PTL DEF Spec, NoDowngrade

\* A turn starts in no other step than the attempt's own admission.
LEMMA TurnsStartByAdmission ==
  ASSUME IInv, [Next]_vars, NEW a \in Attempts, ~Admitted(a), Admitted(a)'
  PROVE  AdmitStarts(a) \/ AdmitUnclear(a)
<1>1. ASSUME NEW b \in Attempts, b # a, AdmitStarts(b) \/ AdmitUnclear(b) PROVE FALSE
  BY <1>1 DEF AdmitStarts, AdmitUnclear, Admitted, IInv, TypeOK
<1>2. ASSUME NEW b \in Attempts, TurnEnds(b) PROVE FALSE
  BY <1>2 DEF TurnEnds, Admitted, IInv, TypeOK
<1>3. ~Crash BY DEF Crash, Admitted, IInv, TypeOK
<1>4. turn' # turn BY DEF Admitted
<1> QED
  BY <1>1, <1>2, <1>3, <1>4
  DEF Next, Call, Pin, Step, Turn, Fault, World, vars, ClaimConflicts, ClaimOwns,
      ClaimObserves, MarkDispatching, AdmitRefused, RecordRefusal, RecordDoubt,
      SettleRead, SettleFound, SettleUnsure, ReadTranscript, Reconcile, PersistWake,
      PersistReply, CallerCancelled, SettleInterrupted, DatabaseFails, ForeignTurn,
      Reset, Reroute, SwapAdapter, OpenOrClose, Age

\* A turn starts only where the world still is what the attempt pinned.
LEMMA StepAdmitsCurrent ==
  ASSUME IInv, [Next]_vars, NEW a \in Attempts, ~Admitted(a), Admitted(a)'
  PROVE  /\ entry[Key(a)].sid = receipt[Event(a)].sid
         /\ entry[Key(a)].route = job[a].route
         /\ adapter = job[a].adapter
         /\ open /\ ~Busy(Key(a))
<1>1. AdmitStarts(a) \/ AdmitUnclear(a)
  BY TurnsStartByAdmission
<1>2. Admissible(a) /\ Bound(a)
  BY <1>1 DEF AdmitStarts, AdmitUnclear, IInv, OwnerInv
<1> QED BY <1>2 DEF Admissible, Bound

\* Nothing pinned before an await is used stale at admission.
THEOREM AdmissionNotStale == Spec => AdmissionIsCurrent
<1>1. IInv /\ [Next]_vars =>
        [\A a \in Attempts : ~Admitted(a) /\ Admitted(a)' =>
           /\ entry[Key(a)].sid = receipt[Event(a)].sid
           /\ entry[Key(a)].route = job[a].route
           /\ adapter = job[a].adapter
           /\ open /\ ~Busy(Key(a))]_vars
  BY StepAdmitsCurrent
<1> QED BY <1>1, ClaimDiscipline, PTL DEF Spec, AdmissionIsCurrent

-----------------------------------------------------------------------------
(* The receipts implement WakeOnce.                                        *)

Phase(e) == IF receipt[e].status \in InDoubt THEN "doubt"
            ELSE IF receipt[e].status \in Confirmed THEN "delivered"
            ELSE "open"
Told(e)  == {a \in Attempts : Admitted(a) /\ Event(a) = e}

\* The three kinds of steps of the promise, from what they do to each event.
LEMMA Stutters ==
  ASSUME \A e \in Events : Phase(e)' = Phase(e) /\ Told(e)' = Told(e)
  PROVE  UNCHANGED Promise!vars
BY DEF Promise!vars, Phase, Told

LEMMA PhaseMoves ==
  ASSUME NEW e \in Events, NEW p,
         \A f \in Events : Told(f)' = Told(f),
         \A f \in Events \ {e} : Phase(f)' = Phase(f),
         Phase(e)' = p,
         \/ Phase(e) = "open" /\ p = "doubt" /\ Told(e) = {}
         \/ Phase(e) = "doubt" /\ p = "open" /\ Told(e) = {}
         \/ Phase(e) = "doubt" /\ p = "delivered" /\ Told(e) # {}
  PROVE  Promise!Next
<1> DEFINE ph == [f \in Events |-> Phase(f)]
           to == [f \in Events |-> Told(f)]
<1>1. ph' = [ph EXCEPT ![e] = p] /\ to' = to
  OBVIOUS
<1>2. Promise!Undertake(e) \/ Promise!Abandon(e) \/ Promise!Confirm(e)
  BY <1>1 DEF Promise!Undertake, Promise!Abandon, Promise!Confirm, Phase, Told
<1> QED BY <1>2 DEF Promise!Next

LEMMA TurnStarts ==
  ASSUME NEW e \in Events, NEW a \in Attempts,
         \A f \in Events : Phase(f)' = Phase(f),
         \A f \in Events \ {e} : Told(f)' = Told(f),
         Phase(e) = "doubt", Told(e) = {}, Told(e)' = {a}
  PROVE  Promise!Next
<1> DEFINE ph == [f \in Events |-> Phase(f)]
           to == [f \in Events |-> Told(f)]
<1>1. ph' = ph /\ to' = [to EXCEPT ![e] = {a}]
  OBVIOUS
<1>2. Promise!Tell(e, a)
  BY <1>1 DEF Promise!Tell, Phase, Told
<1> QED BY <1>2 DEF Promise!Next

\* Every step of an attempt, the host or a fault is one the promise allows.
LEMMA StepKeepsPromise ==
  ASSUME IInv, TypeOK', [Next]_vars PROVE [Promise!Next]_(Promise!vars)
<1> USE ConstantsAssumption DEF InDoubt, Confirmed, IInv, TypeOK, Event, Admitted, Row, Job
<1> DEFINE Same == \A e \in Events : Phase(e)' = Phase(e) /\ Told(e)' = Told(e)
<1> HIDE DEF Same
<1>1. Same => UNCHANGED Promise!vars
  BY Stutters DEF Same
<1>2. ASSUME NEW a \in Attempts, Call(a) PROVE Same
  BY <1>2 DEF Call, Pin, Same, Phase, Told, AdmittedInv
<1>3. ASSUME NEW a \in Attempts, ClaimOwns(a) PROVE Same
  BY <1>3 DEF ClaimOwns, Retryable, Same, Phase, Told
<1>4. ASSUME NEW a \in Attempts, ClaimObserves(a) PROVE Same
  BY <1>4 DEF ClaimObserves, Same, Phase, Told
<1>5. ASSUME NEW a \in Attempts, pc[a] \in {"owner", "dispatching", "refused"},
             claim[Event(a)] = a
      PROVE  Told(Event(a)) = {}
  BY <1>5 DEF Told, AdmittedInv, Bound
<1>6. ASSUME NEW a \in Attempts, MarkDispatching(a) PROVE Promise!Next \/ Same
  <2> PICK e \in Events : e = Event(a)
    BY <1>6 DEF MarkDispatching
  <2>1. CASE claim[e] = a
    <3>1. Phase(e) = "open" /\ Phase(e)' = "doubt"
      BY <1>6, <2>1 DEF MarkDispatching, Transition, OwnerInv, Phase
    <3>2. \A f \in Events \ {e} : Phase(f)' = Phase(f)
      BY <1>6, <2>1 DEF MarkDispatching, Transition, Phase
    <3>3. \A f \in Events : Told(f)' = Told(f)
      BY <1>6 DEF MarkDispatching, Told
    <3>4. Told(e) = {}
      BY <1>5, <1>6, <2>1 DEF MarkDispatching
    <3> QED BY <3>1, <3>2, <3>3, <3>4, PhaseMoves
  <2>2. CASE claim[e] # a
    BY <1>6, <2>2 DEF MarkDispatching, Transition, Same, Phase, Told
  <2> QED BY <2>1, <2>2
<1>7. ASSUME NEW a \in Attempts, AdmitStarts(a) \/ AdmitUnclear(a)
      PROVE  Promise!Next \/ Same
  <2> PICK e \in Events : e = Event(a)
    BY <1>7 DEF AdmitStarts, AdmitUnclear
  <2>1. CASE turn' = [turn EXCEPT ![a] = "running"]
    <3>1. \A f \in Events : Phase(f)' = Phase(f)
      BY <1>7 DEF AdmitStarts, AdmitUnclear, Phase
    <3>2. \A f \in Events \ {e} : Told(f)' = Told(f)
      BY <1>7, <2>1 DEF AdmitStarts, AdmitUnclear, Told
    <3>3. Phase(e) = "doubt" /\ Told(e) = {}
      BY <1>5, <1>7 DEF AdmitStarts, AdmitUnclear, OwnerInv, Bound, Phase
    <3>4. Told(e)' = {a}
      BY <1>7, <2>1, <3>3 DEF AdmitStarts, AdmitUnclear, Told
    <3> QED BY <3>1, <3>2, <3>3, <3>4, TurnStarts
  <2>2. CASE UNCHANGED turn
    BY <1>7, <2>2 DEF AdmitStarts, AdmitUnclear, Same, Phase, Told
  <2> QED BY <1>7, <2>1, <2>2 DEF AdmitStarts, AdmitUnclear
<1>8. ASSUME NEW a \in Attempts, RecordRefusal(a) PROVE Promise!Next
  <2> PICK e \in Events : e = Event(a)
    BY <1>8 DEF RecordRefusal
  <2>1. Told(e) = {} /\ Phase(e) = "doubt" /\ Phase(e)' = "open"
    BY <1>5, <1>8 DEF RecordRefusal, Transition, OwnerInv, Bound, EvidenceInv, Phase
  <2>2. /\ \A f \in Events \ {e} : Phase(f)' = Phase(f)
        /\ \A f \in Events : Told(f)' = Told(f)
    BY <1>8 DEF RecordRefusal, Transition, Phase, Told
  <2> QED BY <2>1, <2>2, PhaseMoves
<1>9. ASSUME NEW a \in Attempts, RecordDoubt(a) \/ SettleUnsure(a) PROVE Same
  BY <1>9 DEF RecordDoubt, SettleUnsure, Transition, OwnerInv, EvidenceInv, Same, Phase, Told
<1>10. ASSUME NEW a \in Attempts, SettleFound(a) \/ Reconcile(a)
       PROVE  Promise!Next \/ Same
  <2> PICK e \in Events : e = Event(a)
    BY <1>10 DEF SettleFound, Reconcile
  <2>1. PICK w \in Attempts : Admitted(w) /\ Event(w) = e
    <3>1. CASE SettleFound(a)
      BY <3>1 DEF SettleFound, OwnerInv
    <3>2. CASE Reconcile(a)
      <4>1. claim[e] \in Attempts /\ wrote[claim[e]] # "nothing" /\ Event(claim[e]) = e
        BY <3>2 DEF Reconcile, ReaderInv, Evident, ClaimInv
      <4> QED BY <4>1 DEF WroteInv
    <3> QED BY <1>10, <3>1, <3>2
  <2>2. Told(e) # {} /\ receipt[e].status \in InDoubt \cup Confirmed
    BY <2>1 DEF Told, AdmittedInv
  <2>3. /\ \A f \in Events \ {e} : Phase(f)' = Phase(f)
        /\ \A f \in Events : Told(f)' = Told(f)
    BY <1>10 DEF SettleFound, Reconcile, Transition, Phase, Told
  <2>4. Phase(e)' = "delivered"
    BY <1>10, <2>2 DEF SettleFound, Reconcile, Transition, OwnerInv, Bound, Phase
  <2>5. CASE Phase(e) = "doubt"
    BY <2>2, <2>3, <2>4, <2>5, PhaseMoves
  <2>6. CASE Phase(e) = "delivered"
    BY <2>3, <2>4, <2>6 DEF Same
  <2> QED BY <2>2, <2>5, <2>6 DEF Phase
<1>11. ASSUME NEW a \in Attempts, TurnEnds(a) PROVE Same
  BY <1>11 DEF TurnEnds, Same, Phase, Told
<1>12. CASE Crash
  <2>1. \A a \in Attempts : turn'[a] # "none" <=> turn[a] # "none"
    BY <1>12 DEF Crash
  <2>2. receipt' = receipt /\ job' = job
    BY <1>12 DEF Crash
  <2> HIDE DEF TypeOK, IInv
  <2>3. ASSUME NEW e \in Events PROVE Phase(e)' = Phase(e) /\ Told(e)' = Told(e)
    BY <2>1, <2>2 DEF Phase, Told
  <2>4. Same
    BY <2>3 DEF Same
  <2> QED BY <1>1, <2>4
<1>13. ASSUME NEW e \in Events, Age(e) PROVE Same
  BY <1>13 DEF Age, Same, Phase, Told
<1>14. UNCHANGED <<receipt, job, turn>> => Same
  <2> HIDE DEF TypeOK, IInv
  <2> QED BY DEF Same, Phase, Told
<1> QED
  <2> HIDE DEF Event, Admitted, IInv, TypeOK
  <2>1. ASSUME NEW a \in Attempts, Step(a) \/ Turn(a) \/ Fault(a)
        PROVE  Promise!Next \/ Same
    BY <1>3, <1>4, <1>6, <1>7, <1>8, <1>9, <1>10, <1>11, <1>14, <2>1
    DEF Step, Turn, Fault, ClaimConflicts, AdmitRefused, SettleRead, ReadTranscript,
        PersistWake, PersistReply, CallerCancelled, SettleInterrupted, DatabaseFails
  <2>2. CASE World
    <3>1. CASE \E e \in Events : Age(e)
      BY <1>1, <1>13, <3>1
    <3>2. CASE UNCHANGED <<receipt, job, turn>>
      BY <1>1, <1>14, <3>2
    <3> QED
      BY <2>2, <3>1, <3>2 DEF World, ForeignTurn, Reset, Reroute, SwapAdapter, OpenOrClose
  <2> QED BY <1>1, <1>2, <1>12, <1>14, <2>1, <2>2 DEF Next, vars

\* NativeWake implements WakeOnce under the mapping of receipts to phases.
THEOREM ImplementsPromise == Spec => KeepsPromise
<1>1. Init => Promise!Init
  BY DEF Init, Promise!Init, NoReceipt, Row, InDoubt, Confirmed, Admitted
<1>2. IInv /\ TypeOK' /\ [Next]_vars => [Promise!Next]_(Promise!vars)
  BY StepKeepsPromise
<1> QED BY <1>1, <1>2, TypeCorrect, ClaimDiscipline, PTL DEF Spec, KeepsPromise, Promise!Spec
=============================================================================
