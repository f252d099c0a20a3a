-------------------------- MODULE LegacyWakeProofs --------------------------
(***************************************************************************)
(* Proofs about LegacyWake, for any number of events, attempts and faults. *)
(* What it promises needs its callers to wake an event one call at a time. *)
(***************************************************************************)
EXTENDS LegacyWake, TLAPS

\* A written receipt is one.
LEMMA WriteType ==
  ASSUME NEW R, R \in [Events -> [status : Statuses, aged : BOOLEAN]],
         NEW e, NEW s \in Statuses
  PROVE  [R EXCEPT ![e] = [status |-> s, aged |-> FALSE]]
           \in [Events -> [status : Statuses, aged : BOOLEAN]]
OBVIOUS

\* Every variable keeps its type, however the calls interleave and fail.
THEOREM LegacyTypes == Spec => []TypeOK
<1> USE LegacyAssumption DEF Statuses, Delivered, Answers
<1>1. Init => TypeOK
  <2> SUFFICES ASSUME Init PROVE TypeOK
    OBVIOUS
  <2>1. adapter \in BOOLEAN /\ busy \in BOOLEAN
    BY DEF Init
  <2>2. /\ active \in [Attempts -> BOOLEAN] /\ injected \in [Attempts -> BOOLEAN]
        /\ raised \in [Attempts -> BOOLEAN]
    BY DEF Init
  <2>3. /\ receipt \in [Events -> [status : Statuses, aged : BOOLEAN]]
        /\ event \in [Attempts -> Events \cup {None}]
        /\ answer \in [Attempts -> Answers] /\ faults \in 0..MaxFaults
    BY DEF Init
  <2> QED BY <2>1, <2>2, <2>3 DEF Init, TypeOK
<1>2. TypeOK /\ [Next]_vars => TypeOK'
  <2> SUFFICES ASSUME TypeOK, [Next]_vars PROVE TypeOK'
    OBVIOUS
  <2> USE DEF TypeOK, Goto, Finish, Write, Strike
  <2>1. ASSUME NEW a \in Attempts, NEW e \in Events, Create(a, e) PROVE TypeOK'
    <3>1. receipt' \in [Events -> [status : Statuses, aged : BOOLEAN]]
      <4>1. receipt' = receipt
            \/ receipt' = [receipt EXCEPT ![e] = [status |-> "requested", aged |-> FALSE]]
        BY <2>1 DEF Create
      <4>2. "requested" \in Statuses OBVIOUS
      <4> QED BY <4>1, <4>2, WriteType
    <3>2. /\ active' \in [Attempts -> BOOLEAN] /\ injected' \in [Attempts -> BOOLEAN]
          /\ raised' \in [Attempts -> BOOLEAN]
      BY <2>1 DEF Create
    <3>3. adapter' \in BOOLEAN /\ busy' \in BOOLEAN
      BY <2>1 DEF Create
    <3>4. answer' \in [Attempts -> Answers] /\ faults' \in 0..MaxFaults
      BY <2>1 DEF Create
    <3> QED BY <2>1, <3>1, <3>2, <3>3, <3>4 DEF Create
  <2>2. ASSUME NEW a \in Attempts, Retake(a) PROVE TypeOK'
    BY <2>2 DEF Retake
  <2>3. ASSUME NEW a \in Attempts, ChooseAdapter(a) PROVE TypeOK'
    BY <2>3 DEF ChooseAdapter
  <2>4. ASSUME NEW a \in Attempts, LookBusy(a) PROVE TypeOK'
    BY <2>4 DEF LookBusy
  <2>5. ASSUME NEW a \in Attempts, MarkDispatched(a) PROVE TypeOK'
    BY <2>5 DEF MarkDispatched
  <2>6. ASSUME NEW a \in Attempts, Handle(a) PROVE TypeOK'
    BY <2>6 DEF Handle
  <2>7. ASSUME NEW a \in Attempts, HandleRaises(a) PROVE TypeOK'
    <3>1. receipt' \in [Events -> [status : Statuses, aged : BOOLEAN]]
      BY <2>7 DEF HandleRaises
    <3>2. /\ active' \in [Attempts -> BOOLEAN] /\ injected' \in [Attempts -> BOOLEAN]
          /\ raised' \in [Attempts -> BOOLEAN]
      BY <2>7 DEF HandleRaises
    <3>3. adapter' \in BOOLEAN /\ busy' \in BOOLEAN
      BY <2>7 DEF HandleRaises
    <3>4. answer' \in [Attempts -> Answers] /\ faults' \in 0..MaxFaults
      BY <2>7 DEF HandleRaises
    <3> QED BY <2>7, <3>1, <3>2, <3>3, <3>4 DEF HandleRaises
  <2>8. ASSUME NEW a \in Attempts, RecordFailure(a) PROVE TypeOK'
    BY <2>8 DEF RecordFailure
  <2>9. ASSUME NEW a \in Attempts, Record(a) PROVE TypeOK'
    <3>1. receipt' \in [Events -> [status : Statuses, aged : BOOLEAN]]
      <4>1. PICK s \in Statuses :
              receipt' = [receipt EXCEPT ![event[a]] = [status |-> s, aged |-> FALSE]]
        BY <2>9 DEF Record
      <4> QED BY <4>1
    <3>2. /\ active' \in [Attempts -> BOOLEAN] /\ injected' \in [Attempts -> BOOLEAN]
          /\ raised' \in [Attempts -> BOOLEAN]
      BY <2>9 DEF Record
    <3>3. adapter' \in BOOLEAN /\ busy' \in BOOLEAN
      BY <2>9 DEF Record
    <3>4. answer' \in [Attempts -> Answers] /\ faults' \in 0..MaxFaults
      BY <2>9 DEF Record
    <3> QED BY <2>9, <3>1, <3>2, <3>3, <3>4 DEF Record
  <2>10. ASSUME NEW a \in Attempts, Unconfirmed(a) PROVE TypeOK'
    <3>1. receipt' \in [Events -> [status : Statuses, aged : BOOLEAN]]
      <4>1. \/ receipt' = receipt
            \/ receipt' = [receipt EXCEPT ![event[a]] =
                             [status |-> "dispatched_unconfirmed", aged |-> FALSE]]
        BY <2>10 DEF Unconfirmed
      <4>2. "dispatched_unconfirmed" \in Statuses OBVIOUS
      <4> QED BY <4>1, <4>2, WriteType
    <3>2. /\ active' \in [Attempts -> BOOLEAN] /\ injected' \in [Attempts -> BOOLEAN]
          /\ raised' \in [Attempts -> BOOLEAN]
      BY <2>10 DEF Unconfirmed
    <3>3. adapter' \in BOOLEAN /\ busy' \in BOOLEAN
      BY <2>10 DEF Unconfirmed
    <3>4. answer' \in [Attempts -> Answers] /\ faults' \in 0..MaxFaults
      BY <2>10 DEF Unconfirmed
    <3> QED BY <2>10, <3>1, <3>2, <3>3, <3>4 DEF Unconfirmed
  <2>11. ASSUME NEW a \in Attempts, DatabaseFails(a) PROVE TypeOK'
    BY <2>11 DEF DatabaseFails
  <2>12. ASSUME NEW a \in Attempts, Cancelled(a) PROVE TypeOK'
    <3>1. receipt' \in [Events -> [status : Statuses, aged : BOOLEAN]]
      BY <2>12 DEF Cancelled
    <3>2. /\ active' \in [Attempts -> BOOLEAN] /\ injected' \in [Attempts -> BOOLEAN]
          /\ raised' \in [Attempts -> BOOLEAN]
      BY <2>12 DEF Cancelled
    <3>3. adapter' \in BOOLEAN /\ busy' \in BOOLEAN
      BY <2>12 DEF Cancelled
    <3>4. answer' \in [Attempts -> Answers] /\ faults' \in 0..MaxFaults
      BY <2>12 DEF Cancelled
    <3> QED BY <2>12, <3>1, <3>2, <3>3, <3>4 DEF Cancelled
  <2>13. CASE TurnChanges BY <2>13 DEF TurnChanges
  <2>14. CASE AdapterChanges BY <2>14 DEF AdapterChanges
  <2>15. CASE Crash
    <3>1. receipt' \in [Events -> [status : Statuses, aged : BOOLEAN]]
      BY <2>15 DEF Crash
    <3>2. /\ active' \in [Attempts -> BOOLEAN] /\ injected' \in [Attempts -> BOOLEAN]
          /\ raised' \in [Attempts -> BOOLEAN]
      BY <2>15 DEF Crash
    <3>3. adapter' \in BOOLEAN /\ busy' \in BOOLEAN
      BY <2>15 DEF Crash
    <3>4. answer' \in [Attempts -> Answers] /\ faults' \in 0..MaxFaults
      BY <2>15 DEF Crash
    <3> QED BY <2>15, <3>1, <3>2, <3>3, <3>4 DEF Crash
  <2>16. ASSUME NEW e \in Events, Age(e) PROVE TypeOK'
    <3>1. receipt' \in [Events -> [status : Statuses, aged : BOOLEAN]]
      BY <2>16 DEF Age
    <3>2. /\ active' \in [Attempts -> BOOLEAN] /\ injected' \in [Attempts -> BOOLEAN]
          /\ raised' \in [Attempts -> BOOLEAN]
      BY <2>16 DEF Age
    <3>3. adapter' \in BOOLEAN /\ busy' \in BOOLEAN
      BY <2>16 DEF Age
    <3>4. answer' \in [Attempts -> Answers] /\ faults' \in 0..MaxFaults
      BY <2>16 DEF Age
    <3> QED BY <2>16, <3>1, <3>2, <3>3, <3>4 DEF Age
  <2>17. CASE UNCHANGED vars BY <2>17 DEF vars
  <2> QED BY <2>1, <2>2, <2>3, <2>4, <2>5, <2>6, <2>7, <2>8, <2>9, <2>10, <2>11,
             <2>12, <2>13, <2>14, <2>15, <2>16, <2>17 DEF Next
<1> QED BY <1>1, <1>2, PTL DEF Spec

-----------------------------------------------------------------------------
(* The inductive invariant: an attempt under way has its event to itself.  *)

UnderwayInv ==
  \A a \in Attempts :
     /\ pc[a] = "new" => event[a] = None /\ ~injected[a]
     /\ pc[a] # "new" => event[a] \in Events
     /\ pc[a] \in {"retaking", "claimed", "ready", "marking", "handing"} => ~injected[a]
     /\ pc[a] = "failing" => (injected[a] => raised[a])
     /\ pc[a] \in {"handing", "handed"} => receipt[event[a]].status = "dispatched"

\* Every other attempt at its event is over, and left nothing with the host but
\* what a handle_message that raised may have left.
AloneInv ==
  \A a, b \in Attempts :
     pc[a] \notin {"new", "done"} /\ a # b /\ event[a] = event[b]
       => pc[b] = "done" /\ (injected[b] => raised[b])

IInv == /\ TypeOK /\ UnderwayInv /\ AloneInv
        /\ DispatchedOnce /\ InjectedIsNotRetried

\* With serial callers no step of an attempt, the host or a fault lets a second
\* attempt into an event that may already be with the host.
LEMMA LegacyInductive ==
  ASSUME Serial, IInv, TypeOK', [Next]_vars
  PROVE  IInv'
<1> USE LegacyAssumption
        DEF IInv, TypeOK, UnderwayInv, AloneInv, DispatchedOnce, InjectedIsNotRetried,
            Delivered, Goto, Finish, Write, Strike, Underway
<1>1. ASSUME NEW a \in Attempts, NEW e \in Events, Create(a, e) PROVE IInv'
  <2>1. /\ pc[a] = "new" /\ event' = [event EXCEPT ![a] = e]
        /\ \A b \in Attempts : event[b] = e => pc[b] = "done"
        /\ injected' = injected /\ raised' = raised
    BY <1>1 DEF Create
  <2>2. CASE receipt[e].status = "absent"
    <3>1. UnderwayInv' /\ InjectedIsNotRetried'
      BY <1>1, <2>1, <2>2 DEF Create
    <3>2. AloneInv' /\ DispatchedOnce'
      BY <1>1, <2>1, <2>2 DEF Create
    <3> QED BY <3>1, <3>2
  <2>3. CASE receipt[e].status # "absent" /\ Retryable(receipt[e])
    BY <1>1, <2>1, <2>3 DEF Create, Retryable
  <2>4. CASE receipt[e].status # "absent" /\ ~Retryable(receipt[e])
    BY <1>1, <2>1, <2>4 DEF Create
  <2> QED BY <2>2, <2>3, <2>4
<1>2. ASSUME NEW a \in Attempts, Retake(a) PROVE IInv'
  BY <1>2 DEF Retake
<1>3. ASSUME NEW a \in Attempts, ChooseAdapter(a) PROVE IInv'
  BY <1>3 DEF ChooseAdapter
<1>4. ASSUME NEW a \in Attempts, LookBusy(a) PROVE IInv'
  BY <1>4 DEF LookBusy
<1>5. ASSUME NEW a \in Attempts, MarkDispatched(a) PROVE IInv'
  BY <1>5 DEF MarkDispatched
<1>6. ASSUME NEW a \in Attempts, Handle(a) PROVE IInv'
  BY <1>6 DEF Handle
<1>7. ASSUME NEW a \in Attempts, HandleRaises(a) PROVE IInv'
  BY <1>7 DEF HandleRaises
<1>8. ASSUME NEW a \in Attempts, RecordFailure(a) PROVE IInv'
  BY <1>8 DEF RecordFailure
<1>9. ASSUME NEW a \in Attempts, Record(a) PROVE IInv'
  BY <1>9 DEF Record
<1>10. ASSUME NEW a \in Attempts, Unconfirmed(a) PROVE IInv'
  BY <1>10 DEF Unconfirmed
<1>11. ASSUME NEW a \in Attempts, DatabaseFails(a) PROVE IInv'
  BY <1>11 DEF DatabaseFails
<1>12. ASSUME NEW a \in Attempts, Cancelled(a) PROVE IInv'
  BY <1>12 DEF Cancelled
<1>13. CASE TurnChanges BY <1>13 DEF TurnChanges
<1>14. CASE AdapterChanges BY <1>14 DEF AdapterChanges
<1>15. CASE Crash BY <1>15 DEF Crash
<1>16. ASSUME NEW e \in Events, Age(e) PROVE IInv'
  BY <1>16 DEF Age
<1>17. CASE UNCHANGED vars BY <1>17 DEF vars
<1> QED BY <1>1, <1>2, <1>3, <1>4, <1>5, <1>6, <1>7, <1>8, <1>9, <1>10, <1>11,
           <1>12, <1>13, <1>14, <1>15, <1>16, <1>17 DEF Next

\* IInv holds in every state serial callers can reach.
LEMMA LegacyInvariant == ASSUME Serial PROVE Spec => []IInv
<1>1. Init /\ TypeOK => IInv
  BY DEF Init, IInv, UnderwayInv, AloneInv, DispatchedOnce, InjectedIsNotRetried
<1>2. Spec => []TypeOK
  BY LegacyTypes
<1>3. IInv /\ TypeOK' /\ [Next]_vars => IInv'
  BY LegacyInductive
<1> QED BY <1>1, <1>2, <1>3, PTL DEF Spec

\* Callers that wake an event one call at a time never have it dispatched
\* twice, whatever crashes, cancellations and stalls their calls meet.
THEOREM SerialDispatchedOnce == ASSUME Serial PROVE Spec => []DispatchedOnce
<1>1. IInv => DispatchedOnce BY DEF IInv
<1> QED BY <1>1, LegacyInvariant, PTL

\* The receipt of an event the host took says so, and is never retried.
THEOREM SerialNotRetried == ASSUME Serial PROVE Spec => []InjectedIsNotRetried
<1>1. IInv => InjectedIsNotRetried BY DEF IInv
<1> QED BY <1>1, LegacyInvariant, PTL
=============================================================================
