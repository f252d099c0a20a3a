------------------------- MODULE WakeClientsProofs --------------------------
(***************************************************************************)
(* Proofs about what stands on NativeWake: Inbox, which makes wakes for    *)
(* durable requests, and ResponseObserver, which links their replies.      *)
(* Both use the native wake as NativeWake allows, so that what is proved   *)
(* there holds of them, and their own promises hold on top: the inbox's    *)
(* for any requests, wake calls, slots, resets and faults, the observer's  *)
(* for any wakes, adapters, packages and changes of the handler.           *)
(***************************************************************************)
EXTENDS Inbox, ResponseObserver, NativeWakeProofs, FiniteSetTheorems, SequenceTheorems

(***************************************************************************)
(* The inbox.                                                              *)
(***************************************************************************)

(* The inductive invariant: how requests, drain tasks and wake calls go    *)
(* together.                                                               *)

\* Stored requests and conversations name what can be asked of a wake.
StoredInv ==
  /\ \A k \in Keys : entry[k].sid \in 0..MaxResets
  /\ \A e \in Events : row[e].status # "absent" =>
        row[e].payload \in Payloads /\ row[e].sid \in 0..MaxResets /\ row[e].route \in Routes

\* Drain tasks exist while the watcher runs; the call one waits for is its own
\* and was not lost in a crash.
TaskInv ==
  \A e \in Events :
     /\ task[e] # "idle" => watching /\ row[e].status # "absent"
     /\ task[e] \in Attempts => asked[task[e]] = e /\ answer[task[e]] # "gone"

\* A wake call was made for a stored request, answers last, and unless the
\* watcher stopped the request's one task waits for it.
CallInv ==
  \A a \in Attempts :
     /\ asked[a] # None => row[asked[a]].status # "absent"
     /\ pc[a] # "new" => asked[a] # None
     /\ Event(a) # None => pc[a] # "new" /\ Event(a) = asked[a]
     /\ answer[a] # "none" => pc[a] = "done"
     /\ asked[a] # None /\ pc[a] # "done" /\ watching => task[asked[a]] = a

\* What a call pinned, up to and after admission, is what the request says.
TargetInv ==
  \A a \in Attempts :
     pc[a] \in {"pinned", "owner", "dispatching", "refused"} \/ Admitted(a) =>
        /\ job[a].sid = row[asked[a]].sid
        /\ job[a].route = row[asked[a]].route
        /\ job[a].payload = row[asked[a]].payload

\* Nothing works on a request that was given up.
GivenUpInv ==
  \A e \in Events : row[e].status = "target_changed" =>
     task[e] = "idle" /\ \A a \in Attempts : asked[a] = e => pc[a] = "done"

QInv == /\ InboxTypeOK /\ StoredInv /\ TaskInv /\ CallInv /\ TargetInv
        /\ GivenUpInv /\ SettledIsDelivered

-----------------------------------------------------------------------------
(* The inbox calls the wake as NativeWake says it can be called.           *)

LEMMA CallsAreWakes == ASSUME QInv, [InboxNext]_all PROVE [Next]_vars
<1>1. ASSUME NEW a \in Attempts, WakeBegins(a) PROVE Call(a)
  <2>1. asked[a] \in Events /\ row[asked[a]].status # "absent"
    BY <1>1 DEF WakeBegins, QInv, InboxTypeOK, CallInv
  <2> QED BY <1>1, <2>1 DEF WakeBegins, Call, QInv, StoredInv
<1>2. ASSUME NEW a \in Attempts, WakeStep(a) \/ WakeTurn(a) PROVE Next
  BY <1>2 DEF WakeStep, WakeTurn, Next, Fault
<1>3. Restart => Next
  BY DEF Restart, Next
<1>4. World => Next
  BY DEF Next
<1>5. UNCHANGED vars => [Next]_vars
  OBVIOUS
<1> QED
  BY <1>1, <1>2, <1>3, <1>4, <1>5
  DEF InboxNext, Enqueue, Scan, Permit, WatcherStops, Drain, DrainSkips, DrainRetargets,
      DrainRecords, DrainCalls, DrainRecordFails, all, Next

-----------------------------------------------------------------------------
(* Steps of the wakes, their turns and the host.                           *)

Working(a) == pc[a] \in {"pinned", "owner", "dispatching", "refused"} \/ Admitted(a)

\* What such a step may do to wake call b: it goes on or ends, keeps its event
\* and, unless it only observes, its target, and answers when it ends.
Goes(b) == /\ pc'[b] # "new" <=> pc[b] # "new"
           /\ pc[b] = "done" => pc'[b] = "done"
           /\ job'[b].event = job[b].event
           /\ Working(b)' => /\ Working(b)
                             /\ job'[b].sid = job[b].sid
                             /\ job'[b].route = job[b].route
                             /\ job'[b].payload = job[b].payload
           /\ answer'[b] # answer[b] => pc'[b] = "done" /\ answer'[b] # "gone"

LEMMA WakesGo ==
  ASSUME QInv, IInv, NEW a \in Attempts, WakeStep(a) \/ WakeTurn(a), NEW b \in Attempts
  PROVE  Goes(b)
<1> USE DEF Goes, Working, Admitted, QInv, CallInv, TypeOK, IInv, Goto, Tell, Finish,
            Event, Row, Job
<1>1. CASE ClaimConflicts(a)
  BY <1>1 DEF ClaimConflicts
<1>2. CASE ClaimOwns(a)
  BY <1>2 DEF ClaimOwns
<1>3. CASE ClaimObserves(a)
  <2>1. turn[a] = "none"
    BY <1>3 DEF ClaimObserves, AdmittedInv
  <2>2. CASE b = a
    BY <1>3, <2>1, <2>2 DEF ClaimObserves
  <2>3. CASE b # a
    BY <1>3, <2>3 DEF ClaimObserves
  <2> QED BY <2>2, <2>3
<1>4. CASE MarkDispatching(a)
  BY <1>4 DEF MarkDispatching, Jobs
<1>5. CASE AdmitStarts(a) /\ (answer'[a] = "none" \/ pc'[a] = "done")
  BY <1>5 DEF AdmitStarts
<1>6. CASE AdmitRefused(a) \/ RecordRefusal(a) \/ RecordDoubt(a)
  BY <1>6 DEF AdmitRefused, RecordRefusal, RecordDoubt
<1>7. CASE SettleRead(a) \/ SettleFound(a) \/ SettleUnsure(a)
  BY <1>7 DEF SettleRead, SettleFound, SettleUnsure
<1>8. CASE ReadTranscript(a) \/ Reconcile(a)
  BY <1>8 DEF ReadTranscript, Reconcile
<1>9. CASE PersistWake(a) \/ PersistReply(a) \/ TurnEnds(a)
  BY <1>9 DEF PersistWake, PersistReply, TurnEnds
<1>10. CASE AdmitUnclear(a) \/ SettleInterrupted(a)
  BY <1>10 DEF AdmitUnclear, SettleInterrupted
<1>11. CASE DatabaseFails(a)
  BY <1>11 DEF DatabaseFails
<1> QED
  BY <1>1, <1>2, <1>3, <1>4, <1>5, <1>6, <1>7, <1>8, <1>9, <1>10, <1>11
  DEF WakeStep, WakeTurn, Step, Turn

\* A delivered request stays backed: receipts keep their evidence.
LEMMA BackedStays ==
  ASSUME QInv, IInv, IInv', [Next]_vars, NEW e \in Events,
         row[e].status \in Accepted
  PROVE  receipt'[e].status \in Confirmed /\ receipt'[e].injected
<1>1. receipt'[e].status \in Confirmed
  BY StepKeepsEvidence DEF QInv, SettledIsDelivered
<1> QED BY <1>1 DEF IInv, EvidenceInv

LEMMA QuietStep ==
  ASSUME QInv, IInv, IInv', [Next]_vars, UNCHANGED inbox,
         \A k \in Keys : entry'[k].sid \in 0..MaxResets,
         \A b \in Attempts : Goes(b)
  PROVE  QInv'
<1> USE DEF QInv, inbox
<1>1. InboxTypeOK'
  BY DEF InboxTypeOK, IInv
<1>2. StoredInv'
  BY DEF StoredInv
<1>3. TaskInv'
  BY DEF TaskInv, Goes
<1>4. CallInv'
  BY DEF CallInv, Goes, Event, InboxTypeOK, TypeOK
<1>5. TargetInv'
  BY DEF TargetInv, Goes, Working
<1>6. GivenUpInv'
  BY DEF GivenUpInv, Goes
<1>7. SettledIsDelivered'
  BY BackedStays DEF SettledIsDelivered
<1> QED BY <1>1, <1>2, <1>3, <1>4, <1>5, <1>6, <1>7

LEMMA WakesKeep ==
  ASSUME QInv, IInv, IInv', NEW a \in Attempts, WakeStep(a) \/ WakeTurn(a)
  PROVE  QInv'
<1>1. UNCHANGED inbox /\ [Next]_vars
  BY CallsAreWakes DEF WakeStep, WakeTurn, InboxNext
<1>2. UNCHANGED entry
  BY DEF WakeStep, WakeTurn, Step, Turn, ClaimConflicts, ClaimOwns, ClaimObserves,
         MarkDispatching, AdmitStarts, AdmitRefused, RecordRefusal, RecordDoubt, SettleRead,
         SettleFound, SettleUnsure, ReadTranscript, Reconcile, PersistWake, PersistReply,
         TurnEnds, AdmitUnclear, SettleInterrupted, DatabaseFails, host
<1> QED BY <1>1, <1>2, WakesGo, QuietStep DEF QInv, StoredInv

LEMMA WorldKeeps ==
  ASSUME QInv, IInv, IInv', World, UNCHANGED inbox
  PROVE  QInv'
<1>1. \A b \in Attempts : Goes(b)
  BY DEF World, ForeignTurn, Reset, Reroute, SwapAdapter, OpenOrClose, Age, host,
         Goes, Working, Admitted
<1>2. \A k \in Keys : entry'[k].sid \in 0..MaxResets
  <2>1. ASSUME NEW k \in Keys, Reset(k) PROVE \A l \in Keys : entry'[l].sid \in 0..MaxResets
    BY <2>1, ConstantsAssumption DEF Reset, QInv, StoredInv, IInv, TypeOK, Sessions
  <2>2. ASSUME NEW k \in Keys, NEW r \in Routes, Reroute(k, r)
        PROVE  \A l \in Keys : entry'[l].sid \in 0..MaxResets
    BY <2>2 DEF Reroute, QInv, StoredInv, IInv, TypeOK, Sessions
  <2> QED
    BY <2>1, <2>2 DEF World, ForeignTurn, SwapAdapter, OpenOrClose, Age, host, QInv, StoredInv
<1> QED BY <1>1, <1>2, QuietStep DEF Next

-----------------------------------------------------------------------------
(* Steps of the inbox itself.                                              *)

LEMMA EnqueueKeeps ==
  ASSUME QInv, IInv, NEW e \in Events, NEW p \in Payloads, Enqueue(e, p)
  PROVE  QInv'
<1> DEFINE s == entry[KeyOf[e]]
<1>1. /\ s.sid \in 0..MaxResets /\ s.route \in Routes
      /\ row' = [row EXCEPT ![e] = Request("queued", p, s.sid, s.route)]
  BY ConstantsAssumption DEF Enqueue, QInv, StoredInv, IInv, TypeOK, Sessions
<1>2. Cardinality(Stored) \in Nat
  BY InboxAssumption, FS_Subset, FS_CardinalityType DEF Stored
<1> USE DEF QInv
<1>3. row[e].status = "absent" /\ UNCHANGED <<vars, attempted, task, asked, watching, granted>>
  BY DEF Enqueue
<1>4. row' \in [Events -> Requests]
  BY <1>1, ConstantsAssumption DEF InboxTypeOK, Request, Requests, Unsettled
<1>5. row'[e].status = "queued"
  BY <1>1 DEF InboxTypeOK, Request
<1>6. \A f \in Events \ {e} : row'[f] = row[f]
  BY <1>1 DEF InboxTypeOK
<1>7. InboxTypeOK'
  BY <1>2, <1>3, <1>4 DEF InboxTypeOK, TypeOK, vars, Enqueue
<1>8. StoredInv'
  BY <1>1, <1>3, <1>6 DEF StoredInv, vars, InboxTypeOK, Request
<1>9. TaskInv'
  BY <1>3, <1>5, <1>6 DEF TaskInv, vars
<1>10. CallInv' /\ \A a \in Attempts : asked[a] # e
  BY <1>3, <1>5, <1>6, ConstantsAssumption DEF CallInv, vars, InboxTypeOK, Event
<1>11. TargetInv'
  <2>1. \A a \in Attempts : Working(a) => asked[a] \in Events
    BY DEF Working, CallInv, IInv, AdmittedInv, InboxTypeOK
  <2> QED BY <1>3, <1>6, <1>10, <2>1 DEF TargetInv, vars, Working, Admitted
<1>12. GivenUpInv'
  BY <1>3, <1>5, <1>6 DEF GivenUpInv, vars
<1>13. SettledIsDelivered'
  BY <1>3, <1>5, <1>6 DEF SettledIsDelivered, vars, Accepted, Confirmed
<1> QED BY <1>7, <1>8, <1>9, <1>10, <1>11, <1>12, <1>13

LEMMA ScanKeeps == ASSUME QInv, Scan PROVE QInv'
<1> USE DEF QInv
<1>1. Taken \subseteq Waiting
  BY DEF Taken
<1>2. \A S \in SUBSET Events : Cardinality(S) \in Nat
  BY InboxAssumption, FS_Subset, FS_CardinalityType
<1>3. /\ watching
      /\ task' = [e \in Events |-> IF e \in Taken THEN "started" ELSE task[e]]
      /\ UNCHANGED <<vars, row, created, asked, watching, granted>>
  BY DEF Scan
<1>4. attempted' \in [Events -> Nat]
  <2> DEFINE kept == {e \in Events : row[e].status \in Unsettled /\ attempted[e] # 0} \ Taken
             UpTo(e, rows) == Cardinality({f \in rows : ~Ahead(e, f)})
  <2>1. \A e \in Events : UpTo(e, Taken) \in Nat /\ UpTo(e, kept) \in Nat
    BY <1>2 DEF Taken, Waiting
  <2>2. Cardinality(kept) \in Nat
    BY <1>2
  <2>3. attempted' = [e \in Events |->
                        IF e \in Taken THEN Cardinality(kept) + UpTo(e, Taken)
                        ELSE IF e \in kept THEN UpTo(e, kept) ELSE 0]
    BY DEF Scan
  <2> HIDE DEF kept, UpTo
  <2> QED BY <2>1, <2>2, <2>3
<1>5. InboxTypeOK'
  BY <1>3, <1>4 DEF InboxTypeOK, TypeOK, vars
<1>6. \A e \in Taken : row[e].status \in Unsettled /\ task[e] = "idle"
  BY <1>1 DEF Waiting
<1>7. TaskInv'
  BY <1>3, <1>6, InboxAssumption DEF TaskInv, vars, Unsettled, InboxTypeOK
<1>8. CallInv'
  <2>1. ASSUME NEW a \in Attempts, asked[a] # None, pc[a] # "done" PROVE task'[asked[a]] = a
    <3>1. asked[a] \in Events /\ task[asked[a]] = a
      BY <1>3, <2>1 DEF CallInv, InboxTypeOK
    <3> QED BY <1>3, <1>6, <3>1, InboxAssumption
  <2> QED BY <1>3, <2>1 DEF CallInv, vars, Event
<1>9. StoredInv' /\ TargetInv' /\ SettledIsDelivered'
  BY <1>3 DEF StoredInv, TargetInv, SettledIsDelivered, vars, Admitted
<1>10. GivenUpInv'
  BY <1>3, <1>6 DEF GivenUpInv, vars, Unsettled
<1> QED BY <1>5, <1>7, <1>8, <1>9, <1>10

\* A drain that ends with nothing to record, a watcher that stops.
LEMMA IdleKeeps ==
  ASSUME QInv, NEW S \in SUBSET Events,
         \/ watching' = FALSE /\ S = Events
         \/ /\ watching' = watching
            /\ \A e \in S : task[e] = "started" \/ \E a \in Attempts : task[e] = a /\ pc[a] = "done",
         task' = [e \in Events |-> IF e \in S THEN "idle" ELSE task[e]],
         UNCHANGED <<vars, row, created, attempted, asked, granted>>
  PROVE  QInv'
<1> USE DEF QInv
<1>1. InboxTypeOK'
  BY DEF InboxTypeOK, TypeOK, vars
<1>2. StoredInv' /\ TargetInv' /\ SettledIsDelivered'
  BY DEF StoredInv, TargetInv, SettledIsDelivered, vars, Admitted
<1>3. TaskInv'
  BY InboxAssumption DEF TaskInv, vars, InboxTypeOK
<1>4. CallInv'
  <2>1. ASSUME NEW a \in Attempts, asked[a] # None, pc[a] # "done", watching'
        PROVE  task'[asked[a]] = a
    <3>1. asked[a] \in Events /\ task[asked[a]] = a
      BY <2>1 DEF CallInv, InboxTypeOK
    <3> QED BY <2>1, <3>1, InboxAssumption
  <2> QED BY <2>1 DEF CallInv, vars, Event
<1>5. GivenUpInv'
  BY DEF GivenUpInv, vars
<1> QED BY <1>1, <1>2, <1>3, <1>4, <1>5

LEMMA DrainEndsKeeps ==
  ASSUME QInv, NEW e \in Events, DrainSkips(e) \/ DrainRecordFails(e)
  PROVE  QInv'
<1>1. task[e] = "started" \/ \E a \in Attempts : task[e] = a /\ pc[a] = "done"
  BY DEF DrainSkips, DrainRecordFails, QInv, CallInv
<1>2. task' = [f \in Events |-> IF f \in {e} THEN "idle" ELSE task[f]]
  BY DEF DrainSkips, DrainRecordFails, QInv, InboxTypeOK
<1> QED BY <1>1, <1>2, IdleKeeps DEF DrainSkips, DrainRecordFails

\* The outcome that is written is known, and if it says delivered it is true.
LEMMA MarkKeeps ==
  ASSUME QInv, IInv, NEW e \in Events, NEW status \in Unsettled \cup Settled,
         Mark(e, status),
         status \in Accepted => receipt[e].status \in Confirmed /\ receipt[e].injected,
         task' = [task EXCEPT ![e] = "idle"],
         \/ task[e] = "started"
         \/ status # "target_changed" /\ \E a \in Attempts : task[e] = a /\ pc[a] = "done",
         UNCHANGED <<vars, created, attempted, asked, watching, granted>>
  PROVE  QInv'
<1> USE DEF QInv
<1>1. /\ \A f \in Events \ {e} : row'[f] = row[f]
      /\ row'[e].status = IF row[e].status \in Unsettled THEN status ELSE row[e].status
      /\ \A f \in Events : /\ row'[f].sid = row[f].sid
                           /\ row'[f].route = row[f].route
                           /\ row'[f].payload = row[f].payload
      /\ row' \in [Events -> Requests]
  BY DEF Mark, InboxTypeOK, Requests
<1>2. \A f \in Events : row'[f].status = "absent" <=> row[f].status = "absent"
  BY <1>1 DEF Unsettled, Settled, Accepted, Confirmed
<1>3. InboxTypeOK'
  BY <1>1 DEF InboxTypeOK, TypeOK, vars
<1>4. StoredInv'
  BY <1>1, <1>2 DEF StoredInv, vars
<1>5. TaskInv'
  BY <1>2, InboxAssumption DEF TaskInv, vars, InboxTypeOK
<1>6. \A a \in Attempts : asked[a] = e /\ pc[a] # "done" /\ watching => FALSE
  <2> SUFFICES ASSUME NEW a \in Attempts, asked[a] = e, pc[a] # "done", watching
               PROVE  FALSE
    OBVIOUS
  <2>1. task[e] = a
    BY ConstantsAssumption DEF CallInv
  <2> QED BY <2>1, InboxAssumption
<1>7. CallInv'
  BY <1>2, <1>6 DEF CallInv, vars, Event, InboxTypeOK
<1>8. TargetInv'
  <2>1. \A a \in Attempts : Working(a) => asked[a] \in Events
    BY DEF Working, CallInv, IInv, AdmittedInv, InboxTypeOK
  <2> QED BY <1>1, <2>1 DEF TargetInv, vars, Admitted, Working
<1>9. GivenUpInv'
  <2>1. watching
    BY InboxAssumption DEF TaskInv
  <2> QED BY <1>1, <1>6, <2>1 DEF GivenUpInv, vars, InboxTypeOK
<1>10. SettledIsDelivered'
  BY <1>1 DEF SettledIsDelivered, vars
<1> QED BY <1>3, <1>4, <1>5, <1>7, <1>8, <1>9, <1>10

LEMMA RetargetKeeps ==
  ASSUME QInv, IInv, NEW e \in Events, DrainRetargets(e) PROVE QInv'
BY MarkKeeps DEF DrainRetargets, Settled, Accepted, Confirmed

LEMMA RecordKeeps ==
  ASSUME QInv, IInv, NEW e \in Events, DrainRecords(e) PROVE QInv'
<1> PICK a \in Attempts : task[e] = a
  BY DEF DrainRecords
<1> DEFINE status == Outcome(answer[a])
<1>1. asked[a] = e /\ pc[a] = "done" /\ answer[a] \in Answers \ {"none", "gone"}
  BY DEF DrainRecords, QInv, TaskInv, CallInv, IInv, TypeOK
<1>2. status \in Unsettled \cup Accepted /\ status # "target_changed"
  BY <1>1 DEF Outcome, Answers, Unsettled, Accepted, Confirmed
<1>3. status \in Accepted => receipt[e].status \in Confirmed /\ receipt[e].injected
  <2> SUFFICES ASSUME status \in Accepted
               PROVE  receipt[e].status \in Confirmed /\ receipt[e].injected
    OBVIOUS
  <2>1. answer[a] \in Accepted
    BY DEF Outcome, Accepted, Confirmed
  <2>2. Event(a) \in Events /\ receipt[Event(a)].status \in Confirmed
    BY <2>1 DEF IInv, AnswerInv
  <2>3. Event(a) = e
    BY <1>1, <2>2, ConstantsAssumption DEF QInv, CallInv
  <2> QED BY <2>2, <2>3 DEF IInv, EvidenceInv
<1> QED BY <1>1, <1>2, <1>3, MarkKeeps DEF DrainRecords, Settled

LEMMA DrainCallKeeps ==
  ASSUME QInv, IInv, NEW e \in Events, NEW a \in Attempts, DrainCalls(e, a)
  PROVE  QInv'
<1> USE DEF QInv
<1>1. /\ task[e] = "started" /\ pc[a] = "new" /\ asked[a] = None
      /\ asked' = [asked EXCEPT ![a] = e] /\ task' = [task EXCEPT ![e] = a]
      /\ UNCHANGED <<vars, row, created, attempted, watching, granted>>
  BY DEF DrainCalls, Fresh
<1>2. InboxTypeOK'
  BY <1>1 DEF InboxTypeOK, TypeOK, vars
<1>3. watching /\ row[e].status # "absent" /\ e # None
  BY <1>1, ConstantsAssumption DEF TaskInv
<1>4. answer[a] = "none" /\ Event(a) = None /\ ~Admitted(a)
  BY <1>1 DEF CallInv, IInv, AdmittedInv
<1>5. TaskInv'
  <2>1. ASSUME NEW f \in Events \ {e} PROVE task[f] # a
    BY <1>1, <2>1, ConstantsAssumption DEF TaskInv
  <2> QED BY <1>1, <1>3, <1>4, <2>1, InboxAssumption DEF TaskInv, vars, InboxTypeOK
<1>6. CallInv'
  <2>1. ASSUME NEW b \in Attempts, b # a, asked[b] # None, pc[b] # "done"
        PROVE  task'[asked[b]] = b
    BY <1>1, <1>3, <2>1, InboxAssumption DEF CallInv, InboxTypeOK
  <2>2. ASSUME NEW b \in Attempts, b # a PROVE asked'[b] = asked[b]
    BY <1>1, <2>2 DEF InboxTypeOK
  <2>3. asked'[a] = e /\ task'[e] = a
    BY <1>1 DEF InboxTypeOK
  <2> QED BY <1>1, <1>3, <1>4, <2>1, <2>2, <2>3 DEF CallInv, vars, Event
<1>7. TargetInv'
  BY <1>1, <1>4 DEF TargetInv, vars, Admitted, InboxTypeOK
<1>8. GivenUpInv'
  BY <1>1 DEF GivenUpInv, vars, InboxTypeOK
<1>9. StoredInv' /\ SettledIsDelivered'
  BY <1>1 DEF StoredInv, SettledIsDelivered, vars
<1> QED BY <1>2, <1>5, <1>6, <1>7, <1>8, <1>9

LEMMA BeginKeeps ==
  ASSUME QInv, IInv, IInv', NEW a \in Attempts, WakeBegins(a)
  PROVE  QInv'
<1> DEFINE e == asked[a]
<1> USE DEF QInv
<1>1. /\ e \in Events /\ pc[a] = "new" /\ UNCHANGED <<inbox, entry, receipt, turn>>
      /\ Pin(a, e, row[e].payload, row[e].sid, row[e].route)
  BY DEF WakeBegins, InboxTypeOK, Pin, host
<1>2. row[e].status # "absent" /\ row[e].sid # None /\ row[e].route # None
  BY <1>1, ConstantsAssumption DEF CallInv, StoredInv, InboxTypeOK
<1>3. /\ \A b \in Attempts \ {a} : /\ pc'[b] = pc[b] /\ job'[b] = job[b]
                                   /\ answer'[b] = answer[b]
      /\ answer[a] = "none" /\ ~Admitted(a)
  BY <1>1 DEF Pin, Goto, Tell, Finish, IInv, TypeOK, CallInv, AdmittedInv
<1>4. \/ /\ pc'[a] = "pinned" /\ answer'[a] = "none"
         /\ job'[a] = Job(e, row[e].payload, row[e].sid, row[e].route, None)
      \/ pc'[a] = "done" /\ answer'[a] = "failure" /\ job'[a] = job[a]
  BY <1>1, <1>2, <1>3 DEF Pin, Goto, Tell, Finish, IInv, TypeOK, Job
<1>5. InboxTypeOK'
  BY <1>1 DEF InboxTypeOK, IInv, inbox
<1>6. StoredInv' /\ SettledIsDelivered'
  BY <1>1 DEF StoredInv, SettledIsDelivered, inbox
<1>7. TaskInv'
  BY <1>1, <1>3, <1>4 DEF TaskInv, inbox
<1>8. CallInv'
  BY <1>1, <1>2, <1>3, <1>4, ConstantsAssumption DEF CallInv, inbox, Event, Job
<1>9. TargetInv'
  BY <1>1, <1>3, <1>4 DEF TargetInv, inbox, Admitted, Job
<1>10. GivenUpInv'
  BY <1>1, <1>3 DEF GivenUpInv, inbox
<1> QED BY <1>5, <1>6, <1>7, <1>8, <1>9, <1>10

LEMMA RestartKeeps == ASSUME QInv, IInv, IInv', Restart PROVE QInv'
<1> USE DEF QInv
<1>1. /\ UNCHANGED <<entry, job, receipt, row, created, granted>>
      /\ task' = [e \in Events |-> "idle"] /\ watching' = TRUE
      /\ asked' = [a \in Attempts |-> IF pc[a] = "new" THEN None ELSE asked[a]]
      /\ pc' = [a \in Attempts |-> IF pc[a] = "new" THEN "new" ELSE "done"]
      /\ \A a \in Attempts : Admitted(a)' <=> Admitted(a)
      /\ \A a \in Attempts : pc[a] = "new" => answer'[a] = answer[a]
      /\ attempted' = [e \in Events |-> 0]
  BY DEF Restart, Crash, Admitted, IInv, TypeOK
<1>2. InboxTypeOK'
  BY <1>1 DEF InboxTypeOK, IInv
<1>3. StoredInv' /\ SettledIsDelivered'
  BY <1>1 DEF StoredInv, SettledIsDelivered
<1>4. TaskInv'
  BY <1>1, InboxAssumption DEF TaskInv
<1>5. CallInv'
  BY <1>1 DEF CallInv, Event, InboxTypeOK
<1>6. TargetInv'
  <2>1. \A a \in Attempts : Admitted(a) => pc[a] # "new"
    BY DEF IInv, AdmittedInv
  <2> QED BY <1>1, <2>1 DEF TargetInv
<1>7. GivenUpInv'
  BY <1>1, ConstantsAssumption DEF GivenUpInv
<1> QED BY <1>2, <1>3, <1>4, <1>5, <1>6, <1>7

\* Requests, drains and calls stay in step with each other.
LEMMA QInductive ==
  ASSUME QInv, IInv, IInv', [InboxNext]_all PROVE QInv'
<1>1. Permit => QInv'
  BY DEF Permit, QInv, InboxTypeOK, TypeOK, StoredInv, TaskInv, CallInv, TargetInv,
         GivenUpInv, SettledIsDelivered, vars, Event, Admitted
<1>2. WatcherStops => QInv'
  BY IdleKeeps DEF WatcherStops
<1>3. UNCHANGED all => QInv'
  BY DEF all, inbox, QInv, InboxTypeOK, TypeOK, StoredInv, TaskInv, CallInv, TargetInv,
         GivenUpInv, SettledIsDelivered, vars, Event, Admitted
<1> QED
  BY <1>1, <1>2, <1>3, EnqueueKeeps, ScanKeeps, DrainEndsKeeps, RetargetKeeps, RecordKeeps,
     DrainCallKeeps, BeginKeeps, WakesKeep, WorldKeeps, RestartKeeps
  DEF InboxNext, Drain

-----------------------------------------------------------------------------
LEMMA InboxStarts == InboxInit => Init /\ QInv
<1> SUFFICES ASSUME InboxInit PROVE QInv
  BY DEF InboxInit
<1> USE ConstantsAssumption, InboxAssumption DEF InboxInit, Init, NoRequest, Request
<1>1. TypeOK
  BY DEF TypeOK, Row, Job, NoReceipt, NoJob, Receipts, Jobs, Sessions, Statuses, Labels, Answers
<1>2. InboxTypeOK
  BY <1>1 DEF InboxTypeOK, Requests
<1>3. StoredInv /\ TaskInv /\ CallInv
  BY DEF StoredInv, TaskInv, CallInv, Event, NoJob, Job
<1>4. TargetInv /\ GivenUpInv /\ SettledIsDelivered
  BY DEF TargetInv, GivenUpInv, SettledIsDelivered, Admitted, Accepted, Confirmed
<1> QED BY <1>2, <1>3, <1>4 DEF QInv

\* The inbox keeps its invariant and the claim discipline of the wakes.
THEOREM InboxDiscipline == InboxSpec => [](QInv /\ IInv)
<1>1. Init => IInv
  BY InitialDiscipline
<1>2. QInv /\ IInv /\ [InboxNext]_all => (QInv /\ IInv)'
  <2> SUFFICES ASSUME QInv, IInv, [InboxNext]_all PROVE (QInv /\ IInv)'
    OBVIOUS
  <2>1. [Next]_vars
    BY CallsAreWakes
  <2>2. TypeOK'
    BY <2>1, TypeStep DEF IInv
  <2>3. IInv'
    BY <2>1, <2>2, Inductive
  <2> QED BY <2>3, QInductive
<1> QED BY <1>1, <1>2, InboxStarts, PTL DEF InboxSpec

\* drain_request uses native_wake.wake as NativeWake lets callers use it, over
\* any stop and restart: the inbox with its wakes implements NativeWake.
THEOREM InboxUsesWake == InboxSpec => Spec
<1>1. QInv /\ [InboxNext]_all => [Next]_vars
  BY CallsAreWakes
<1> QED BY <1>1, InboxStarts, InboxDiscipline, PTL DEF InboxSpec, Spec

\* So what the wakes promise holds of them under the inbox, too: one turn per
\* request, delivered receipts that are backed, the promise of WakeOnce.
THEOREM InboxDeliversOnce ==
  InboxSpec => []AtMostOnce /\ []ConfirmedIsPersisted /\ KeepsPromise
BY InboxUsesWake, NeverTwice, DeliveredIsPersisted, ImplementsPromise, PTL

\* Requests, tasks and calls keep their types.
THEOREM InboxTypes == InboxSpec => []InboxTypeOK
<1>1. QInv => InboxTypeOK
  BY DEF QInv
<1> QED BY <1>1, InboxDiscipline, PTL

\* A request's turn runs where it was addressed to, with its own text.
THEOREM RequestsStayAddressed == InboxSpec => []NeverRedirected
<1>1. QInv /\ IInv => NeverRedirected
  <2> SUFFICES ASSUME QInv, IInv, NEW a \in Attempts, Admitted(a)
               PROVE  LET r == row[Event(a)] IN
                      job[a].sid = r.sid /\ job[a].route = r.route /\ job[a].payload = r.payload
    BY DEF NeverRedirected
  <2>1. Event(a) = asked[a]
    BY ConstantsAssumption DEF QInv, CallInv, IInv, AdmittedInv
  <2> QED BY <2>1 DEF QInv, TargetInv
<1> QED BY <1>1, InboxDiscipline, PTL

\* A request that reads delivered is delivered, for ever after.
THEOREM RequestsReadTrue == InboxSpec => []SettledIsDelivered
<1>1. QInv => SettledIsDelivered
  BY DEF QInv
<1> QED BY <1>1, InboxDiscipline, PTL

\* A request that was given up is not delivered later.
THEOREM GivenUpForGood == InboxSpec => GivenUpStaysUndelivered
<1>1. ASSUME QInv, IInv, [InboxNext]_all, NEW a \in Attempts, ~Admitted(a), Admitted(a)'
      PROVE  row[Event(a)].status # "target_changed"
  <2>1. pc[a] = "dispatching"
    BY <1>1, CallsAreWakes, TurnsStartByAdmission DEF AdmitStarts, AdmitUnclear
  <2>2. Event(a) \in Events /\ Event(a) = asked[a]
    BY <2>1, <1>1, ConstantsAssumption DEF QInv, CallInv, IInv, TypeOK, Event
  <2> QED BY <1>1, <2>1, <2>2 DEF QInv, GivenUpInv
<1>2. QInv /\ IInv /\ [InboxNext]_all =>
        [\A a \in Attempts : ~Admitted(a) /\ Admitted(a)' =>
           row[Event(a)].status # "target_changed"]_all
  BY <1>1
<1> QED BY <1>2, InboxDiscipline, PTL DEF InboxSpec, GivenUpStaysUndelivered

(***************************************************************************)
(* The response observer: the wrapper comes and goes with the wakes of     *)
(* NativeWake, and no wake loses the one it is registered with to another. *)
(***************************************************************************)

(* The wakes are those of NativeWake.                                      *)

LEMMA ObservedIsWake == [ObsNext]_obsVars => [Next]_vars
BY DEF ObsNext, Next, TurnRuns, TurnReplies, Turn, HostSets, PackageWraps, PackageUnwraps,
       Dies, obsVars

\* Observing a reply delays what a turn persists and changes nothing else of
\* the wakes: with the observer they still implement NativeWake.
THEOREM ObservationRefines == ObsSpec => Spec
<1>1. ObsInit => Init
  BY DEF ObsInit
<1> QED BY <1>1, ObservedIsWake, PTL DEF ObsSpec, Spec

\* So the wakes keep, while they are observed, what NativeWake promises: turns
\* exclude each other and match their receipts, and evidence stays.
THEOREM ObservedWakesKeep ==
  ObsSpec => /\ []OneTurnPerSession /\ []TurnMatchesReceipt
             /\ []AcceptedIsRecorded /\ NoDowngrade
BY ObservationRefines, ConversationIsExclusive, TurnsMatch, AnswersAreTrue, EvidenceStays, PTL

-----------------------------------------------------------------------------
(* The inductive invariant.                                                *)

\* The layers a handler can have; the innermost is a handler of the host, and
\* those are numbered as they come.
Parts == Attempts \cup Packages \cup Nat
Handlers == {c \in Seq(Parts) : Len(c) > 0 /\ HostOf(c) \in Nat}

ChainInv == /\ changes \in Nat
            /\ chain \in [Adapters -> Handlers]
            /\ \A d \in Adapters : HostOf(chain[d]) <= changes
            /\ state \in [Adapters -> Attempts \cup {None}]
            /\ reg \in [Attempts -> Attempts \cup {None}]
            /\ DOMAIN original = Attempts

\* The wrapper in force belongs to a wake on that adapter, and is in the chain
\* unless the host has set another handler since.
ForceInv ==
  \A d \in Adapters : LET s == state[d] IN
     s # None => /\ pc[s] # "new" /\ pc[s] # "pinned" /\ pc[s] # "owner"
                 /\ Via(s) = d
                 /\ original[s] \in Handlers /\ HostOf(original[s]) <= changes
                 /\ HostOf(original[s]) = HostOf(chain[d]) => s \in Layers(chain[d])

\* A wake that settles is registered, with the wrapper in force.
RegInv ==
  \A a \in Attempts :
     /\ Settling(pc[a]) <=> reg[a] # None
     /\ reg[a] # None => Via(a) \in Adapters /\ state[Via(a)] = reg[a]

OInv == ChainInv /\ ForceInv /\ RegInv

-----------------------------------------------------------------------------
(* What layers do to a handler.                                            *)

LEMMA Prepended ==
  ASSUME NEW c \in Seq(Parts), NEW l \in Parts
  PROVE  /\ <<l>> \o c \in Seq(Parts) /\ Len(<<l>> \o c) = Len(c) + 1
         /\ DOMAIN (<<l>> \o c) = 1..(Len(c) + 1)
         /\ (<<l>> \o c)[1] = l
         /\ \A i \in 1..Len(c) : (<<l>> \o c)[i + 1] = c[i]
<1> DEFINE t == <<l>> \o c
<1>1. <<l>> \in Seq(Parts) /\ Len(<<l>>) = 1 /\ <<l>>[1] = l /\ Len(c) \in Nat
  BY LenProperties
<1>2. /\ t \in Seq(Parts) /\ Len(t) = Len(c) + 1
      /\ \A i \in 1..Len(c) + 1 : t[i] = IF i <= 1 THEN l ELSE c[i - 1]
  BY <1>1, ConcatProperties
<1> HIDE DEF t
<1>3. DOMAIN t = 1..(Len(c) + 1)
  BY <1>2, LenProperties
<1>4. t[1] = l /\ \A i \in 1..Len(c) : t[i + 1] = c[i]
  BY <1>1, <1>2
<1> QED BY <1>2, <1>3, <1>4 DEF t

LEMMA Beheaded ==
  ASSUME NEW c \in Seq(Parts), c # <<>>
  PROVE  /\ Tail(c) \in Seq(Parts) /\ Len(Tail(c)) = Len(c) - 1 /\ Len(c) > 0
         /\ DOMAIN Tail(c) = 1..(Len(c) - 1) /\ DOMAIN c = 1..Len(c)
         /\ Head(c) = c[1]
         /\ \A i \in 1..(Len(c) - 1) : Tail(c)[i] = c[i + 1]
<1> DEFINE t == Tail(c)
<1>1. Len(c) \in Nat /\ Len(c) > 0 /\ DOMAIN c = 1..Len(c) /\ Head(c) = c[1]
  BY LenProperties
<1>2. t \in Seq(Parts) /\ Len(t) = Len(c) - 1 /\ \A i \in 1..(Len(c) - 1) : t[i] = c[i + 1]
  BY <1>1, HeadTailProperties
<1> HIDE DEF t
<1>3. DOMAIN t = 1..(Len(c) - 1)
  BY <1>2, LenProperties
<1> QED BY <1>1, <1>2, <1>3 DEF t

LEMMA PutOn ==
  ASSUME NEW c \in Handlers, NEW l \in Parts
  PROVE  /\ <<l>> \o c \in Handlers
         /\ HostOf(<<l>> \o c) = HostOf(c)
         /\ Layers(<<l>> \o c) = Layers(c) \cup {l}
<1> DEFINE t == <<l>> \o c
<1>1. c \in Seq(Parts) /\ Len(c) \in Nat /\ Len(c) > 0 /\ DOMAIN c = 1..Len(c)
  BY LenProperties DEF Handlers
<1>2. <<l>> \in Seq(Parts) /\ Len(<<l>>) = 1 /\ <<l>>[1] = l
  OBVIOUS
<1>3. /\ t \in Seq(Parts) /\ Len(t) = Len(c) + 1
      /\ \A i \in 1..Len(c) + 1 : t[i] = IF i <= 1 THEN l ELSE c[i - 1]
  BY <1>1, <1>2, ConcatProperties
<1> HIDE DEF t
<1>4. DOMAIN t = 1..Len(c) + 1
  BY <1>3, LenProperties
<1>5. t[Len(c) + 1] = c[Len(c)]
  BY <1>1, <1>3
<1>6. HostOf(t) = HostOf(c) /\ t \in Handlers
  BY <1>1, <1>3, <1>5 DEF HostOf, Handlers
<1>7. ASSUME NEW m \in Layers(c) PROVE m \in Layers(t)
  <2>1. PICK i \in 1..Len(c) : c[i] = m
    BY <1>1, <1>7 DEF Layers
  <2>2. t[i + 1] = m /\ i + 1 \in 1..Len(c) + 1
    BY <1>1, <1>3, <2>1
  <2> QED BY <1>4, <2>2 DEF Layers
<1>8. l \in Layers(t)
  BY <1>1, <1>3, <1>4 DEF Layers
<1>9. ASSUME NEW m \in Layers(t), m # l PROVE m \in Layers(c)
  <2>1. PICK i \in 1..Len(c) + 1 : t[i] = m
    BY <1>4, <1>9 DEF Layers
  <2>2. i # 1 /\ c[i - 1] = m /\ i - 1 \in 1..Len(c)
    BY <1>1, <1>3, <1>9, <2>1
  <2> QED BY <1>1, <2>2 DEF Layers
<1> QED BY <1>6, <1>7, <1>8, <1>9 DEF t

LEMMA TakeOff ==
  ASSUME NEW c \in Handlers, Head(c) \notin Nat
  PROVE  /\ Tail(c) \in Handlers
         /\ HostOf(Tail(c)) = HostOf(c)
         /\ \A l \in Layers(c) : l = Head(c) \/ l \in Layers(Tail(c))
<1> DEFINE t == Tail(c)
<1>1. c \in Seq(Parts) /\ Len(c) \in Nat /\ Len(c) > 0 /\ DOMAIN c = 1..Len(c) /\ c # <<>>
  BY LenProperties DEF Handlers
<1>2. Head(c) = c[1]
  BY <1>1
<1>3. Len(c) > 1
  BY <1>1, <1>2 DEF Handlers, HostOf
<1>4. /\ t \in Seq(Parts) /\ Len(t) = Len(c) - 1
      /\ \A i \in 1..Len(c) - 1 : t[i] = c[i + 1]
  BY <1>1, HeadTailProperties
<1> HIDE DEF t
<1>5. DOMAIN t = 1..Len(c) - 1
  BY <1>4, LenProperties
<1>6. t[Len(c) - 1] = c[Len(c)]
  BY <1>1, <1>3, <1>4
<1>7. HostOf(t) = HostOf(c) /\ t \in Handlers
  BY <1>1, <1>3, <1>4, <1>6 DEF HostOf, Handlers
<1>8. ASSUME NEW l \in Layers(c), l # Head(c) PROVE l \in Layers(t)
  <2>1. PICK i \in 1..Len(c) : c[i] = l
    BY <1>1, <1>8 DEF Layers
  <2>2. i # 1 /\ t[i - 1] = l /\ i - 1 \in 1..Len(c) - 1
    BY <1>1, <1>2, <1>4, <1>8, <2>1
  <2> QED BY <1>5, <2>2 DEF Layers
<1> QED BY <1>7, <1>8 DEF t

LEMMA Bare == ASSUME NEW n \in Nat PROVE <<n>> \in Handlers /\ HostOf(<<n>>) = n
BY DEF Handlers, HostOf, Parts

-----------------------------------------------------------------------------
(* What the steps of a wake do to its place and its adapter.               *)

Before == {"new", "pinned", "owner"}

\* From dispatching on a wake keeps its adapter, and it is admitted only with
\* one; the steps of a wake leave the others where they are.
LEMMA WakesMove ==
  ASSUME IInv, NEW a \in Attempts, Step(a) \/ Fault(a) \/ Call(a)
  PROVE  /\ \A b \in Attempts \ {a} : pc'[b] = pc[b] /\ job'[b] = job[b]
         /\ pc[a] \notin Before => pc'[a] \notin Before /\ Via(a)' = Via(a)
         /\ ~Settling(pc[a]) /\ Settling(pc'[a]) =>
              pc[a] \notin Before /\ Via(a) \in Adapters
<1> USE DEF IInv, TypeOK, Goto, Tell, Finish, Event, Row, Job, Via, Settling, Before
<1>1. CASE Call(a)
  BY <1>1 DEF Call, Pin
<1>2. CASE ClaimConflicts(a) \/ ClaimOwns(a) \/ ClaimObserves(a)
  BY <1>2 DEF ClaimConflicts, ClaimOwns, ClaimObserves
<1>3. CASE MarkDispatching(a)
  BY <1>3 DEF MarkDispatching
<1>4. CASE AdmitStarts(a) \/ AdmitUnclear(a)
  BY <1>4 DEF AdmitStarts, AdmitUnclear, Admissible, Jobs
<1>5. CASE AdmitRefused(a) \/ RecordRefusal(a) \/ RecordDoubt(a)
  BY <1>5 DEF AdmitRefused, RecordRefusal, RecordDoubt
<1>6. CASE SettleRead(a) \/ SettleFound(a) \/ SettleUnsure(a) \/ SettleInterrupted(a)
  BY <1>6 DEF SettleRead, SettleFound, SettleUnsure, SettleInterrupted, Exact
<1>7. CASE ReadTranscript(a) \/ Reconcile(a) \/ CallerCancelled(a) \/ DatabaseFails(a)
  BY <1>7 DEF ReadTranscript, Reconcile, CallerCancelled, DatabaseFails
<1> QED BY <1>1, <1>2, <1>3, <1>4, <1>5, <1>6, <1>7 DEF Step, Fault

-----------------------------------------------------------------------------
(* The invariant is kept.                                                  *)

Kept(b) == pc[b] \notin Before => pc'[b] \notin Before /\ Via(b)' = Via(b)

LEMMA QuietKeeps ==
  ASSUME OInv, UNCHANGED <<chain, state, original, reg, changes>>,
         \A b \in Attempts : Kept(b),
         \A b \in Attempts : Settling(pc'[b]) <=> Settling(pc[b])
  PROVE  OInv'
<1>1. ChainInv'
  BY DEF OInv, ChainInv
<1>2. ForceInv'
  BY DEF OInv, ForceInv, ChainInv, Kept, Before
<1>3. RegInv'
  BY DEF OInv, RegInv, Kept, Before, Settling
<1> QED BY <1>1, <1>2, <1>3 DEF OInv

LEMMA RegisterKeeps ==
  ASSUME OInv, NEW a \in Attempts, Register(a),
         \A b \in Attempts : Kept(b),
         \A b \in Attempts \ {a} : pc'[b] = pc[b],
         pc[a] \notin Before, Via(a) \in Adapters, Settling(pc'[a])
  PROVE  OInv'
<1> USE DEF OInv
<1> DEFINE d == Via(a)
<1>0. a # None /\ a \in Parts
  BY ConstantsAssumption DEF Parts
<1>1. CASE state[d] # None
  <2>1. reg' = [reg EXCEPT ![a] = state[d]] /\ UNCHANGED <<chain, state, original, changes>>
    BY <1>1 DEF Register
  <2>2. ChainInv' /\ ForceInv'
    BY <2>1 DEF ChainInv, ForceInv, Kept, Before
  <2>3. RegInv'
    BY <1>1, <2>1 DEF ChainInv, RegInv, Kept, Before, Settling
  <2> QED BY <2>2, <2>3
<1>2. CASE state[d] = None
  <2>1. /\ state' = [state EXCEPT ![d] = a]
        /\ original' = [original EXCEPT ![a] = chain[d]]
        /\ chain' = [chain EXCEPT ![d] = <<a>> \o @]
        /\ reg' = [reg EXCEPT ![a] = a]
        /\ changes' = changes
    BY <1>2 DEF Register
  <2>2. /\ chain[d] \in Handlers /\ <<a>> \o chain[d] \in Handlers
        /\ HostOf(<<a>> \o chain[d]) = HostOf(chain[d])
        /\ a \in Layers(<<a>> \o chain[d])
        /\ HostOf(chain[d]) <= changes
    BY <1>0, PutOn DEF ChainInv
  <2>3. /\ state'[d] = a /\ original'[a] = chain[d] /\ chain'[d] = <<a>> \o chain[d]
        /\ \A f \in Adapters \ {d} : state'[f] = state[f] /\ chain'[f] = chain[f]
        /\ \A b \in Attempts \ {a} : original'[b] = original[b]
    BY <2>1 DEF ChainInv
  <2>4. ChainInv'
    BY <2>1, <2>2 DEF ChainInv
  <2>5. \A f \in Adapters \ {d} : state[f] # None => state[f] \in Attempts \ {a}
    BY DEF ForceInv, ChainInv
  <2>6. ForceInv'
    <3> SUFFICES ASSUME NEW f \in Adapters, state'[f] # None
                 PROVE  LET s == state'[f] IN
                        /\ pc'[s] \notin Before
                        /\ job'[s].adapter = f
                        /\ original'[s] \in Handlers /\ HostOf(original'[s]) <= changes
                        /\ HostOf(original'[s]) = HostOf(chain'[f]) => s \in Layers(chain'[f])
      BY <2>1 DEF ForceInv, Before, Via
    <3>1. CASE f = d
      BY <2>2, <2>3, <3>1 DEF Kept, Via
    <3>2. CASE f # d
      BY <2>3, <2>5, <3>2 DEF ForceInv, Kept, Before, Via
    <3> QED BY <3>1, <3>2
  <2>7. RegInv'
    <3>1. \A b \in Attempts \ {a} : reg[b] # None => Via(b) # d
      BY <1>2 DEF RegInv
    <3> QED BY <1>0, <2>1, <2>3, <3>1 DEF ChainInv, RegInv, Kept, Before, Settling
  <2> QED BY <2>4, <2>6, <2>7
<1> QED BY <1>1, <1>2

LEMMA ReleaseKeeps ==
  ASSUME OInv, NEW a \in Attempts, Release(a), reg[a] # None, ~Settling(pc'[a]),
         \A b \in Attempts : Kept(b),
         \A b \in Attempts \ {a} : pc'[b] = pc[b]
  PROVE  OInv'
<1> USE DEF OInv
<1> DEFINE d == Via(a)
           s == reg[a]
           last == \A b \in Attempts \ {a} : reg[b] # s
<1>1. /\ reg' = [reg EXCEPT ![a] = None]
      /\ chain' = [chain EXCEPT ![d] = IF last /\ Head(@) = s THEN original[s] ELSE @]
      /\ state' = [state EXCEPT ![d] = IF last /\ @ = s THEN None ELSE @]
      /\ UNCHANGED <<original, changes>>
  BY DEF Release
<1>2. /\ d \in Adapters /\ state[d] = s /\ s \in Attempts
      /\ original[s] \in Handlers /\ HostOf(original[s]) <= changes
  BY DEF RegInv, ForceInv, ChainInv
<1>3. CASE last
  <2>1. state'[d] = None /\ \A f \in Adapters \ {d} : state'[f] = state[f] /\ chain'[f] = chain[f]
    BY <1>1, <1>2, <1>3 DEF ChainInv
  <2>2. ChainInv'
    BY <1>1, <1>2 DEF ChainInv
  <2>3. ForceInv'
    BY <1>1, <2>1 DEF ForceInv, ChainInv, Kept, Before
  <2>4. \A b \in Attempts \ {a} : reg[b] # None => Via(b) # d
    BY <1>2, <1>3 DEF RegInv
  <2>5. RegInv'
    BY <1>1, <2>1, <2>4 DEF RegInv, ChainInv, Kept, Before, Settling
  <2> QED BY <2>2, <2>3, <2>5
<1>4. CASE ~last
  <2>1. UNCHANGED <<chain, state>>
    BY <1>1, <1>2, <1>4 DEF ChainInv
  <2>2. ChainInv'
    BY <1>1, <2>1 DEF ChainInv
  <2>3. ForceInv'
    BY <1>1, <2>1 DEF ChainInv, ForceInv, Kept, Before
  <2>4. RegInv'
    BY <1>1, <2>1 DEF RegInv, ChainInv, Kept, Before, Settling
  <2> QED BY <2>2, <2>3, <2>4
<1> QED BY <1>3, <1>4

LEMMA WakeKeeps ==
  ASSUME OInv, IInv, NEW a \in Attempts, Step(a) \/ Fault(a), Observes(a)
  PROVE  OInv'
<1>1. (\A b \in Attempts : Kept(b)) /\ \A b \in Attempts \ {a} : pc'[b] = pc[b]
  BY WakesMove DEF Kept, Via
<1>2. CASE ~Settling(pc[a]) /\ Settling(pc'[a])
  BY <1>1, <1>2, WakesMove, RegisterKeeps DEF Observes
<1>3. CASE Settling(pc[a]) /\ ~Settling(pc'[a])
  BY <1>1, <1>3, ReleaseKeeps DEF Observes, OInv, RegInv
<1>4. CASE Settling(pc[a]) <=> Settling(pc'[a])
  <2>1. UNCHANGED observer
    BY <1>4 DEF Observes
  <2> QED BY <1>1, <1>4, <2>1, QuietKeeps DEF observer
<1> QED BY <1>2, <1>3, <1>4

-----------------------------------------------------------------------------
(* The host and other packages.                                            *)

LEMMA HostSetsKeeps ==
  ASSUME OInv, NEW d \in Adapters, HostSets(d)
  PROVE  OInv'
<1> USE DEF OInv
<1>1. /\ changes \in Nat /\ changes' = changes + 1
      /\ chain' = [chain EXCEPT ![d] = <<changes'>>]
      /\ UNCHANGED <<vars, state, original, reg>>
  BY DEF HostSets, ChainInv
<1>2. <<changes'>> \in Handlers /\ HostOf(<<changes'>>) = changes'
  BY <1>1, Bare
<1>3. ChainInv'
  <2>1. ASSUME NEW f \in Adapters
        PROVE  chain'[f] \in Handlers /\ HostOf(chain'[f]) <= changes'
    <3>1. HostOf(chain[f]) \in Nat /\ HostOf(chain[f]) <= changes /\ chain[f] \in Handlers
      BY DEF ChainInv, Handlers
    <3>2. CASE f = d
      BY <1>1, <1>2, <3>2 DEF ChainInv
    <3>3. CASE f # d
      BY <1>1, <3>1, <3>3 DEF ChainInv
    <3> QED BY <3>2, <3>3
  <2>2. chain' \in [Adapters -> Handlers]
    BY <1>1, <1>2 DEF ChainInv
  <2> QED BY <1>1, <2>1, <2>2 DEF ChainInv
<1>4. ForceInv'
  <2> SUFFICES ASSUME NEW f \in Adapters, state[f] # None
               PROVE  LET s == state[f] IN
                      /\ pc[s] \notin Before /\ job[s].adapter = f
                      /\ original[s] \in Handlers /\ HostOf(original[s]) <= changes'
                      /\ HostOf(original[s]) = HostOf(chain'[f]) => s \in Layers(chain'[f])
    BY <1>1 DEF ForceInv, Before, Via, vars
  <2>1. /\ original[state[f]] \in Handlers /\ HostOf(original[state[f]]) <= changes
        /\ HostOf(original[state[f]]) \in Nat
    BY DEF ForceInv, Handlers
  <2>2. CASE f = d
    BY <1>1, <1>2, <2>1, <2>2 DEF ChainInv, ForceInv, Before, Via
  <2>3. CASE f # d
    BY <1>1, <2>1, <2>3 DEF ChainInv, ForceInv, Before, Via
  <2> QED BY <2>2, <2>3
<1>5. RegInv'
  BY <1>1 DEF RegInv, vars, Via
<1> QED BY <1>3, <1>4, <1>5

\* A package's layer on or off an adapter: the host's handler and the plugin's
\* wrapper stay.
LEMMA LayersKeep ==
  ASSUME OInv, NEW d \in Adapters, NEW c \in Handlers, HostOf(c) = HostOf(chain[d]),
         chain' = [chain EXCEPT ![d] = c],
         Layers(chain[d]) \cap Attempts \subseteq Layers(c),
         UNCHANGED <<vars, state, original, reg>>,
         changes' \in Nat, changes <= changes'
  PROVE  OInv'
<1> USE DEF OInv
<1>1. chain'[d] = c /\ \A f \in Adapters \ {d} : chain'[f] = chain[f]
  BY DEF ChainInv
<1>2. \A f \in Adapters : HostOf(chain[f]) \in Nat /\ HostOf(chain'[f]) = HostOf(chain[f])
  BY <1>1 DEF ChainInv, Handlers
<1>3. ChainInv'
  BY <1>1, <1>2 DEF ChainInv
<1>4. ForceInv'
  <2> SUFFICES ASSUME NEW f \in Adapters, state[f] # None
               PROVE  LET s == state[f] IN
                      /\ pc[s] \notin Before /\ job[s].adapter = f
                      /\ original[s] \in Handlers /\ HostOf(original[s]) <= changes'
                      /\ HostOf(original[s]) = HostOf(chain'[f]) => s \in Layers(chain'[f])
    BY DEF ForceInv, Before, Via, vars
  <2>1. /\ state[f] \in Attempts /\ original[state[f]] \in Handlers
        /\ HostOf(original[state[f]]) <= changes
        /\ HostOf(original[state[f]]) \in Nat /\ changes \in Nat
    BY DEF ForceInv, ChainInv, Handlers
  <2>2. HostOf(original[state[f]]) <= changes'
    BY <2>1
  <2>3. HostOf(original[state[f]]) = HostOf(chain'[f]) => state[f] \in Layers(chain'[f])
    BY <1>1, <1>2, <2>1 DEF ForceInv
  <2> QED BY <2>1, <2>2, <2>3 DEF ForceInv, Before, Via
<1>5. RegInv'
  BY DEF RegInv, vars, Via
<1> QED BY <1>3, <1>4, <1>5

LEMMA PackageKeeps ==
  ASSUME OInv, NEW d \in Adapters, NEW p \in Packages, PackageWraps(d, p) \/ PackageUnwraps(d, p)
  PROVE  OInv'
<1>1. chain[d] \in Handlers /\ changes \in Nat /\ p \in Parts /\ p \notin Attempts /\ p \notin Nat
  BY ObserverAssumption DEF OInv, ChainInv, Parts
<1>2. CASE PackageWraps(d, p)
  <2>1. /\ chain' = [chain EXCEPT ![d] = <<p>> \o chain[d]] /\ changes' = changes + 1
        /\ UNCHANGED <<vars, state, original, reg>>
    BY <1>2 DEF PackageWraps, OInv, ChainInv
  <2>2. PICK c \in Handlers : /\ c = <<p>> \o chain[d] /\ HostOf(c) = HostOf(chain[d])
                             /\ Layers(c) = Layers(chain[d]) \cup {p}
    BY <1>1, PutOn
  <2>3. Layers(chain[d]) \cap Attempts \subseteq Layers(c)
    BY <1>1, <2>2
  <2>4. chain' = [chain EXCEPT ![d] = c]
    BY <2>1, <2>2
  <2>5. changes' \in Nat /\ changes <= changes'
    BY <1>1, <2>1
  <2> QED BY <2>1, <2>2, <2>3, <2>4, <2>5, LayersKeep
<1>3. CASE PackageUnwraps(d, p)
  <2>1. /\ chain' = [chain EXCEPT ![d] = Tail(chain[d])] /\ changes' = changes
        /\ Head(chain[d]) = p
        /\ UNCHANGED <<vars, state, original, reg>>
    BY <1>3 DEF PackageUnwraps, OInv, ChainInv
  <2>2. PICK c \in Handlers : /\ c = Tail(chain[d]) /\ HostOf(c) = HostOf(chain[d])
                             /\ \A l \in Layers(chain[d]) : l = p \/ l \in Layers(c)
    BY <1>1, <2>1, TakeOff
  <2>3. Layers(chain[d]) \cap Attempts \subseteq Layers(c)
    BY <1>1, <2>2
  <2>4. chain' = [chain EXCEPT ![d] = c]
    BY <2>1, <2>2
  <2>5. changes' \in Nat /\ changes <= changes'
    BY <1>1, <2>1
  <2> QED BY <2>1, <2>2, <2>3, <2>4, <2>5, LayersKeep
<1> QED BY <1>2, <1>3

LEMMA DiesKeeps == ASSUME OInv, Dies PROVE OInv'
<1>1. /\ \A a \in Attempts : ~Settling(pc'[a])
      /\ changes' = changes /\ original' = original
      /\ chain' = [d \in Adapters |-> <<0>>]
      /\ state' = [d \in Adapters |-> None] /\ reg' = [a \in Attempts |-> None]
  BY DEF Dies, Crash, Settling
<1>2. <<0>> \in Handlers /\ HostOf(<<0>>) = 0
  BY Bare
<1>3. ChainInv'
  BY <1>1, <1>2 DEF OInv, ChainInv
<1>4. ForceInv' /\ RegInv'
  BY <1>1 DEF ForceInv, RegInv
<1> QED BY <1>3, <1>4 DEF OInv

-----------------------------------------------------------------------------
LEMMA ObserverStarts == ObsInit => OInv
<1> SUFFICES ASSUME ObsInit PROVE OInv
  OBVIOUS
<1>1. <<0>> \in Handlers /\ HostOf(<<0>>) = 0
  BY Bare
<1>2. ChainInv
  BY <1>1 DEF ObsInit, ChainInv
<1>3. ForceInv /\ RegInv
  BY DEF ObsInit, Init, ForceInv, RegInv, Settling
<1> QED BY <1>2, <1>3 DEF OInv

LEMMA ObserverInductive == ASSUME OInv, IInv, [ObsNext]_obsVars PROVE OInv'
<1>1. ASSUME NEW a \in Attempts, Call(a) /\ UNCHANGED observer PROVE OInv'
  <2>1. pc[a] = "new" /\ ~Settling(pc'[a])
    BY <1>1 DEF Call, Pin, Goto, Finish, Settling, IInv, TypeOK
  <2>2. (\A b \in Attempts : Kept(b)) /\ \A b \in Attempts \ {a} : pc'[b] = pc[b]
    BY <1>1, WakesMove DEF Kept, Via
  <2> QED BY <1>1, <2>1, <2>2, QuietKeeps DEF observer, Settling
<1>2. UNCHANGED <<pc, job, chain, state, original, reg, changes>> => OInv'
  <2> SUFFICES ASSUME UNCHANGED <<pc, job, chain, state, original, reg, changes>> PROVE OInv'
    OBVIOUS
  <2>1. \A b \in Attempts : Kept(b)
    BY DEF Kept, Via
  <2> QED BY <2>1, QuietKeeps
<1>3. ASSUME NEW a \in Attempts,
             TurnRuns(a) \/ TurnReplies(a) \/ (TurnEnds(a) /\ UNCHANGED observer)
      PROVE  OInv'
  BY <1>2, <1>3 DEF TurnRuns, TurnReplies, PersistWake, PersistReply, TurnEnds, observer
<1>4. World /\ UNCHANGED observer => OInv'
  BY <1>2 DEF World, ForeignTurn, Reset, Reroute, SwapAdapter, OpenOrClose, Age, observer
<1>5. UNCHANGED obsVars => OInv'
  BY <1>2 DEF obsVars, vars, observer
<1> QED
  BY <1>1, <1>3, <1>4, <1>5, WakeKeeps, HostSetsKeeps, PackageKeeps, DiesKeeps DEF ObsNext

\* Wrappers and registrations agree in every reachable state.
THEOREM ObserverDiscipline == ObsSpec => []OInv
<1>1. OInv /\ IInv /\ [ObsNext]_obsVars => OInv'
  BY ObserverInductive
<1> QED BY <1>1, ObserverStarts, ObservationRefines, ClaimDiscipline, PTL DEF ObsSpec

\* A wake keeps the wrapper it is registered with, whoever else settles and
\* whatever other packages do, until its own release.
THEOREM ObservationLasts == ObsSpec => []RegistrationHolds
<1>1. OInv => RegistrationHolds
  <2> SUFFICES ASSUME OInv, NEW a \in Attempts, reg[a] # None,
                      HostOf(original[reg[a]]) = HostOf(chain[Via(a)])
               PROVE  state[Via(a)] = reg[a] /\ reg[a] \in Layers(chain[Via(a)])
    BY DEF RegistrationHolds
  <2>1. Via(a) \in Adapters /\ state[Via(a)] = reg[a]
    BY DEF OInv, RegInv
  <2> QED BY <2>1 DEF OInv, ForceInv
<1> QED BY <1>1, ObserverDiscipline, PTL

-----------------------------------------------------------------------------
(* A handler without the plugin's wrappers.                                *)

LEMMA StripBare == ASSUME NEW n, n \notin Attempts PROVE StripsTo(<<n>>, <<n>>)
<1>1. PICK at \in [1..1 -> 1..1] : at[1] = 1
  <2>1. [i \in 1..1 |-> 1] \in [1..1 -> 1..1] /\ [i \in 1..1 |-> 1][1] = 1
    OBVIOUS
  <2> QED BY <2>1
<1>2. Len(<<n>>) = 1 /\ <<n>>[1] = n
  OBVIOUS
<1>3. \A i \in 1..1 : i = 1
  OBVIOUS
<1> QED BY <1>1, <1>2, <1>3 DEF StripsTo

\* A wrapper in front changes nothing, another layer is in front of the rest.
LEMMA StripPutOn ==
  ASSUME NEW c \in Seq(Parts), NEW t \in Seq(Parts), StripsTo(c, t), NEW l \in Parts
  PROVE  IF l \in Attempts THEN StripsTo(<<l>> \o c, t)
                           ELSE StripsTo(<<l>> \o c, <<l>> \o t)
<1> DEFINE c2 == <<l>> \o c
           t2 == <<l>> \o t
<1>1. PICK n \in Nat, m \in Nat : n = Len(c) /\ m = Len(t)
  BY LenProperties
<1>2. Len(c2) = n + 1 /\ c2[1] = l /\ \A i \in 1..n : c2[i + 1] = c[i]
  BY <1>1, Prepended
<1>3. Len(t2) = m + 1 /\ t2[1] = l /\ \A i \in 1..m : t2[i + 1] = t[i]
  BY <1>1, Prepended
<1> HIDE DEF c2, t2
<1>4. PICK at \in [1..m -> 1..n] :
        /\ \A i, j \in 1..m : i < j => at[i] < at[j]
        /\ \A i \in 1..m : t[i] = c[at[i]]
        /\ \A k \in 1..n : c[k] \notin Attempts <=> \E i \in 1..m : at[i] = k
  BY <1>1 DEF StripsTo
<1>5. \A i \in 1..n : c[i] \notin Attempts <=> \E k \in 1..m : at[k] = i
  BY <1>4
<1>a. \A i \in 1..m : at[i] \in 1..n /\ at[i] + 1 \in 2..(n + 1) /\ t[i] = c[at[i]]
  BY <1>4
<1>6. \A i \in 2..(n + 1) : i - 1 \in 1..n /\ c2[i] = c[i - 1]
  <2> SUFFICES ASSUME NEW i \in 2..(n + 1) PROVE i - 1 \in 1..n /\ c2[i] = c[i - 1]
    OBVIOUS
  <2>1. i - 1 \in 1..n /\ (i - 1) + 1 = i
    OBVIOUS
  <2> QED BY <1>2, <2>1
<1>7. CASE l \in Attempts
  <2> DEFINE at2 == [i \in 1..m |-> at[i] + 1]
  <2>1. at2 \in [1..m -> 1..(n + 1)]
    BY <1>4
  <2>2. \A i, j \in 1..m : i < j => at2[i] < at2[j]
    BY <1>4
  <2>3. \A i \in 1..m : t[i] = c2[at2[i]]
    BY <1>2, <1>4
  <2>4. \A i \in 1..(n + 1) : c2[i] \notin Attempts <=> \E k \in 1..m : at2[k] = i
    <3> SUFFICES ASSUME NEW i \in 1..(n + 1)
                 PROVE  c2[i] \notin Attempts <=> \E k \in 1..m : at2[k] = i
      OBVIOUS
    <3>1. CASE i = 1
      BY <1>2, <1>4, <1>7, <3>1
    <3>2. CASE i # 1
      <4>1. i - 1 \in 1..n /\ c2[i] = c[i - 1]
        BY <1>6, <3>2
      <4>2. \A k \in 1..m : at2[k] = i <=> at[k] = i - 1
        BY <1>a
      <4> QED BY <1>5, <4>1, <4>2
    <3> QED BY <3>1, <3>2
  <2> HIDE DEF at2
  <2>5. StripsTo(c2, t)
    <3> SUFFICES \E f \in [1..Len(t) -> 1..Len(c2)] :
                   /\ \A i, j \in 1..Len(t) : i < j => f[i] < f[j]
                   /\ \A i \in 1..Len(t) : t[i] = c2[f[i]]
                   /\ \A k \in 1..Len(c2) : c2[k] \notin Attempts <=> \E i \in 1..Len(t) : f[i] = k
      BY DEF StripsTo
    <3> USE <1>1, <1>2, <2>1, <2>2, <2>3, <2>4
    <3> WITNESS at2 \in [1..Len(t) -> 1..Len(c2)]
    <3> QED OBVIOUS
  <2> QED BY <1>7, <2>5 DEF c2
<1>8. CASE l \notin Attempts
  <2> DEFINE at2 == [i \in 1..(m + 1) |-> IF i = 1 THEN 1 ELSE at[i - 1] + 1]
  <2>0. \A i \in 2..(m + 1) : i - 1 \in 1..m /\ at2[i] = at[i - 1] + 1 /\ t2[i] = t[i - 1]
    <3> SUFFICES ASSUME NEW i \in 2..(m + 1)
                 PROVE  i - 1 \in 1..m /\ at2[i] = at[i - 1] + 1 /\ t2[i] = t[i - 1]
      OBVIOUS
    <3>1. i - 1 \in 1..m /\ (i - 1) + 1 = i
      OBVIOUS
    <3> QED BY <1>3, <3>1
  <2>x. at2[1] = 1 /\ at2 \in [1..(m + 1) -> 1..(n + 1)]
    BY <1>4
  <2>2. \A i, j \in 1..(m + 1) : i < j => at2[i] < at2[j]
    <3> SUFFICES ASSUME NEW i \in 1..(m + 1), NEW j \in 1..(m + 1), i < j
                 PROVE  at2[i] < at2[j]
      OBVIOUS
    <3>1. j \in 2..(m + 1) /\ j - 1 \in 1..m
      OBVIOUS
    <3>2. CASE i = 1
      BY <1>4, <2>0, <3>1, <3>2
    <3>3. CASE i # 1
      BY <1>4, <2>0, <3>1, <3>3
    <3> QED BY <3>2, <3>3
  <2>3. \A i \in 1..(m + 1) : t2[i] = c2[at2[i]]
    <3> SUFFICES ASSUME NEW i \in 1..(m + 1) PROVE t2[i] = c2[at2[i]]
      OBVIOUS
    <3>1. CASE i = 1
      BY <1>2, <1>3, <2>x, <3>1
    <3>2. CASE i # 1
      <4>1. t2[i] = t[i - 1] /\ at2[i] = at[i - 1] + 1 /\ i - 1 \in 1..m
        <5>1. i \in 2..(m + 1)
          BY <3>2
        <5> QED BY <2>0, <5>1
      <4>2. t[i - 1] = c[at[i - 1]] /\ at[i - 1] \in 1..n
        BY <1>a, <4>1
      <4>3. c2[at[i - 1] + 1] = c[at[i - 1]]
        BY <1>2, <4>2
      <4> QED BY <4>1, <4>2, <4>3
    <3> QED BY <3>1, <3>2
  <2>4. \A i \in 1..(n + 1) : c2[i] \notin Attempts <=> \E k \in 1..(m + 1) : at2[k] = i
    <3> SUFFICES ASSUME NEW i \in 1..(n + 1)
                 PROVE  c2[i] \notin Attempts <=> \E k \in 1..(m + 1) : at2[k] = i
      OBVIOUS
    <3>1. CASE i = 1
      <4>1. 1 \in 1..(m + 1)
        OBVIOUS
      <4> QED BY <1>2, <1>8, <2>x, <3>1, <4>1
    <3>2. CASE i # 1
      <4>1. i - 1 \in 1..n /\ c2[i] = c[i - 1]
        BY <1>6, <3>2
      <4>2. ASSUME NEW k \in 1..m, at[k] = i - 1 PROVE k + 1 \in 1..(m + 1) /\ at2[k + 1] = i
        BY <2>0, <4>2
      <4>3. ASSUME NEW k \in 1..(m + 1), at2[k] = i PROVE k - 1 \in 1..m /\ at[k - 1] = i - 1
        <5>1. k # 1
          BY <2>x, <3>2, <4>3
        <5>2. k - 1 \in 1..m /\ at[k - 1] + 1 = i /\ at[k - 1] \in 1..n
          BY <1>a, <2>0, <4>3, <5>1
        <5> QED BY <5>2
      <4> QED BY <1>5, <4>1, <4>2, <4>3
    <3> QED BY <3>1, <3>2
  <2> HIDE DEF at2
  <2>5. StripsTo(c2, t2)
    <3> SUFFICES \E f \in [1..Len(t2) -> 1..Len(c2)] :
                   /\ \A i, j \in 1..Len(t2) : i < j => f[i] < f[j]
                   /\ \A i \in 1..Len(t2) : t2[i] = c2[f[i]]
                   /\ \A k \in 1..Len(c2) : c2[k] \notin Attempts <=> \E i \in 1..Len(t2) : f[i] = k
      BY DEF StripsTo
    <3> USE <1>2, <1>3, <2>x, <2>2, <2>3, <2>4
    <3> WITNESS at2 \in [1..Len(t2) -> 1..Len(c2)]
    <3> QED OBVIOUS
  <2> QED BY <1>8, <2>5 DEF c2, t2
<1> QED BY <1>7, <1>8

LEMMA StripTakeOff ==
  ASSUME NEW c \in Seq(Parts), c # <<>>, NEW t \in Seq(Parts), StripsTo(c, t)
  PROVE  IF Head(c) \in Attempts THEN StripsTo(Tail(c), t)
         ELSE t # <<>> /\ StripsTo(Tail(c), Tail(t))
<1> DEFINE c2 == Tail(c)
           t2 == Tail(t)
<1>1. PICK n \in Nat : /\ Len(c) = n + 1 /\ Len(c2) = n /\ Head(c) = c[1]
                       /\ \A i \in 1..n : c2[i] = c[i + 1]
  <2>1. PICK n \in Nat : n + 1 = Len(c) /\ n = Len(c) - 1
    <3>1. PICK k \in Nat : k = Len(c) /\ k > 0
      BY Beheaded, LenProperties
    <3>2. k - 1 \in Nat /\ (k - 1) + 1 = k
      BY <3>1
    <3> QED BY <3>1, <3>2
  <2> QED BY <2>1, Beheaded
<1>2. PICK m \in Nat : m = Len(t)
  BY LenProperties
<1> HIDE DEF c2
<1>3. PICK at \in [1..m -> 1..(n + 1)] :
        /\ \A i, j \in 1..m : i < j => at[i] < at[j]
        /\ \A i \in 1..m : t[i] = c[at[i]]
        /\ \A k \in 1..(n + 1) : c[k] \notin Attempts <=> \E i \in 1..m : at[i] = k
  <2>1. PICK f \in [1..Len(t) -> 1..Len(c)] :
          /\ \A i, j \in 1..Len(t) : i < j => f[i] < f[j]
          /\ \A i \in 1..Len(t) : t[i] = c[f[i]]
          /\ \A k \in 1..Len(c) : c[k] \notin Attempts <=> \E i \in 1..Len(t) : f[i] = k
    BY DEF StripsTo
  <2> USE <1>1, <1>2, <2>1
  <2> WITNESS f \in [1..m -> 1..(n + 1)]
  <2> QED OBVIOUS
<1>4. \A i \in 1..m : at[i] \in 1..(n + 1)
  BY <1>3
<1>5. 1 \in 1..(n + 1)
  OBVIOUS
<1>6. CASE Head(c) \in Attempts
  <2> DEFINE at2 == [i \in 1..m |-> at[i] - 1]
  <2>1. \A i \in 1..m : at[i] # 1
    BY <1>1, <1>3, <1>5, <1>6
  <2>2. \A i \in 1..m : at2[i] = at[i] - 1 /\ at2[i] \in 1..n /\ at2[i] + 1 = at[i]
    BY <1>4, <2>1
  <2>3. at2 \in [1..m -> 1..n]
    BY <2>2
  <2> HIDE DEF at2
  <2>4. \A i, j \in 1..m : i < j => at2[i] < at2[j]
    <3> SUFFICES ASSUME NEW i \in 1..m, NEW j \in 1..m, i < j PROVE at2[i] < at2[j]
      OBVIOUS
    <3>1. at[i] < at[j]
      BY <1>3
    <3> QED BY <1>4, <2>2, <3>1
  <2>5. \A i \in 1..m : t[i] = c2[at2[i]]
    BY <1>1, <1>3, <2>2
  <2>6. \A k \in 1..n : c2[k] \notin Attempts <=> \E i \in 1..m : at2[i] = k
    <3> SUFFICES ASSUME NEW k \in 1..n
                 PROVE  c2[k] \notin Attempts <=> \E i \in 1..m : at2[i] = k
      OBVIOUS
    <3>1. k + 1 \in 1..(n + 1) /\ c2[k] = c[k + 1]
      BY <1>1
    <3>2. c[k + 1] \notin Attempts <=> \E i \in 1..m : at[i] = k + 1
      BY <1>3, <3>1
    <3>3. \A i \in 1..m : at2[i] = k <=> at[i] = k + 1
      BY <1>4, <2>2
    <3> QED BY <3>1, <3>2, <3>3
  <2>7. StripsTo(c2, t)
    <3> SUFFICES \E f \in [1..Len(t) -> 1..Len(c2)] :
                   /\ \A i, j \in 1..Len(t) : i < j => f[i] < f[j]
                   /\ \A i \in 1..Len(t) : t[i] = c2[f[i]]
                   /\ \A k \in 1..Len(c2) : c2[k] \notin Attempts <=> \E i \in 1..Len(t) : f[i] = k
      BY DEF StripsTo
    <3> USE <1>1, <1>2, <2>3, <2>4, <2>5, <2>6
    <3> WITNESS at2 \in [1..Len(t) -> 1..Len(c2)]
    <3> QED OBVIOUS
  <2> QED BY <1>6, <2>7 DEF c2
<1>7. CASE Head(c) \notin Attempts
  <2>1. PICK b \in 1..m : at[b] = 1
    BY <1>1, <1>3, <1>5, <1>7
  <2>2. b = 1
    <3>1. 1 \in 1..m /\ (b # 1 => 1 < b)
      BY <2>1
    <3>2. b # 1 => at[1] < at[b]
      BY <1>3, <3>1
    <3> QED BY <1>4, <2>1, <3>1, <3>2
  <2>3. PICK p \in Nat : m = p + 1
    <3>1. m - 1 \in Nat /\ m = (m - 1) + 1
      BY <2>1
    <3> QED BY <3>1
  <2>4. t # <<>> /\ Len(t2) = p /\ \A i \in 1..p : t2[i] = t[i + 1]
    <3>1. t # <<>>
      <4>1. Len(<<>>) = 0 /\ Len(t) # 0
        BY <1>2, <2>3
      <4> QED BY <4>1
    <3>2. Len(t) - 1 = p
      BY <1>2, <2>3
    <3> QED BY <3>1, <3>2, Beheaded
  <2> HIDE DEF t2
  <2> DEFINE at2 == [i \in 1..p |-> at[i + 1] - 1]
  <2>5. \A i \in 1..p : i + 1 \in 1..m /\ at[i + 1] \in 2..(n + 1)
    <3> SUFFICES ASSUME NEW i \in 1..p PROVE i + 1 \in 1..m /\ at[i + 1] \in 2..(n + 1)
      OBVIOUS
    <3>1. i + 1 \in 1..m /\ 1 \in 1..m /\ 1 < i + 1
      BY <2>3
    <3>2. at[1] < at[i + 1] /\ at[i + 1] \in 1..(n + 1) /\ at[1] = 1
      BY <1>3, <1>4, <2>1, <2>2, <3>1
    <3> QED BY <3>1, <3>2
  <2>6. \A i \in 1..p : at2[i] = at[i + 1] - 1 /\ at2[i] \in 1..n /\ at2[i] + 1 = at[i + 1]
    BY <2>5
  <2>7. at2 \in [1..p -> 1..n]
    BY <2>6
  <2> HIDE DEF at2
  <2>8. \A i, j \in 1..p : i < j => at2[i] < at2[j]
    <3> SUFFICES ASSUME NEW i \in 1..p, NEW j \in 1..p, i < j PROVE at2[i] < at2[j]
      OBVIOUS
    <3>1. i + 1 \in 1..m /\ j + 1 \in 1..m /\ i + 1 < j + 1
      BY <2>5
    <3>2. at[i + 1] < at[j + 1]
      BY <1>3, <3>1
    <3> QED BY <2>5, <2>6, <3>2
  <2>9. \A i \in 1..p : t2[i] = c2[at2[i]]
    <3> SUFFICES ASSUME NEW i \in 1..p PROVE t2[i] = c2[at2[i]]
      OBVIOUS
    <3>1. t2[i] = t[i + 1] /\ t[i + 1] = c[at[i + 1]]
      BY <1>3, <2>4, <2>5
    <3> QED BY <1>1, <2>6, <3>1
  <2>10. \A k \in 1..n : c2[k] \notin Attempts <=> \E i \in 1..p : at2[i] = k
    <3> SUFFICES ASSUME NEW k \in 1..n
                 PROVE  c2[k] \notin Attempts <=> \E i \in 1..p : at2[i] = k
      OBVIOUS
    <3>1. k + 1 \in 1..(n + 1) /\ c2[k] = c[k + 1]
      BY <1>1
    <3>2. c[k + 1] \notin Attempts <=> \E i \in 1..m : at[i] = k + 1
      BY <1>3, <3>1
    <3>3. ASSUME NEW i \in 1..m, at[i] = k + 1 PROVE \E j \in 1..p : at2[j] = k
      <4>1. i # 1
        BY <2>1, <2>2, <3>3
      <4>2. i - 1 \in 1..p /\ (i - 1) + 1 = i
        BY <2>3, <4>1
      <4>3. at2[i - 1] + 1 = k + 1 /\ at2[i - 1] \in 1..n
        BY <2>6, <3>3, <4>2
      <4>4. at2[i - 1] = k
        BY <4>3
      <4> QED BY <4>2, <4>4
    <3>4. ASSUME NEW j \in 1..p, at2[j] = k PROVE j + 1 \in 1..m /\ at[j + 1] = k + 1
      BY <2>5, <2>6, <3>4
    <3> QED BY <3>1, <3>2, <3>3, <3>4
  <2>11. StripsTo(c2, t2)
    <3> SUFFICES \E f \in [1..Len(t2) -> 1..Len(c2)] :
                   /\ \A i, j \in 1..Len(t2) : i < j => f[i] < f[j]
                   /\ \A i \in 1..Len(t2) : t2[i] = c2[f[i]]
                   /\ \A k \in 1..Len(c2) : c2[k] \notin Attempts <=> \E i \in 1..Len(t2) : f[i] = k
      BY DEF StripsTo
    <3> USE <1>1, <2>4, <2>7, <2>8, <2>9, <2>10
    <3> WITNESS at2 \in [1..Len(t2) -> 1..Len(c2)]
    <3> QED OBVIOUS
  <2> QED BY <1>7, <2>4, <2>11 DEF c2, t2
<1> QED BY <1>6, <1>7

-----------------------------------------------------------------------------
(* The wrappers in a handler, and what each of them calls.                 *)

\* Places of a wake whose turn was admitted: a wrapper in a chain is one of
\* theirs, and none of them attaches another.
After == {"admitted", "found", "unsure", "done"}
Wrappers(c) == Layers(c) \cap Attempts

\* A wrapper calls exactly what is behind it, so a wake has one wrapper at most.
NestedIn(c, org, P) ==
  \A i \in 1..Len(c) : c[i] \in Attempts =>
     /\ c[i] \in P
     /\ org[c[i]] \in Seq(Parts) /\ Len(org[c[i]]) = Len(c) - i
     /\ \A j \in 1..(Len(c) - i) : org[c[i]][j] = c[i + j]

\* n layers of other packages account for the wrappers but s, the attached one,
\* and for whatever is in front of it.
Covers(n, c, s) ==
  /\ s \notin Wrappers(c) => Cardinality(Wrappers(c)) <= n
  /\ s \in Wrappers(c) => \A i \in 1..Len(c) : c[i] = s =>
                             Cardinality(Wrappers(c) \ {s}) + (i - 1) <= n

\* The attached wrapper is taken off at its own release unless something is in
\* front of it; then that layer accounts for it from there on.
PileInv ==
  /\ theirs \in [Adapters -> Seq(Parts)]
  /\ layered \in [Adapters -> Nat]
  /\ HandlerIsTheirs
  /\ \A d \in Adapters : /\ NestedIn(chain[d], original, {a \in Attempts : pc[a] \in After})
                         /\ Covers(layered[d], chain[d], state[d])

LEMMA LayersFinite ==
  ASSUME NEW c \in Seq(Parts)
  PROVE  /\ IsFiniteSet(Wrappers(c)) /\ Cardinality(Wrappers(c)) \in Nat
         /\ Layers(c) = {c[i] : i \in 1..Len(c)}
<1>1. Len(c) \in Nat /\ DOMAIN c = 1..Len(c) /\ c \in [1..Len(c) -> Parts]
  BY LenProperties
<1>2. Layers(c) = {c[i] : i \in 1..Len(c)}
  BY <1>1 DEF Layers
<1>3. c \in Surjection(1..Len(c), Layers(c))
  BY <1>1, <1>2 DEF Surjection
<1>4. IsFiniteSet(1..Len(c))
  BY <1>1, FS_Interval
<1>5. IsFiniteSet(Layers(c))
  BY <1>3, <1>4, FS_Surjection
<1>6. IsFiniteSet(Wrappers(c))
  BY <1>5, FS_Subset DEF Wrappers
<1> QED BY <1>2, <1>6, FS_CardinalityType

LEMMA NestedPutOn ==
  ASSUME NEW c \in Seq(Parts), NEW l \in Parts, NEW org, NEW P, NestedIn(c, org, P),
         l \in Attempts => l \in P /\ org[l] = c
  PROVE  NestedIn(<<l>> \o c, org, P)
<1> DEFINE c2 == <<l>> \o c
<1>1. PICK n \in Nat : n = Len(c)
  BY LenProperties
<1>2. Len(c2) = n + 1 /\ c2[1] = l /\ \A i \in 1..n : c2[i + 1] = c[i]
  BY <1>1, Prepended
<1> HIDE DEF c2
<1> SUFFICES ASSUME NEW i \in 1..(n + 1), c2[i] \in Attempts
             PROVE  /\ c2[i] \in P
                    /\ org[c2[i]] \in Seq(Parts) /\ Len(org[c2[i]]) = (n + 1) - i
                    /\ \A j \in 1..((n + 1) - i) : org[c2[i]][j] = c2[i + j]
  BY <1>2 DEF NestedIn, c2
<1>3. CASE i = 1
  <2>1. org[c2[i]] = c /\ c2[i] \in P /\ (n + 1) - i = n
    BY <1>2, <1>3
  <2>2. \A j \in 1..n : c[j] = c2[i + j]
    BY <1>2, <1>3
  <2> QED BY <1>1, <2>1, <2>2
<1>4. CASE i # 1
  <2>1. PICK k \in 1..n : i = k + 1
    <3>1. i - 1 \in 1..n /\ i = (i - 1) + 1
      BY <1>4
    <3> QED BY <3>1
  <2>2. c2[i] = c[k] /\ (n + 1) - i = n - k
    <3>1. c2[k + 1] = c[k]
      BY <1>2
    <3>2. (n + 1) - (k + 1) = n - k
      OBVIOUS
    <3> QED BY <2>1, <3>1, <3>2
  <2>3. /\ c[k] \in P /\ org[c[k]] \in Seq(Parts) /\ Len(org[c[k]]) = n - k
        /\ \A j \in 1..(n - k) : org[c[k]][j] = c[k + j]
    BY <1>1, <2>1, <2>2 DEF NestedIn
  <2>4. \A j \in 1..(n - k) : c2[i + j] = c[k + j]
    <3> SUFFICES ASSUME NEW j \in 1..(n - k) PROVE c2[i + j] = c[k + j]
      OBVIOUS
    <3>1. k + j \in 1..n /\ i + j = (k + j) + 1
      BY <2>1
    <3> QED BY <1>2, <3>1
  <2> QED BY <2>2, <2>3, <2>4
<1> QED BY <1>3, <1>4

LEMMA NestedTakeOff ==
  ASSUME NEW c \in Seq(Parts), c # <<>>, NEW org, NEW P, NestedIn(c, org, P)
  PROVE  /\ NestedIn(Tail(c), org, P)
         /\ Head(c) \in Attempts => /\ org[Head(c)] = Tail(c)
                                    /\ Head(c) \notin Layers(Tail(c))
<1> DEFINE c2 == Tail(c)
<1>1. PICK n \in Nat : n + 1 = Len(c)
  <2>1. PICK k \in Nat : k = Len(c) /\ k > 0
    BY Beheaded, LenProperties
  <2>2. k - 1 \in Nat /\ (k - 1) + 1 = k
    BY <2>1
  <2> QED BY <2>1, <2>2
<1>2. /\ c2 \in Seq(Parts) /\ Len(c2) = n /\ Head(c) = c[1]
      /\ \A i \in 1..n : c2[i] = c[i + 1]
  BY <1>1, Beheaded
<1> HIDE DEF c2
<1>3. ASSUME NEW i \in 1..(n + 1), c[i] \in Attempts
      PROVE  /\ c[i] \in P
             /\ org[c[i]] \in Seq(Parts) /\ Len(org[c[i]]) = (n + 1) - i
             /\ \A j \in 1..((n + 1) - i) : org[c[i]][j] = c[i + j]
  BY <1>1, <1>3 DEF NestedIn
<1>4. NestedIn(c2, org, P)
  <2> SUFFICES ASSUME NEW k \in 1..n, c2[k] \in Attempts
               PROVE  /\ c2[k] \in P
                      /\ org[c2[k]] \in Seq(Parts) /\ Len(org[c2[k]]) = n - k
                      /\ \A j \in 1..(n - k) : org[c2[k]][j] = c2[k + j]
    BY <1>2 DEF NestedIn
  <2>1. k + 1 \in 1..(n + 1) /\ c2[k] = c[k + 1] /\ (n + 1) - (k + 1) = n - k
    BY <1>2
  <2>2. /\ c[k + 1] \in P
        /\ org[c[k + 1]] \in Seq(Parts) /\ Len(org[c[k + 1]]) = n - k
        /\ \A j \in 1..(n - k) : org[c[k + 1]][j] = c[(k + 1) + j]
    BY <1>3, <2>1
  <2>3. \A j \in 1..(n - k) : c2[k + j] = c[(k + 1) + j]
    <3> SUFFICES ASSUME NEW j \in 1..(n - k) PROVE c2[k + j] = c[(k + 1) + j]
      OBVIOUS
    <3>1. k + j \in 1..n /\ (k + j) + 1 = (k + 1) + j
      OBVIOUS
    <3> QED BY <1>2, <3>1
  <2> QED BY <2>1, <2>2, <2>3
<1>5. ASSUME Head(c) \in Attempts PROVE org[Head(c)] = c2 /\ Head(c) \notin Layers(c2)
  <2>1. 1 \in 1..(n + 1) /\ c[1] \in Attempts /\ (n + 1) - 1 = n
    BY <1>2, <1>5
  <2>2. /\ org[c[1]] \in Seq(Parts) /\ Len(org[c[1]]) = n
        /\ \A j \in 1..n : org[c[1]][j] = c[1 + j]
    BY <1>3, <2>1
  <2>3. \A j \in 1..n : org[c[1]][j] = c2[j]
    <3> SUFFICES ASSUME NEW j \in 1..n PROVE org[c[1]][j] = c2[j]
      OBVIOUS
    <3>1. 1 + j = j + 1
      OBVIOUS
    <3> QED BY <1>2, <2>2, <3>1
  <2>4. org[c[1]] = c2
    BY <1>2, <2>2, <2>3, SeqEqual
  <2>5. ASSUME c[1] \in Layers(c2) PROVE FALSE
    <3>1. PICK i \in 1..n : c2[i] = c[1]
      BY <1>2, <2>5, LayersFinite
    <3>2. i + 1 \in 1..(n + 1) /\ c[i + 1] = c[1]
      BY <1>2, <3>1
    <3>3. Len(org[c[i + 1]]) = (n + 1) - (i + 1)
      BY <1>3, <2>1, <3>2
    <3> QED BY <2>2, <3>2, <3>3
  <2> QED BY <1>2, <2>4, <2>5
<1> QED BY <1>4, <1>5 DEF c2

\* Another package's layer in front is one more to account for wrappers.
LEMMA CoversPutOn ==
  ASSUME NEW c \in Seq(Parts), NEW p \in Parts, p \notin Attempts, NEW n \in Nat, NEW s,
         Covers(n, c, s)
  PROVE  Covers(n + 1, <<p>> \o c, s)
<1> DEFINE c2 == <<p>> \o c
<1>1. PICK m \in Nat : m = Len(c)
  BY LenProperties
<1>2. /\ c2 \in Seq(Parts) /\ Len(c2) = m + 1 /\ c2[1] = p
      /\ \A i \in 1..m : c2[i + 1] = c[i]
  BY <1>1, Prepended
<1> HIDE DEF c2
<1>3. Wrappers(c2) = Wrappers(c)
  <2>1. Layers(c2) = {c2[i] : i \in 1..(m + 1)} /\ Layers(c) = {c[i] : i \in 1..m}
    BY <1>1, <1>2, LayersFinite
  <2>2. ASSUME NEW l \in Layers(c) PROVE l \in Layers(c2)
    <3>1. PICK i \in 1..m : c[i] = l
      BY <2>1, <2>2
    <3>2. i + 1 \in 1..(m + 1) /\ c2[i + 1] = l
      BY <1>2, <3>1
    <3> QED BY <2>1, <3>2
  <2>3. ASSUME NEW l \in Layers(c2), l # p PROVE l \in Layers(c)
    <3>1. PICK i \in 1..(m + 1) : c2[i] = l
      BY <2>1, <2>3
    <3>2. i - 1 \in 1..m /\ (i - 1) + 1 = i
      BY <1>2, <2>3, <3>1
    <3>3. c[i - 1] = l
      BY <1>2, <3>1, <3>2
    <3> QED BY <2>1, <3>2, <3>3
  <2> QED BY <2>2, <2>3 DEF Wrappers
<1>4. IsFiniteSet(Wrappers(c)) /\ Cardinality(Wrappers(c)) \in Nat
  BY LayersFinite
<1>5. Cardinality(Wrappers(c) \ {s}) \in Nat
  BY <1>4, FS_RemoveElement, FS_CardinalityType
<1>6. s \notin Wrappers(c) => Cardinality(Wrappers(c)) <= n + 1
  BY <1>4 DEF Covers
<1>7. ASSUME s \in Wrappers(c), NEW i \in 1..(m + 1), c2[i] = s
      PROVE  Cardinality(Wrappers(c) \ {s}) + (i - 1) <= n + 1
  <2>1. i # 1
    BY <1>2, <1>7 DEF Wrappers
  <2>2. i - 1 \in 1..m /\ (i - 1) + 1 = i
    BY <2>1
  <2>3. c[i - 1] = s
    BY <1>2, <1>7, <2>2
  <2>4. Cardinality(Wrappers(c) \ {s}) + ((i - 1) - 1) <= n
    BY <1>1, <1>7, <2>2, <2>3 DEF Covers
  <2> QED BY <1>5, <2>2, <2>4
<1>8. Covers(n + 1, c2, s)
  BY <1>2, <1>3, <1>6, <1>7 DEF Covers
<1> QED BY <1>8 DEF c2

LEMMA CoversTakeOff ==
  ASSUME NEW c \in Seq(Parts), c # <<>>, Head(c) \notin Attempts, NEW n \in Nat, NEW s,
         Covers(n, c, s)
  PROVE  Covers(n, Tail(c), s)
<1> DEFINE c2 == Tail(c)
<1>1. PICK m \in Nat : m = Len(c)
  BY LenProperties
<1>2. /\ c2 \in Seq(Parts) /\ m > 0 /\ Len(c2) = m - 1 /\ c[1] = Head(c)
      /\ \A i \in 1..(m - 1) : c2[i] = c[i + 1]
  BY <1>1, Beheaded
<1> HIDE DEF c2
<1>3. Wrappers(c2) = Wrappers(c)
  <2>1. Layers(c2) = {c2[i] : i \in 1..(m - 1)} /\ Layers(c) = {c[i] : i \in 1..m}
    BY <1>1, <1>2, LayersFinite
  <2>2. ASSUME NEW l \in Layers(c2) PROVE l \in Layers(c)
    <3>1. PICK i \in 1..(m - 1) : c2[i] = l
      BY <2>1, <2>2
    <3>2. i + 1 \in 1..m /\ c[i + 1] = l
      BY <1>2, <3>1
    <3> QED BY <2>1, <3>2
  <2>3. ASSUME NEW l \in Layers(c), l # Head(c) PROVE l \in Layers(c2)
    <3>1. PICK i \in 1..m : c[i] = l
      BY <2>1, <2>3
    <3>2. i - 1 \in 1..(m - 1) /\ (i - 1) + 1 = i
      BY <1>2, <2>3, <3>1
    <3>3. c2[i - 1] = l
      BY <1>2, <3>1, <3>2
    <3> QED BY <2>1, <3>2, <3>3
  <2> QED BY <2>2, <2>3 DEF Wrappers
<1>4. Cardinality(Wrappers(c) \ {s}) \in Nat
  BY LayersFinite, FS_RemoveElement, FS_CardinalityType
<1>5. ASSUME s \in Wrappers(c), NEW i \in 1..(m - 1), c2[i] = s
      PROVE  Cardinality(Wrappers(c) \ {s}) + (i - 1) <= n
  <2>1. i + 1 \in 1..m /\ c[i + 1] = s
    BY <1>2, <1>5
  <2>2. Cardinality(Wrappers(c) \ {s}) + ((i + 1) - 1) <= n
    BY <1>1, <1>5, <2>1 DEF Covers
  <2> QED BY <1>4, <2>2
<1>6. Covers(n, c2, s)
  BY <1>2, <1>3, <1>5 DEF Covers
<1> QED BY <1>6 DEF c2

-----------------------------------------------------------------------------
(* The steps keep it.                                                      *)

\* A place after admission is never left for one before it, and only the step
\* that admits registers.
LEMMA WakesSettle ==
  ASSUME IInv, NEW a \in Attempts, Step(a) \/ Fault(a) \/ Call(a)
  PROVE  /\ \A b \in Attempts \ {a} : pc'[b] = pc[b]
         /\ pc[a] \in After => pc'[a] \in After
         /\ ~Settling(pc[a]) /\ Settling(pc'[a]) => pc[a] \notin After /\ pc'[a] \in After
<1> USE DEF IInv, TypeOK, Goto, Finish, Settling, After
<1>1. CASE Call(a)
  BY <1>1 DEF Call, Pin
<1>2. CASE ClaimConflicts(a) \/ ClaimOwns(a) \/ ClaimObserves(a)
  BY <1>2 DEF ClaimConflicts, ClaimOwns, ClaimObserves
<1>3. CASE MarkDispatching(a)
  BY <1>3 DEF MarkDispatching
<1>4. CASE AdmitStarts(a) \/ AdmitUnclear(a)
  BY <1>4 DEF AdmitStarts, AdmitUnclear
<1>5. CASE AdmitRefused(a) \/ RecordRefusal(a) \/ RecordDoubt(a)
  BY <1>5 DEF AdmitRefused, RecordRefusal, RecordDoubt
<1>6. CASE SettleRead(a) \/ SettleFound(a) \/ SettleUnsure(a) \/ SettleInterrupted(a)
  BY <1>6 DEF SettleRead, SettleFound, SettleUnsure, SettleInterrupted
<1>7. CASE ReadTranscript(a) \/ Reconcile(a) \/ CallerCancelled(a) \/ DatabaseFails(a)
  BY <1>7 DEF ReadTranscript, Reconcile, CallerCancelled, DatabaseFails
<1> QED BY <1>1, <1>2, <1>3, <1>4, <1>5, <1>6, <1>7 DEF Step, Fault

\* One adapter of PileInv.
Piled(c, t, n, s, org, P) ==
  /\ t \in Seq(Parts) /\ n \in Nat
  /\ StripsTo(c, t) /\ NestedIn(c, org, P) /\ Covers(n, c, s)

LEMMA PiledGrows ==
  ASSUME NEW c, NEW t, NEW n, NEW s, NEW org, NEW org2, NEW P, NEW P2,
         Piled(c, t, n, s, org, P), P \subseteq P2, \A a \in P : org2[a] = org[a]
  PROVE  Piled(c, t, n, s, org2, P2)
<1>1. NestedIn(c, org2, P2)
  BY DEF Piled, NestedIn
<1> QED BY <1>1 DEF Piled

LEMMA PiledBare ==
  ASSUME NEW k \in Nat, NEW n \in Nat, NEW s, NEW org, NEW P
  PROVE  Piled(<<k>>, <<k>>, n, s, org, P)
<1>1. /\ <<k>> \in Seq(Parts) /\ Len(<<k>>) = 1 /\ <<k>>[1] = k /\ k \notin Attempts
      /\ \A i \in 1..1 : i = 1
  BY ObserverAssumption DEF Parts
<1>2. StripsTo(<<k>>, <<k>>)
  BY <1>1, StripBare
<1>3. NestedIn(<<k>>, org, P)
  BY <1>1 DEF NestedIn
<1>4. Wrappers(<<k>>) = {}
  <2>1. Layers(<<k>>) = {<<k>>[i] : i \in 1..1}
    BY <1>1, LayersFinite
  <2> QED BY <1>1, <2>1 DEF Wrappers
<1>5. Covers(n, <<k>>, s)
  BY <1>4, FS_EmptySet DEF Covers
<1> QED BY <1>1, <1>2, <1>3, <1>5 DEF Piled

\* A wake that attaches its wrapper was in no chain before.
LEMMA PiledAttach ==
  ASSUME NEW c \in Seq(Parts), NEW t, NEW n, NEW org, NEW org2, NEW P, NEW P2,
         NEW a \in Attempts, a \notin P, a \in P2, P \subseteq P2,
         org2[a] = c, \A b \in P : org2[b] = org[b],
         Piled(c, t, n, None, org, P)
  PROVE  Piled(<<a>> \o c, t, n, a, org2, P2)
<1> DEFINE c2 == <<a>> \o c
<1>1. a \in Parts /\ None \notin Attempts /\ Piled(c, t, n, None, org2, P2)
  BY ConstantsAssumption, PiledGrows DEF Parts
<1>2. StripsTo(c2, t)
  BY <1>1, StripPutOn DEF Piled
<1>3. NestedIn(c2, org2, P2)
  BY <1>1, NestedPutOn DEF Piled
<1>4. PICK m \in Nat : m = Len(c)
  BY LenProperties
<1>5. /\ c2 \in Seq(Parts) /\ Len(c2) = m + 1 /\ c2[1] = a
      /\ \A i \in 1..m : c2[i + 1] = c[i]
  BY <1>1, <1>4, Prepended
<1> HIDE DEF c2
<1>6. Layers(c2) = {c2[i] : i \in 1..(m + 1)} /\ Layers(c) = {c[i] : i \in 1..m}
  BY <1>4, <1>5, LayersFinite
<1>7. a \notin Layers(c)
  BY <1>4, <1>6 DEF Piled, NestedIn
<1>8. ASSUME NEW i \in 1..(m + 1), i # 1 PROVE c2[i] \in Layers(c)
  <2>1. i - 1 \in 1..m /\ (i - 1) + 1 = i
    BY <1>8
  <2>2. c2[i] = c[i - 1]
    BY <1>5, <2>1
  <2> QED BY <1>6, <2>1, <2>2
<1>9. Wrappers(c2) \ {a} \subseteq Wrappers(c)
  BY <1>5, <1>6, <1>8 DEF Wrappers
<1>10. Cardinality(Wrappers(c)) \in Nat /\ Cardinality(Wrappers(c)) <= n /\ n \in Nat
  BY <1>1, LayersFinite DEF Piled, Covers, Wrappers
<1>11. /\ Cardinality(Wrappers(c2) \ {a}) \in Nat
       /\ Cardinality(Wrappers(c2) \ {a}) <= Cardinality(Wrappers(c))
  BY <1>9, LayersFinite, FS_Subset, FS_CardinalityType
<1>12. 1 \in 1..(m + 1)
  OBVIOUS
<1>13. a \in Wrappers(c2)
  BY <1>5, <1>6, <1>12 DEF Wrappers
<1>14. \A i \in 1..(m + 1) : c2[i] = a => i = 1
  BY <1>7, <1>8
<1>15. Cardinality(Wrappers(c2) \ {a}) + (1 - 1) <= n
  BY <1>10, <1>11
<1>16. Covers(n, c2, a)
  BY <1>5, <1>13, <1>14, <1>15 DEF Covers
<1> QED BY <1>1, <1>2, <1>3, <1>16 DEF Piled, c2

\* Taken off, the wrapper leaves the chain it was put in front of.
LEMMA PiledDetach ==
  ASSUME NEW c \in Seq(Parts), c # <<>>, NEW t, NEW n, NEW s \in Attempts, NEW org, NEW P,
         Head(c) = s, Piled(c, t, n, s, org, P)
  PROVE  org[s] = Tail(c) /\ Piled(org[s], t, n, None, org, P)
<1> DEFINE c2 == Tail(c)
<1>1. c2 \in Seq(Parts) /\ StripsTo(c2, t)
  BY Beheaded, StripTakeOff DEF Piled
<1>2. NestedIn(c2, org, P) /\ org[s] = c2 /\ s \notin Layers(c2)
  BY NestedTakeOff DEF Piled
<1>3. PICK m \in Nat : m = Len(c)
  BY LenProperties
<1>4. m > 0 /\ Len(c2) = m - 1 /\ c[1] = s /\ \A i \in 1..(m - 1) : c2[i] = c[i + 1]
  BY <1>3, Beheaded
<1> HIDE DEF c2
<1>5. Layers(c) = {c[i] : i \in 1..m} /\ Layers(c2) = {c2[i] : i \in 1..(m - 1)}
  BY <1>1, <1>3, <1>4, LayersFinite
<1>6. Layers(c2) \subseteq Layers(c)
  <2> SUFFICES ASSUME NEW i \in 1..(m - 1) PROVE c2[i] \in Layers(c)
    BY <1>5
  <2>1. i + 1 \in 1..m
    BY <1>3
  <2> QED BY <1>4, <1>5, <2>1
<1>7. Wrappers(c2) \subseteq Wrappers(c) \ {s}
  BY <1>2, <1>6 DEF Wrappers
<1>8. IsFiniteSet(Wrappers(c) \ {s})
  BY LayersFinite, FS_RemoveElement
<1>9. /\ Cardinality(Wrappers(c2)) <= Cardinality(Wrappers(c) \ {s})
      /\ Cardinality(Wrappers(c2)) \in Nat /\ Cardinality(Wrappers(c) \ {s}) \in Nat
  BY <1>1, <1>7, <1>8, LayersFinite, FS_Subset, FS_CardinalityType
<1>10. s \in Wrappers(c) /\ 1 \in 1..m
  <2>1. 1 \in 1..m
    BY <1>3, <1>4
  <2> QED BY <1>4, <1>5, <2>1 DEF Wrappers
<1>11. Cardinality(Wrappers(c) \ {s}) + (1 - 1) <= n
  BY <1>3, <1>4, <1>10 DEF Piled, Covers
<1>12. Cardinality(Wrappers(c2)) <= n /\ n \in Nat
  BY <1>9, <1>11 DEF Piled
<1>13. Covers(n, c2, None)
  BY <1>12, ConstantsAssumption DEF Covers, Wrappers
<1> QED BY <1>1, <1>2, <1>13 DEF Piled, c2

\* Left behind, it is accounted for by what is in front of it.
LEMMA PiledLeave ==
  ASSUME NEW c \in Seq(Parts), c # <<>>, NEW t, NEW n, NEW s \in Attempts, NEW org, NEW P,
         Head(c) # s, Piled(c, t, n, s, org, P)
  PROVE  Piled(c, t, n, None, org, P)
<1>1. PICK m \in Nat : m = Len(c)
  BY LenProperties
<1>2. /\ c[1] # s /\ Layers(c) = {c[i] : i \in 1..m}
      /\ IsFiniteSet(Wrappers(c)) /\ Cardinality(Wrappers(c)) \in Nat
  BY <1>1, Beheaded, LayersFinite
<1>3. n \in Nat /\ None \notin Attempts
  BY ConstantsAssumption DEF Piled
<1>4. ASSUME s \in Wrappers(c) PROVE Cardinality(Wrappers(c)) <= n
  <2>1. PICK i \in 1..m : c[i] = s
    BY <1>2, <1>4 DEF Wrappers
  <2>2. Cardinality(Wrappers(c) \ {s}) + (i - 1) <= n
    BY <1>1, <1>4, <2>1 DEF Piled, Covers
  <2>3. Cardinality(Wrappers(c) \ {s}) = Cardinality(Wrappers(c)) - 1
    BY <1>2, <1>4, FS_RemoveElement
  <2>4. i >= 2
    BY <1>2, <2>1
  <2>5. (Cardinality(Wrappers(c)) - 1) + (i - 1) <= n
    BY <2>2, <2>3
  <2> HIDE DEF Wrappers
  <2> QED BY <1>2, <1>3, <2>4, <2>5
<1>5. Cardinality(Wrappers(c)) <= n
  BY <1>4 DEF Piled, Covers
<1>6. Covers(n, c, None)
  BY <1>3, <1>5 DEF Covers, Wrappers
<1> QED BY <1>6 DEF Piled

LEMMA PiledPackage ==
  ASSUME NEW c \in Seq(Parts), c # <<>>, NEW t, NEW n, NEW s, NEW org, NEW P,
         NEW p \in Packages, Piled(c, t, n, s, org, P)
  PROVE  /\ Piled(<<p>> \o c, <<p>> \o t, n + 1, s, org, P)
         /\ Head(c) = p => Piled(Tail(c), Tail(t), n, s, org, P)
<1>1. p \in Parts /\ p \notin Attempts /\ t \in Seq(Parts) /\ n \in Nat
  BY ObserverAssumption DEF Parts, Piled
<1>2. Piled(<<p>> \o c, <<p>> \o t, n + 1, s, org, P)
  <2>1. StripsTo(<<p>> \o c, <<p>> \o t)
    BY <1>1, StripPutOn DEF Piled
  <2>2. NestedIn(<<p>> \o c, org, P) /\ Covers(n + 1, <<p>> \o c, s)
    BY <1>1, NestedPutOn, CoversPutOn DEF Piled
  <2>3. <<p>> \o t \in Seq(Parts) /\ n + 1 \in Nat
    BY <1>1, Prepended
  <2> QED BY <2>1, <2>2, <2>3 DEF Piled
<1>3. ASSUME Head(c) = p PROVE Piled(Tail(c), Tail(t), n, s, org, P)
  <2>1. t # <<>> /\ StripsTo(Tail(c), Tail(t)) /\ Tail(t) \in Seq(Parts)
    BY <1>1, <1>3, StripTakeOff, Beheaded DEF Piled
  <2>2. NestedIn(Tail(c), org, P)
    BY NestedTakeOff DEF Piled
  <2>3. Covers(n, Tail(c), s)
    BY <1>1, <1>3, CoversTakeOff DEF Piled
  <2> QED BY <1>1, <2>1, <2>2, <2>3 DEF Piled
<1> QED BY <1>2, <1>3

\* The wakes with a turn admitted, and one adapter's part of the invariant.
Admittees == {a \in Attempts : pc[a] \in After}
PiledAt(d) == Piled(chain[d], theirs[d], layered[d], state[d], original, Admittees)

LEMMA PileParts ==
  PileInv <=> /\ theirs \in [Adapters -> Seq(Parts)]
              /\ layered \in [Adapters -> Nat]
              /\ \A d \in Adapters : PiledAt(d)
BY DEF PileInv, PiledAt, Piled, HandlerIsTheirs, Admittees

LEMMA PiledLift ==
  ASSUME theirs' \in [Adapters -> Seq(Parts)], layered' \in [Adapters -> Nat],
         \A f \in Adapters :
            Piled(chain'[f], theirs'[f], layered'[f], state'[f], original', Admittees')
  PROVE  PileInv'
BY DEF PileInv, Piled, HandlerIsTheirs, Admittees

LEMMA HandlersHave ==
  ASSUME ChainInv, NEW d \in Adapters
  PROVE  chain[d] \in Seq(Parts) /\ chain[d] # <<>>
<1>1. chain[d] \in Seq(Parts) /\ Len(chain[d]) > 0
  BY DEF ChainInv, Handlers
<1>2. Len(<<>>) = 0
  OBVIOUS
<1> QED BY <1>1, <1>2

\* Steps that leave the handler alone.
LEMMA QuietPile ==
  ASSUME PileInv, UNCHANGED <<chain, theirs, layered, state, original>>,
         Admittees \subseteq Admittees'
  PROVE  PileInv'
<1>1. ASSUME NEW f \in Adapters
      PROVE  Piled(chain'[f], theirs'[f], layered'[f], state'[f], original', Admittees')
  <2>1. Piled(chain[f], theirs[f], layered[f], state[f], original, Admittees)
    BY PileParts DEF PiledAt
  <2>2. Piled(chain[f], theirs[f], layered[f], state[f], original, Admittees')
    BY <2>1, PiledGrows
  <2> QED BY <2>2
<1> QED BY <1>1, PileParts, PiledLift

LEMMA RegisterPile ==
  ASSUME PileInv, OInv, NEW a \in Attempts, Register(a), Via(a) \in Adapters,
         a \notin Admittees, a \in Admittees', Admittees \subseteq Admittees'
  PROVE  PileInv'
<1> DEFINE d == Via(a)
<1>1. CASE state[d] # None
  BY <1>1, QuietPile DEF Register
<1>2. CASE state[d] = None
  <2>1. /\ state' = [state EXCEPT ![d] = a]
        /\ original' = [original EXCEPT ![a] = chain[d]]
        /\ chain' = [chain EXCEPT ![d] = <<a>> \o @]
        /\ UNCHANGED <<theirs, layered>>
    BY <1>2 DEF Register
  <2>2. /\ state'[d] = a /\ original'[a] = chain[d] /\ chain'[d] = <<a>> \o chain[d]
        /\ \A f \in Adapters \ {d} : state'[f] = state[f] /\ chain'[f] = chain[f]
        /\ \A b \in Attempts \ {a} : original'[b] = original[b]
    BY <2>1 DEF OInv, ChainInv
  <2>3. \A b \in Admittees : original'[b] = original[b]
    BY <2>2 DEF Admittees
  <2>4. Piled(chain[d], theirs[d], layered[d], None, original, Admittees)
    BY <1>2, PileParts DEF PiledAt
  <2>5. chain[d] \in Seq(Parts)
    BY HandlersHave DEF OInv
  <2>6. Piled(<<a>> \o chain[d], theirs[d], layered[d], a, original', Admittees')
    BY <2>2, <2>3, <2>4, <2>5, PiledAttach
  <2>7. ASSUME NEW f \in Adapters
        PROVE  Piled(chain'[f], theirs'[f], layered'[f], state'[f], original', Admittees')
    <3>1. CASE f = d
      BY <2>1, <2>2, <2>6, <3>1
    <3>2. CASE f # d
      <4>1. Piled(chain[f], theirs[f], layered[f], state[f], original, Admittees)
        BY PileParts DEF PiledAt
      <4>2. Piled(chain[f], theirs[f], layered[f], state[f], original', Admittees')
        BY <2>3, <4>1, PiledGrows
      <4> QED BY <2>1, <2>2, <3>2, <4>2
    <3> QED BY <3>1, <3>2
  <2> QED BY <2>1, <2>7, PileParts, PiledLift
<1> QED BY <1>1, <1>2

LEMMA ReleasePile ==
  ASSUME PileInv, OInv, NEW a \in Attempts, Release(a), reg[a] # None,
         Admittees \subseteq Admittees'
  PROVE  PileInv'
<1> DEFINE d == Via(a)
           s == reg[a]
           last == \A b \in Attempts \ {a} : reg[b] # s
<1>1. /\ chain' = [chain EXCEPT ![d] = IF last /\ Head(@) = s THEN original[s] ELSE @]
      /\ state' = [state EXCEPT ![d] = IF last /\ @ = s THEN None ELSE @]
      /\ UNCHANGED <<original, theirs, layered>>
  BY DEF Release
<1>2. d \in Adapters /\ state[d] = s /\ s \in Attempts
  BY DEF OInv, RegInv, ChainInv
<1>3. /\ chain'[d] = IF last /\ Head(chain[d]) = s THEN original[s] ELSE chain[d]
      /\ state'[d] = IF last THEN None ELSE s
      /\ \A f \in Adapters \ {d} : state'[f] = state[f] /\ chain'[f] = chain[f]
  BY <1>1, <1>2 DEF OInv, ChainInv
<1>4. /\ Piled(chain[d], theirs[d], layered[d], s, original, Admittees)
      /\ chain[d] \in Seq(Parts) /\ chain[d] # <<>>
  BY <1>2, PileParts, HandlersHave DEF PiledAt, OInv
<1>5. Piled(chain'[d], theirs[d], layered[d], state'[d], original, Admittees)
  <2>1. CASE last /\ Head(chain[d]) = s
    <3>1. Piled(original[s], theirs[d], layered[d], None, original, Admittees)
      BY <1>2, <1>4, <2>1, PiledDetach
    <3>2. chain'[d] = original[s] /\ state'[d] = None
      BY <1>3, <2>1
    <3> QED BY <3>1, <3>2
  <2>2. CASE last /\ Head(chain[d]) # s
    BY <1>2, <1>3, <1>4, <2>2, PiledLeave
  <2>3. CASE ~last
    BY <1>3, <1>4, <2>3
  <2> QED BY <2>1, <2>2, <2>3
<1>6. ASSUME NEW f \in Adapters
      PROVE  Piled(chain'[f], theirs'[f], layered'[f], state'[f], original', Admittees')
  <2>1. Piled(chain'[f], theirs[f], layered[f], state'[f], original, Admittees)
    <3>1. CASE f = d
      BY <1>5, <3>1
    <3>2. CASE f # d
      BY <1>3, <3>2, PileParts DEF PiledAt
    <3> QED BY <3>1, <3>2
  <2>2. Piled(chain'[f], theirs[f], layered[f], state'[f], original, Admittees')
    BY <2>1, PiledGrows
  <2> QED BY <1>1, <2>2
<1> QED BY <1>1, <1>6, PileParts, PiledLift

LEMMA ChangesPile ==
  ASSUME PileInv, OInv, NEW d \in Adapters,
         HostSets(d) \/ \E p \in Packages : PackageWraps(d, p) \/ PackageUnwraps(d, p)
  PROVE  PileInv'
<1>1. Admittees' = Admittees /\ UNCHANGED <<state, original>>
  BY DEF HostSets, PackageWraps, PackageUnwraps, vars, Admittees
<1>2. /\ Piled(chain[d], theirs[d], layered[d], state[d], original, Admittees)
      /\ chain[d] \in Seq(Parts) /\ chain[d] # <<>> /\ changes + 1 \in Nat
  BY PileParts, HandlersHave DEF PiledAt, OInv, ChainInv
<1> DEFINE Good == /\ \E c \in Seq(Parts) : chain' = [chain EXCEPT ![d] = c]
                   /\ \E t \in Seq(Parts) : theirs' = [theirs EXCEPT ![d] = t]
                   /\ layered' = layered \/ layered' = [layered EXCEPT ![d] = @ + 1]
                   /\ Piled(chain'[d], theirs'[d], layered'[d], state[d], original, Admittees)
<1>3. Good
  <2>1. ASSUME HostSets(d) PROVE Good
    <3>1. PICK k \in Nat : /\ chain' = [chain EXCEPT ![d] = <<k>>]
                           /\ theirs' = [theirs EXCEPT ![d] = <<k>>]
                           /\ layered' = layered
      BY <1>2, <2>1 DEF HostSets
    <3>2. chain'[d] = <<k>> /\ theirs'[d] = <<k>> /\ layered[d] \in Nat
      BY <3>1, PileParts DEF OInv, ChainInv
    <3>3. <<k>> \in Seq(Parts)
      BY DEF Parts
    <3> QED BY <3>1, <3>2, <3>3, PiledBare
  <2>2. ASSUME NEW p \in Packages, PackageWraps(d, p) PROVE Good
    <3>1. /\ chain' = [chain EXCEPT ![d] = <<p>> \o chain[d]]
          /\ theirs' = [theirs EXCEPT ![d] = <<p>> \o theirs[d]]
          /\ layered' = [layered EXCEPT ![d] = @ + 1]
      BY <2>2, PileParts DEF PackageWraps, OInv, ChainInv
    <3>2. /\ chain'[d] = <<p>> \o chain[d] /\ theirs'[d] = <<p>> \o theirs[d]
          /\ layered'[d] = layered[d] + 1
      BY <3>1, PileParts DEF OInv, ChainInv
    <3>3. <<p>> \o chain[d] \in Seq(Parts) /\ <<p>> \o theirs[d] \in Seq(Parts)
      BY <1>2, Prepended DEF Parts, Piled
    <3>4. Piled(<<p>> \o chain[d], <<p>> \o theirs[d], layered[d] + 1, state[d],
                original, Admittees)
      BY <1>2, PiledPackage
    <3> QED BY <3>1, <3>2, <3>3, <3>4
  <2>3. ASSUME NEW p \in Packages, PackageUnwraps(d, p) PROVE Good
    <3>1. /\ chain' = [chain EXCEPT ![d] = Tail(chain[d])]
          /\ theirs' = [theirs EXCEPT ![d] = Tail(theirs[d])]
          /\ layered' = layered /\ Head(chain[d]) = p
      BY <2>3, PileParts DEF PackageUnwraps, OInv, ChainInv
    <3>2. chain'[d] = Tail(chain[d]) /\ theirs'[d] = Tail(theirs[d])
      BY <3>1, PileParts DEF OInv, ChainInv
    <3>3. Piled(Tail(chain[d]), Tail(theirs[d]), layered[d], state[d], original, Admittees)
      BY <1>2, <3>1, PiledPackage
    <3>4. Tail(chain[d]) \in Seq(Parts) /\ Tail(theirs[d]) \in Seq(Parts)
      BY <1>2, <3>3, Beheaded DEF Piled
    <3> QED BY <3>1, <3>2, <3>3, <3>4
  <2> QED BY <2>1, <2>2, <2>3
<1>4. PICK c \in Seq(Parts) : chain' = [chain EXCEPT ![d] = c]
  BY <1>3
<1>5. PICK t \in Seq(Parts) : theirs' = [theirs EXCEPT ![d] = t]
  BY <1>3
<1>6. PICK n \in Nat : layered' = [layered EXCEPT ![d] = n]
  <2>1. layered[d] \in Nat /\ layered = [layered EXCEPT ![d] = layered[d]]
    BY PileParts
  <2>2. layered' = [layered EXCEPT ![d] = layered[d]]
        \/ layered' = [layered EXCEPT ![d] = layered[d] + 1]
    BY <1>3, <2>1, PileParts
  <2> QED BY <2>1, <2>2
<1>7. /\ theirs \in [Adapters -> Seq(Parts)] /\ layered \in [Adapters -> Nat]
      /\ chain \in [Adapters -> Handlers]
  BY PileParts DEF OInv, ChainInv
<1>8. ASSUME NEW f \in Adapters
      PROVE  Piled(chain'[f], theirs'[f], layered'[f], state'[f], original', Admittees')
  <2>1. CASE f = d
    BY <1>1, <1>3, <2>1
  <2>2. CASE f # d
    <3>1. chain'[f] = chain[f] /\ theirs'[f] = theirs[f] /\ layered'[f] = layered[f]
      BY <1>4, <1>5, <1>6, <1>7, <2>2
    <3> QED BY <1>1, <3>1, PileParts DEF PiledAt
  <2> QED BY <2>1, <2>2
<1>9. theirs' \in [Adapters -> Seq(Parts)] /\ layered' \in [Adapters -> Nat]
  BY <1>5, <1>6, <1>7
<1> QED BY <1>8, <1>9, PiledLift

LEMMA FreshPile ==
  ASSUME NEW org, NEW P, NEW s
  PROVE  /\ [d \in Adapters |-> <<0>>] \in [Adapters -> Seq(Parts)]
         /\ [d \in Adapters |-> 0] \in [Adapters -> Nat]
         /\ Piled(<<0>>, <<0>>, 0, s, org, P)
BY PiledBare DEF Parts

LEMMA DiesPile == ASSUME Dies PROVE PileInv'
<1>1. /\ chain' = [d \in Adapters |-> <<0>>]
      /\ theirs' = [d \in Adapters |-> <<0>>]
      /\ layered' = [d \in Adapters |-> 0]
  BY DEF Dies
<1>2. ASSUME NEW f \in Adapters
      PROVE  Piled(chain'[f], theirs'[f], layered'[f], state'[f], original', Admittees')
  <2>1. chain'[f] = <<0>> /\ theirs'[f] = <<0>> /\ layered'[f] = 0
    BY <1>1
  <2> QED BY <2>1, FreshPile
<1> QED BY <1>1, <1>2, FreshPile, PiledLift

LEMMA PileStarts == ASSUME ObsInit PROVE PileInv
<1>1. ASSUME NEW f \in Adapters PROVE PiledAt(f)
  BY FreshPile DEF ObsInit, PiledAt
<1> QED BY <1>1, FreshPile, PileParts DEF ObsInit

LEMMA PileInductive ==
  ASSUME PileInv, OInv, IInv, [ObsNext]_obsVars
  PROVE  PileInv'
<1>1. ASSUME NEW a \in Attempts, Call(a) /\ UNCHANGED observer PROVE PileInv'
  <2>1. Admittees \subseteq Admittees'
    BY <1>1, WakesSettle DEF Admittees
  <2> QED BY <1>1, <2>1, QuietPile DEF observer
<1>2. ASSUME NEW a \in Attempts, Step(a) \/ Fault(a), Observes(a) PROVE PileInv'
  <2>1. Admittees \subseteq Admittees'
    BY <1>2, WakesSettle DEF Admittees
  <2>2. CASE ~Settling(pc[a]) /\ Settling(pc'[a])
    <3>1. Register(a) /\ Via(a) \in Adapters /\ a \notin Admittees /\ a \in Admittees'
      BY <1>2, <2>2, WakesSettle, WakesMove DEF Observes, Admittees
    <3> QED BY <2>1, <3>1, RegisterPile
  <2>3. CASE Settling(pc[a]) /\ ~Settling(pc'[a])
    <3>1. Release(a) /\ reg[a] # None
      BY <1>2, <2>3 DEF Observes, OInv, RegInv
    <3> QED BY <2>1, <3>1, ReleasePile
  <2>4. CASE Settling(pc[a]) <=> Settling(pc'[a])
    <3>1. UNCHANGED observer
      BY <1>2, <2>4 DEF Observes
    <3> QED BY <2>1, <3>1, QuietPile DEF observer
  <2> QED BY <2>2, <2>3, <2>4
<1>3. UNCHANGED <<pc, chain, theirs, layered, state, original>> => PileInv'
  BY QuietPile DEF Admittees
<1>4. ASSUME NEW a \in Attempts,
             TurnRuns(a) \/ TurnReplies(a) \/ (TurnEnds(a) /\ UNCHANGED observer)
      PROVE  PileInv'
  BY <1>3, <1>4 DEF TurnRuns, TurnReplies, PersistWake, PersistReply, TurnEnds, observer
<1>5. World /\ UNCHANGED observer => PileInv'
  BY <1>3 DEF World, ForeignTurn, Reset, Reroute, SwapAdapter, OpenOrClose, Age, observer
<1>6. UNCHANGED obsVars => PileInv'
  BY <1>3 DEF obsVars, vars, observer
<1> QED
  BY <1>1, <1>2, <1>4, <1>5, <1>6, ChangesPile, DiesPile DEF ObsNext

\* Wrappers nest, and the layers of others account for those left behind, in
\* every reachable state.
THEOREM WrapperDiscipline == ObsSpec => []PileInv
<1>1. ObsInit => PileInv
  BY PileStarts
<1>2. PileInv /\ OInv /\ IInv /\ [ObsNext]_obsVars => PileInv'
  BY PileInductive
<1> QED BY <1>1, <1>2, ObserverDiscipline, ObservationRefines, ClaimDiscipline, PTL DEF ObsSpec

\* observe_response never takes off a layer of another package and never
\* brings back a handler the host has replaced, however wakes, packages and
\* the host interleave.
THEOREM HandlerStaysTheirs == ObsSpec => []HandlerIsTheirs
<1>1. PileInv => HandlerIsTheirs
  BY DEF PileInv
<1> QED BY <1>1, WrapperDiscipline, PTL

\* release leaves at most one wrapper behind for each layer another package
\* put in front of it, and none without such layers.
THEOREM WrappersDoNotPile == ObsSpec => []WrappersAreTakenOff
<1>1. PileInv /\ OInv => WrappersAreTakenOff
  <2> SUFFICES ASSUME PileInv, OInv, NEW d \in Adapters
               PROVE  Cardinality(Wrappers(chain[d]))
                      <= layered[d] + IF state[d] = None THEN 0 ELSE 1
    BY DEF WrappersAreTakenOff, Wrappers
  <2> DEFINE W == Wrappers(chain[d])
             n == layered[d]
             s == state[d]
  <2>1. chain[d] \in Seq(Parts)
    BY HandlersHave DEF OInv
  <2>2. IsFiniteSet(W) /\ Cardinality(W) \in Nat /\ n \in Nat
    BY <2>1, LayersFinite DEF PileInv
  <2>3. Covers(n, chain[d], s)
    BY DEF PileInv
  <2>4. CASE s \notin W
    BY <2>2, <2>3, <2>4 DEF Covers
  <2>5. CASE s \in W
    <3>1. s # None
      BY <2>5, ConstantsAssumption DEF Wrappers
    <3>2. PICK i \in 1..Len(chain[d]) : chain[d][i] = s
      BY <2>1, <2>5, LayersFinite DEF Wrappers
    <3>3. Cardinality(W \ {s}) + (i - 1) <= n
      BY <2>3, <2>5, <3>2 DEF Covers
    <3>4. Cardinality(W \ {s}) = Cardinality(W) - 1
      BY <2>2, <2>5, FS_RemoveElement
    <3> HIDE DEF W, n, s
    <3>5. (Cardinality(W) - 1) + (i - 1) <= n /\ i >= 1
      BY <3>2, <3>3, <3>4
    <3>6. Cardinality(W) <= n + 1
      BY <2>2, <3>5
    <3> QED BY <3>1, <3>6 DEF W, n, s
  <2> QED BY <2>4, <2>5
<1> QED BY <1>1, WrapperDiscipline, ObserverDiscipline, PTL

=============================================================================
