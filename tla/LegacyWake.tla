----------------------------- MODULE LegacyWake -----------------------------
(***************************************************************************)
(* self_wake/compat_shim.py, _shim_wake_session: the wake that session:    *)
(* and session_id: markers use.  It shares the receipts table with the     *)
(* native wake but has no token and no transcript marker: the receipt is   *)
(* created, read and updated in transactions of their own, and what the    *)
(* adapter is handed may be queued behind a turn that is running.          *)
(***************************************************************************)
EXTENDS Naturals

CONSTANTS Events,     \* receipts: one conversation, one dedupe key each
          Attempts,   \* wake_session calls
          None,       \* no event
          Serial,     \* callers wake an event one call at a time
          MaxFaults   \* bound: crashes, cancellations, failed calls, stalls

ASSUME LegacyAssumption == /\ None \notin Events
                           /\ Serial \in BOOLEAN
                           /\ MaxFaults \in Nat

VARIABLES receipt,    \* status and age of each row
          adapter,    \* an adapter serves the platform
          busy,       \* the conversation has an active turn
          pc, event,  \* where an attempt is, and for which event
          active,     \* it saw the conversation busy
          injected,   \* its event was taken by the host
          raised,     \* handle_message raised all the same
          answer,     \* what its caller was told
          faults

vars == <<receipt, adapter, busy, pc, event, active, injected, raised, answer, faults>>

Delivered == {"queued", "dispatched", "agent_responded", "dispatched_unconfirmed"}
Statuses  == {"absent", "requested", "failure"} \cup Delivered
Answers   == {"none", "error", "gone", "deduped", "failure"} \cup Delivered

TypeOK == /\ receipt \in [Events -> [status : Statuses, aged : BOOLEAN]]
          /\ adapter \in BOOLEAN /\ busy \in BOOLEAN
          /\ pc \in [Attempts -> {"new", "retaking", "claimed", "ready", "marking",
                                  "handing", "handed", "failing", "done"}]
          /\ event \in [Attempts -> Events \cup {None}]
          /\ active \in [Attempts -> BOOLEAN]
          /\ injected \in [Attempts -> BOOLEAN]
          /\ raised \in [Attempts -> BOOLEAN]
          /\ answer \in [Attempts -> Answers]
          /\ faults \in 0..MaxFaults

Init == /\ receipt = [e \in Events |-> [status |-> "absent", aged |-> FALSE]]
        /\ adapter = TRUE /\ busy = FALSE
        /\ pc = [a \in Attempts |-> "new"]
        /\ event = [a \in Attempts |-> None]
        /\ active = [a \in Attempts |-> FALSE]
        /\ injected = [a \in Attempts |-> FALSE]
        /\ raised = [a \in Attempts |-> FALSE]
        /\ answer = [a \in Attempts |-> "none"]
        /\ faults = 0

Goto(a, l)      == pc' = [pc EXCEPT ![a] = l]
Finish(a, word) == Goto(a, "done") /\ answer' = [answer EXCEPT ![a] = word]
Write(e, s)     == receipt' = [receipt EXCEPT ![e] = [status |-> s, aged |-> FALSE]]
Underway(e)     == {a \in Attempts : event[a] = e /\ pc[a] # "done"}
Strike          == faults < MaxFaults /\ faults' = faults + 1

-----------------------------------------------------------------------------
\* create_session_wake_receipt inserts or returns the row; the decision to
\* retry is taken on the copy it returned.
Retryable(r) == r.status = "failure" \/ (r.status = "requested" /\ r.aged)

Create(a, e) ==
  LET r == receipt[e] IN
  /\ pc[a] = "new"
  /\ Serial => Underway(e) = {}
  /\ event' = [event EXCEPT ![a] = e]
  /\ IF r.status = "absent"
     THEN Write(e, "requested") /\ Goto(a, "claimed") /\ UNCHANGED answer
     ELSE /\ UNCHANGED receipt
          /\ IF Retryable(r) THEN Goto(a, "retaking") /\ UNCHANGED answer
                             ELSE Finish(a, "deduped")
  /\ UNCHANGED <<adapter, busy, active, injected, raised, faults>>

\* The retried row is updated by id, whoever else took it meanwhile.
Retake(a) == /\ pc[a] = "retaking"
             /\ Write(event[a], "requested")
             /\ Goto(a, "claimed")
             /\ UNCHANGED <<adapter, busy, event, active, injected, raised, answer, faults>>

ChooseAdapter(a) ==
  /\ pc[a] = "claimed"
  /\ Goto(a, IF adapter THEN "ready" ELSE "failing")
  /\ UNCHANGED <<receipt, adapter, busy, event, active, injected, raised, answer, faults>>

\* After the transcript was read: is a turn active for the conversation?
LookBusy(a) ==
  /\ pc[a] = "ready"
  /\ active' = [active EXCEPT ![a] = busy]
  /\ Goto(a, "marking")
  /\ UNCHANGED <<receipt, adapter, busy, event, injected, raised, answer, faults>>

\* Mutant: the receipt says dispatched only once the host has the event.
MarkLater(a) ==
  /\ pc[a] = "marking"
  /\ Goto(a, "handing")
  /\ UNCHANGED <<receipt, adapter, busy, event, active, injected, raised, answer, faults>>

\* The receipt says dispatched before the host gets the event.
MarkDispatched(a) ==
  /\ pc[a] = "marking"
  /\ Write(event[a], "dispatched")
  /\ Goto(a, "handing")
  /\ UNCHANGED <<adapter, busy, event, active, injected, raised, answer, faults>>

\* adapter.handle_message starts a turn, or queues the event behind one.
Handle(a) == /\ pc[a] = "handing"
             /\ injected' = [injected EXCEPT ![a] = TRUE]
             /\ busy' = TRUE
             /\ Goto(a, "handed")
             /\ UNCHANGED <<receipt, adapter, event, active, raised, answer, faults>>

HandleRaises(a) ==
  /\ pc[a] = "handing"
  /\ Strike
  /\ \/ injected' = [injected EXCEPT ![a] = TRUE] /\ raised' = [raised EXCEPT ![a] = TRUE]
     \/ UNCHANGED <<injected, raised>>
  /\ Goto(a, "failing")
  /\ UNCHANGED <<receipt, adapter, busy, event, active, answer>>

RecordFailure(a) ==
  /\ pc[a] = "failing"
  /\ Write(event[a], "failure")
  /\ Finish(a, "failure")
  /\ UNCHANGED <<adapter, busy, event, active, injected, raised, faults>>

\* Queued behind the turn it saw, or: the turn ended and the transcript shows
\* a new assistant row, or none.
Record(a) ==
  /\ pc[a] = "handed"
  /\ \E s \in IF active[a] THEN {"queued"} ELSE {"dispatched", "agent_responded"} :
        /\ s # "queued" => ~busy
        /\ Write(event[a], s)
        /\ Finish(a, s)
  /\ UNCHANGED <<adapter, busy, event, active, injected, raised, faults>>

\* Mutant: trouble after the hand-over is a failed wake.
UnconfirmedIsFailure(a) ==
  /\ pc[a] = "handed"
  /\ Strike
  /\ Write(event[a], "failure") \/ UNCHANGED receipt
  /\ Finish(a, "failure")
  /\ UNCHANGED <<adapter, busy, event, active, injected, raised>>

\* Bookkeeping after the hand-over failed, its own record perhaps as well.
Unconfirmed(a) ==
  /\ pc[a] = "handed"
  /\ Strike
  /\ Write(event[a], "dispatched_unconfirmed") \/ UNCHANGED receipt
  /\ Finish(a, "dispatched_unconfirmed")
  /\ UNCHANGED <<adapter, busy, event, active, injected, raised>>

\* A database call raises: before the hand-over that is a failure to record,
\* elsewhere it goes to the caller.
DatabaseFails(a) ==
  /\ pc[a] \in {"retaking", "marking", "failing"}
  /\ Strike
  /\ IF pc[a] = "marking" THEN Goto(a, "failing") /\ UNCHANGED answer
                          ELSE Finish(a, "error")
  /\ UNCHANGED <<receipt, adapter, busy, event, active, injected, raised>>

\* The caller is cancelled and the attempt with it, wherever it waits; the
\* host may have the event already.
Cancelled(a) ==
  /\ pc[a] \notin {"new", "done"}
  /\ Strike
  /\ Finish(a, "gone")
  /\ \/ UNCHANGED injected
     \/ pc[a] = "handing" /\ injected' = [injected EXCEPT ![a] = TRUE]
  /\ UNCHANGED <<receipt, adapter, busy, event, active, raised>>

-----------------------------------------------------------------------------
TurnChanges == /\ busy' = ~busy
               /\ UNCHANGED <<receipt, adapter, pc, event, active, injected, raised,
                              answer, faults>>
AdapterChanges == /\ adapter' = ~adapter
                  /\ UNCHANGED <<receipt, busy, pc, event, active, injected, raised,
                                 answer, faults>>
\* A requested row is 120 seconds old: its attempt died, or stalled.
Age(e) == /\ receipt[e].status = "requested" /\ ~receipt[e].aged
          /\ Strike
          /\ receipt' = [receipt EXCEPT ![e].aged = TRUE]
          /\ UNCHANGED <<adapter, busy, pc, event, active, injected, raised, answer>>

\* The process dies and restarts: every call is gone, the table stays.
Crash == /\ Strike
         /\ pc' = [a \in Attempts |-> IF pc[a] = "new" THEN "new" ELSE "done"]
         /\ answer' = [a \in Attempts |-> IF pc[a] \in {"new", "done"} THEN answer[a]
                                          ELSE "gone"]
         /\ busy' = FALSE
         /\ UNCHANGED <<receipt, adapter, event, active, injected, raised>>

Next == \/ \E a \in Attempts :
              \/ \E e \in Events : Create(a, e)
              \/ Retake(a) \/ ChooseAdapter(a) \/ LookBusy(a) \/ MarkDispatched(a)
              \/ Handle(a) \/ HandleRaises(a) \/ RecordFailure(a)
              \/ Record(a) \/ Unconfirmed(a) \/ DatabaseFails(a) \/ Cancelled(a)
        \/ TurnChanges \/ AdapterChanges \/ Crash
        \/ \E e \in Events : Age(e)

Spec == Init /\ [][Next]_vars

-----------------------------------------------------------------------------
\* compat_shim.py:103, "two concurrent wakes with one dedupe key must not both
\* dispatch": the host gets an event once, a raising handle_message apart.
DispatchedOnce == \A a, b \in Attempts :
                    /\ a # b /\ event[a] = event[b]
                    /\ injected[a] /\ injected[b]
                    => raised[a] \/ raised[b]

\* What the comment after the hand-over asks for: whatever fails in the
\* bookkeeping, the receipt of an event the host took says so.
InjectedIsNotRetried ==
  \A a \in Attempts : injected[a] /\ ~raised[a]
                      => receipt[event[a]].status \in Delivered
=============================================================================
