----------------------------- MODULE NativeWake -----------------------------
(***************************************************************************)
(* self_wake/native_wake.py: putting one event into an existing            *)
(* conversation as a turn of its own.  A wake call is an attempt.  It pins *)
(* the target conversation, claims the event's durable receipt in one      *)
(* write transaction (the attempt is its own token), marks the receipt     *)
(* dispatching, and only then, without yielding, validates the target      *)
(* again and asks the host to start the turn.  The turn belongs to the     *)
(* host; a settlement waits for it and reads the transcript for the row    *)
(* that carries the receipt's marker.  An attempt that does not get the    *)
(* claim only observes.  Steps of attempts interleave at every await.      *)
(***************************************************************************)
EXTENDS Naturals

CONSTANTS Keys,       \* session keys: routes into conversations
          Events,     \* receipts: a session key and a dedupe key
          KeyOf,      \* the session key of an event
          Payloads,   \* texts
          Routes,     \* origins a session entry can store
          Adapters,   \* adapter objects
          Attempts,   \* wake calls, one claim token each
          None,       \* no payload, no event, no adapter, nothing expected
          MaxResets,  \* bound: session resets of one key
          MaxFaults   \* bound: crashes, failed database calls, interruptions

ASSUME ConstantsAssumption ==
  /\ KeyOf \in [Events -> Keys]
  /\ MaxResets \in Nat /\ MaxFaults \in Nat
  /\ None \notin Events \cup Payloads \cup Adapters \cup Routes \cup Attempts \cup Nat

VARIABLES entry,      \* session store: the current session id and origin
          adapter,    \* the adapter that serves the target now, or None
          open,       \* the receiver takes turns: running, not draining, and
                      \* the host audit and authorization checks pass
          foreign,    \* session keys busy with a turn that is not a wake
          receipt,    \* session_wake_receipts, one row per event
          claim,      \* self_wake_claims: the token of the owning attempt
          pc,         \* where each attempt is
          job,        \* what each attempt was asked, and what it pinned
          answer,     \* what its caller was told
          turn,       \* the host turn an attempt's admission started
          wrote,      \* what that turn persisted in the transcript
          faults      \* faults so far

host == <<entry, adapter, open, foreign>>
vars == <<entry, adapter, open, foreign, receipt, claim,
          pc, job, answer, turn, wrote, faults>>

Statuses  == {"absent", "requested", "dispatching", "failure", "pending",
              "dispatched", "agent_responded"}
Confirmed == {"dispatched", "agent_responded"}
InDoubt   == {"dispatching", "pending"}
Accepted  == Confirmed \cup {"deduped"}
Answers   == {"none", "gone", "error", "failure", "pending"} \cup Accepted
Labels    == {"new", "pinned", "owner", "dispatching", "refused", "doubtful",
              "admitted", "found", "unsure", "reading", "reconciling", "done"}

Sessions  == [sid : Nat, route : Routes]
Receipts  == [status : Statuses, payload : Payloads \cup {None}, sid : Nat,
              injected : BOOLEAN, aged : BOOLEAN]
Jobs      == [event : Events \cup {None}, payload : Payloads \cup {None},
              sid : Nat, route : Routes \cup {None},
              adapter : Adapters \cup {None}]

\* A receipt row; every write stamps updated_at, so only time makes it aged.
Row(status, payload, sid, injected) ==
  [status |-> status, payload |-> payload, sid |-> sid, injected |-> injected,
   aged |-> FALSE]
Job(event, payload, sid, route, via) ==
  [event |-> event, payload |-> payload, sid |-> sid, route |-> route,
   adapter |-> via]

NoReceipt == Row("absent", None, 0, FALSE)
NoJob     == Job(None, None, 0, None, None)

Init == /\ entry \in [Keys -> [sid : {0}, route : Routes]]
        /\ adapter \in Adapters
        /\ open = TRUE
        /\ foreign = {}
        /\ receipt = [e \in Events |-> NoReceipt]
        /\ claim = [e \in Events |-> None]
        /\ pc = [a \in Attempts |-> "new"]
        /\ job = [a \in Attempts |-> NoJob]
        /\ answer = [a \in Attempts |-> "none"]
        /\ turn = [a \in Attempts |-> "none"]
        /\ wrote = [a \in Attempts |-> "nothing"]
        /\ faults = 0

-----------------------------------------------------------------------------
Event(a)  == job[a].event
Key(a)    == KeyOf[job[a].event]
Goto(a, l) == pc' = [pc EXCEPT ![a] = l]

\* A caller that left, or was told "pending" at admission, hears no more.
Tell(a, word) == answer' = [answer EXCEPT ![a] = IF @ = "none" THEN word ELSE @]
Finish(a, word) == Goto(a, "done") /\ Tell(a, word)

\* adapter._active_sessions and the undone tasks of adapter._session_tasks.
WakeTurns(k) == {a \in Attempts : turn[a] = "running" /\ Key(a) = k}
Busy(k)      == k \in foreign \/ WakeTurns(k) # {}

\* Exactly one persisted user row of session s carries the event's marker.
Marked(e, s) == {a \in Attempts : /\ wrote[a] # "nothing"
                                  /\ Event(a) = e /\ job[a].sid = s}
Exact(e, s)  == \E a \in Attempts : Marked(e, s) = {a}

\* Mutant: the last writer wins, evidence or not.
TransitionBlind(a, status, injected) ==
  LET e == Event(a) IN
  receipt' = IF claim[e] # a THEN receipt
             ELSE [receipt EXCEPT ![e] =
                                 Row(status, @.payload, @.sid, injected)]

\* Only the token holder writes, and never back from a proven injection.
Transition(a, status, injected) ==
  LET e == Event(a) IN
  receipt' = IF \/ claim[e] # a
                 \/ (status \in {"pending", "failure"} /\ receipt[e].injected)
             THEN receipt
             ELSE [receipt EXCEPT ![e] =
                                 Row(status, @.payload, @.sid, injected)]

-----------------------------------------------------------------------------
(* Pinning the target and claiming the receipt.                            *)

\* The stored session and origin are copied before the first await.  A caller
\* may expect a session id and an origin; a mismatch ends the call.
Pin(a, e, p, sid, route) ==
  LET s == entry[KeyOf[e]] IN
  /\ pc[a] = "new"
  /\ IF sid \in {None, s.sid} /\ route \in {None, s.route}
     THEN /\ job' = [job EXCEPT ![a] = Job(e, p, s.sid, s.route, None)]
          /\ Goto(a, "pinned")
          /\ UNCHANGED answer
     ELSE Finish(a, "failure") /\ UNCHANGED job
  /\ UNCHANGED <<host, receipt, claim, turn, wrote, faults>>

\* Mutant: an uncertain outcome is retried like a refusal.
RetryPending(r) == r.status \in {"failure", "pending"}
                   \/ (r.status = "requested" /\ r.aged)

\* A failed receipt, or a requested one older than _INFLIGHT_RETRY_SECONDS.
Retryable(r) == r.status = "failure" \/ (r.status = "requested" /\ r.aged)

Conflicts(a) == LET r == receipt[Event(a)] IN
                r.status # "absent" /\ r.payload # job[a].payload

ClaimConflicts(a) == /\ pc[a] = "pinned"
                     /\ Conflicts(a)
                     /\ Finish(a, "failure")
                     /\ UNCHANGED <<host, receipt, claim, job, turn, wrote, faults>>

\* Mutant: a reclaim keeps the session of the first attempt.
ClaimKeepsTarget(a) ==
  LET e == Event(a) r == receipt[e] IN
  /\ pc[a] = "pinned"
  /\ ~Conflicts(a)
  /\ r.status = "absent" \/ Retryable(r)
  /\ receipt' = [receipt EXCEPT ![e] =
                   Row("requested", job[a].payload,
                       IF r.status = "absent" THEN job[a].sid ELSE r.sid,
                       r.injected)]
  /\ claim' = [claim EXCEPT ![e] = a]
  /\ Goto(a, "owner")
  /\ UNCHANGED <<host, job, answer, turn, wrote, faults>>

\* Create or reclaim: the new token fences every earlier owner.
ClaimOwns(a) ==
  LET e == Event(a) r == receipt[e] IN
  /\ pc[a] = "pinned"
  /\ ~Conflicts(a)
  /\ r.status = "absent" \/ Retryable(r)
  /\ receipt' = [receipt EXCEPT ![e] =
                   Row("requested", job[a].payload, job[a].sid, r.injected)]
  /\ claim' = [claim EXCEPT ![e] = a]
  /\ Goto(a, "owner")
  /\ UNCHANGED <<host, job, answer, turn, wrote, faults>>

\* Somebody else owns the receipt, or it is settled.
ClaimObserves(a) ==
  LET r == receipt[Event(a)] IN
  /\ pc[a] = "pinned"
  /\ ~Conflicts(a)
  /\ r.status # "absent" /\ ~Retryable(r)
  /\ IF r.status \in Confirmed /\ r.injected
     THEN Finish(a, "deduped") /\ UNCHANGED job
     ELSE IF r.status \in InDoubt
     THEN /\ Goto(a, "reading")
          /\ job' = [job EXCEPT ![a] =
                       Job(@.event, @.payload, r.sid, @.route, @.adapter)]
          /\ UNCHANGED answer
     ELSE Finish(a, "pending") /\ UNCHANGED job
  /\ UNCHANGED <<host, receipt, claim, turn, wrote, faults>>

-----------------------------------------------------------------------------
(* The owner: dispatching, then admission without a yield in between.      *)

MarkDispatching(a) ==
  /\ pc[a] = "owner"
  /\ Transition(a, "dispatching", FALSE)
  /\ IF claim[Event(a)] = a
     THEN /\ Goto(a, "dispatching")
          /\ job' = [job EXCEPT ![a] =
                       Job(@.event, @.payload, @.sid, @.route, adapter)]
          /\ UNCHANGED answer
     ELSE Finish(a, "pending") /\ UNCHANGED job
  /\ UNCHANGED <<host, claim, turn, wrote, faults>>

\* Mutant: a busy receiver is not noticed.
AdmissibleBusy(a) ==
  /\ job[a].adapter # None /\ adapter = job[a].adapter /\ open
  /\ entry[Key(a)] = [sid |-> job[a].sid, route |-> job[a].route]

\* admit: everything is looked up again in the step that starts the turn.  Its check
\* of the adapter's handler never refuses: observe_response has just set one.
Admissible(a) ==
  /\ job[a].adapter # None
  /\ adapter = job[a].adapter
  /\ open
  /\ entry[Key(a)] = [sid |-> job[a].sid, route |-> job[a].route]
  /\ ~Busy(Key(a))

\* The turn is the host's from here on.  A caller that does not wait for the
\* settlement is told "pending" at once.
AdmitStarts(a) == /\ pc[a] = "dispatching"
                  /\ Admissible(a)
                  /\ turn' = [turn EXCEPT ![a] = "running"]
                  /\ Goto(a, "admitted")
                  /\ UNCHANGED answer \/ Tell(a, "pending")
                  /\ UNCHANGED <<host, receipt, claim, job, wrote, faults>>

\* The host raised, or returned nothing that proves a task: the turn may run.
AdmitUnclear(a) == /\ pc[a] = "dispatching"
                   /\ Admissible(a)
                   /\ faults < MaxFaults
                   /\ faults' = faults + 1
                   /\ \/ turn' = [turn EXCEPT ![a] = "running"]
                      \/ UNCHANGED turn
                   /\ Goto(a, "doubtful")
                   /\ UNCHANGED <<host, receipt, claim, job, answer, wrote>>

\* Mutant: the refusal is answered without being recorded.
RefusalUnrecorded(a) == /\ pc[a] = "dispatching"
                        /\ ~Admissible(a)
                        /\ Finish(a, "failure")
                        /\ UNCHANGED <<host, receipt, claim, job, turn, wrote, faults>>

AdmitRefused(a) == /\ pc[a] = "dispatching"
                   /\ ~Admissible(a)
                   /\ Goto(a, "refused")
                   /\ UNCHANGED <<host, receipt, claim, job, answer, turn, wrote, faults>>

RecordRefusal(a) == /\ pc[a] = "refused"
                    /\ Transition(a, "failure", FALSE)
                    /\ Finish(a, "failure")
                    /\ UNCHANGED <<host, claim, job, turn, wrote, faults>>

\* Mutant: a host that raised late is taken for a refusal.
DoubtIsFailure(a) == /\ pc[a] = "doubtful"
                     /\ Transition(a, "failure", FALSE)
                     /\ Finish(a, "failure")
                     /\ UNCHANGED <<host, claim, job, turn, wrote, faults>>

RecordDoubt(a) == /\ pc[a] = "doubtful"
                  /\ Transition(a, "pending", FALSE)
                  /\ Finish(a, "pending")
                  /\ UNCHANGED <<host, claim, job, turn, wrote, faults>>

-----------------------------------------------------------------------------
(* The settlement of an admitted turn, and the observers.                  *)

\* Mutant: a turn that returned is taken for a turn that was persisted.
SettleTrusts(a) == /\ pc[a] = "admitted"
                   /\ turn[a] = "over"
                   /\ Goto(a, "found")
                   /\ UNCHANGED <<host, receipt, claim, job, answer, turn, wrote, faults>>

SettleRead(a) == /\ pc[a] = "admitted"
                 /\ turn[a] = "over"
                 /\ Goto(a, IF Exact(Event(a), job[a].sid) THEN "found" ELSE "unsure")
                 /\ UNCHANGED <<host, receipt, claim, job, answer, turn, wrote, faults>>

\* A reply is linked when the turn persisted its own final text.
SettleFound(a) ==
  LET status == IF wrote[a] = "reply" THEN "agent_responded" ELSE "dispatched" IN
  /\ pc[a] = "found"
  /\ Transition(a, status, TRUE)
  /\ Finish(a, status)
  /\ UNCHANGED <<host, claim, job, turn, wrote, faults>>

SettleUnsure(a) == /\ pc[a] = "unsure"
                   /\ Transition(a, "pending", FALSE)
                   /\ Finish(a, "pending")
                   /\ UNCHANGED <<host, claim, job, turn, wrote, faults>>

\* An observer reads the transcript of the session the receipt names.
ReadTranscript(a) ==
  /\ pc[a] = "reading"
  /\ IF Exact(Event(a), job[a].sid)
     THEN Goto(a, "reconciling") /\ UNCHANGED answer
     ELSE Finish(a, "pending")
  /\ UNCHANGED <<host, receipt, claim, job, turn, wrote, faults>>

\* Mutant: reconciliation writes whatever the receipt says by then.
ReconcileAlways(a) ==
  LET e == Event(a) IN
  /\ pc[a] = "reconciling"
  /\ receipt' = [receipt EXCEPT ![e] = Row("dispatched", @.payload, @.sid, TRUE)]
  /\ Finish(a, "deduped")
  /\ UNCHANGED <<host, claim, job, turn, wrote, faults>>

Reconcile(a) ==
  LET e == Event(a) IN
  /\ pc[a] = "reconciling"
  /\ receipt' = IF receipt[e].status \in InDoubt
                THEN [receipt EXCEPT ![e] = Row("dispatched", @.payload, @.sid, TRUE)]
                ELSE receipt
  /\ Finish(a, "deduped")
  /\ UNCHANGED <<host, claim, job, turn, wrote, faults>>

-----------------------------------------------------------------------------
(* The host: turns, transcripts, and everything that changes under a wake. *)

PersistWake(a) == /\ turn[a] = "running" /\ wrote[a] = "nothing"
                  /\ wrote' = [wrote EXCEPT ![a] = "wake"]
                  /\ UNCHANGED <<host, receipt, claim, pc, job, answer, turn, faults>>

PersistReply(a) == /\ turn[a] = "running" /\ wrote[a] = "wake"
                   /\ wrote' = [wrote EXCEPT ![a] = "reply"]
                   /\ UNCHANGED <<host, receipt, claim, pc, job, answer, turn, faults>>

TurnEnds(a) == /\ turn[a] = "running"
               /\ turn' = [turn EXCEPT ![a] = "over"]
               /\ UNCHANGED <<host, receipt, claim, pc, job, answer, wrote, faults>>

ForeignTurn(k) == /\ \/ k \in foreign /\ foreign' = foreign \ {k}
                     \/ ~Busy(k) /\ foreign' = foreign \cup {k}
                  /\ UNCHANGED <<entry, adapter, open, receipt, claim,
                                 pc, job, answer, turn, wrote, faults>>

Reset(k) == /\ entry[k].sid < MaxResets
            /\ entry' = [entry EXCEPT ![k].sid = @ + 1]
            /\ UNCHANGED <<adapter, open, foreign, receipt, claim,
                           pc, job, answer, turn, wrote, faults>>

Reroute(k, r) == /\ r # entry[k].route
                 /\ entry' = [entry EXCEPT ![k].route = r]
                 /\ UNCHANGED <<adapter, open, foreign, receipt, claim,
                                pc, job, answer, turn, wrote, faults>>

SwapAdapter(d) == /\ d # adapter
                  /\ adapter' = d
                  /\ UNCHANGED <<entry, open, foreign, receipt, claim,
                                 pc, job, answer, turn, wrote, faults>>

OpenOrClose == /\ open' = ~open
               /\ UNCHANGED <<entry, adapter, foreign, receipt, claim,
                              pc, job, answer, turn, wrote, faults>>

\* 120 seconds without a write to a requested receipt.
Age(e) == /\ receipt[e].status = "requested" /\ ~receipt[e].aged
          /\ receipt' = [receipt EXCEPT ![e] =
                      [status |-> @.status, payload |-> @.payload, sid |-> @.sid,
                       injected |-> @.injected, aged |-> TRUE]]
          /\ UNCHANGED <<host, claim, pc, job, answer, turn, wrote, faults>>

-----------------------------------------------------------------------------
(* Cancellation and faults.                                                *)

\* wake shields its owner task: a cancelled caller changes nothing else.
CallerCancelled(a) == /\ pc[a] \notin {"new", "done"}
                      /\ answer[a] = "none"
                      /\ answer' = [answer EXCEPT ![a] = "gone"]
                      /\ UNCHANGED <<host, receipt, claim, pc, job, turn, wrote, faults>>

\* The turn raised, the settlement was cancelled, or its read failed.
SettleInterrupted(a) == /\ pc[a] = "admitted"
                        /\ faults < MaxFaults
                        /\ faults' = faults + 1
                        /\ Goto(a, "unsure")
                        /\ UNCHANGED <<host, receipt, claim, job, answer, turn, wrote>>

\* A database call raises instead of doing the attempt's next step.
DatabaseFails(a) ==
  /\ pc[a] \in {"pinned", "owner", "refused", "doubtful", "found", "unsure",
                "reading", "reconciling"}
  /\ faults < MaxFaults
  /\ faults' = faults + 1
  /\ IF pc[a] = "found" THEN Goto(a, "unsure") /\ UNCHANGED answer
                        ELSE Finish(a, "error")
  /\ UNCHANGED <<host, receipt, claim, job, turn, wrote>>

\* The gateway dies and restarts: tasks and turns are gone, tables stay.
Crash == /\ faults < MaxFaults
         /\ faults' = faults + 1
         /\ pc' = [a \in Attempts |-> IF pc[a] = "new" THEN "new" ELSE "done"]
         /\ answer' = [a \in Attempts |-> IF pc[a] # "new" /\ answer[a] = "none"
                                          THEN "gone" ELSE answer[a]]
         /\ turn' = [a \in Attempts |-> IF turn[a] = "running" THEN "over" ELSE turn[a]]
         /\ foreign' = {}
         /\ open' = TRUE
         /\ UNCHANGED <<entry, adapter, receipt, claim, job, wrote>>

-----------------------------------------------------------------------------
Call(a) == \E e \in Events, p \in Payloads, sid \in {None} \cup 0..MaxResets,
              route \in {None} \cup Routes : Pin(a, e, p, sid, route)

\* The steps of an attempt's own tasks, its settlement included.
Step(a) == \/ ClaimConflicts(a) \/ ClaimOwns(a) \/ ClaimObserves(a)
           \/ MarkDispatching(a) \/ AdmitStarts(a) \/ AdmitRefused(a)
           \/ RecordRefusal(a) \/ RecordDoubt(a)
           \/ SettleRead(a) \/ SettleFound(a) \/ SettleUnsure(a)
           \/ ReadTranscript(a) \/ Reconcile(a)

Fault(a) == \/ CallerCancelled(a) \/ AdmitUnclear(a)
            \/ SettleInterrupted(a) \/ DatabaseFails(a)
Turn(a)  == PersistWake(a) \/ PersistReply(a) \/ TurnEnds(a)

World == \/ \E k \in Keys : ForeignTurn(k) \/ Reset(k)
         \/ \E k \in Keys, r \in Routes : Reroute(k, r)
         \/ \E d \in Adapters \cup {None} : SwapAdapter(d)
         \/ OpenOrClose
         \/ \E e \in Events : Age(e)

Next == \/ \E a \in Attempts : Call(a) \/ Step(a) \/ Turn(a) \/ Fault(a)
        \/ World \/ Crash

Spec == Init /\ [][Next]_vars

\* The event loop runs every ready task and every host turn ends.
Fairness == \A a \in Attempts : WF_vars(Step(a)) /\ WF_vars(TurnEnds(a))
FairSpec == Spec /\ Fairness

-----------------------------------------------------------------------------
TypeOK == /\ entry \in [Keys -> Sessions]
          /\ adapter \in Adapters \cup {None}
          /\ open \in BOOLEAN
          /\ foreign \in SUBSET Keys
          /\ receipt \in [Events -> Receipts]
          /\ claim \in [Events -> Attempts \cup {None}]
          /\ pc \in [Attempts -> Labels]
          /\ job \in [Attempts -> Jobs]
          /\ \A a \in Attempts : pc[a] \notin {"new", "done"} =>
                job[a].event \in Events /\ job[a].payload \in Payloads
          /\ answer \in [Attempts -> Answers]
          /\ turn \in [Attempts -> {"none", "running", "over"}]
          /\ wrote \in [Attempts -> {"nothing", "wake", "reply"}]
          /\ faults \in Nat

Admitted(a) == turn[a] # "none"

\* An event starts at most one turn, over all attempts, retries, reclaims,
\* crashes and failed writes (native_wake.py: the token fences stale owners,
\* and nothing in doubt is retried).
AtMostOnce == \A a, b \in Attempts :
                Admitted(a) /\ Admitted(b) /\ Event(a) = Event(b) => a = b

\* Two turns never run in one conversation: the busy check and the start of
\* the turn are one step (admit).
OneTurnPerSession ==
  \A a \in Attempts : turn[a] = "running" =>
     /\ Key(a) \notin foreign
     /\ WakeTurns(Key(a)) = {a}

\* A receipt that says delivered is backed by exactly one row with its marker,
\* in the session the receipt names, with the receipt's payload, and a
\* response is claimed only when the turn's own reply was persisted.
ConfirmedIsPersisted ==
  \A e \in Events : receipt[e].status \in Confirmed =>
     \E a \in Attempts :
        /\ Marked(e, receipt[e].sid) = {a}
        /\ job[a].payload = receipt[e].payload
        /\ receipt[e].status = "agent_responded" => wrote[a] = "reply"

\* A caller is told that its event was delivered only if the receipt records
\* it, and the record survives whatever other attempts do afterwards.
AcceptedIsRecorded ==
  \A a \in Attempts : answer[a] \in Accepted =>
     receipt[Event(a)].status \in Confirmed /\ receipt[Event(a)].injected

\* The turn of an event runs in the session its receipt names and carries the
\* receipt's text, although receipts are re-targeted by later claims.
TurnMatchesReceipt ==
  \A a \in Attempts : Admitted(a) =>
     /\ receipt[Event(a)].sid = job[a].sid
     /\ receipt[Event(a)].payload = job[a].payload

\* Evidence is never taken back: a delivered receipt stays delivered, a linked
\* response stays linked, whichever of settlement and observers writes last.
NoDowngrade ==
  [][\A e \in Events :
        /\ receipt[e].status \in Confirmed => receipt'[e].status \in Confirmed
        /\ receipt[e].status = "agent_responded" => receipt'[e] = receipt[e]]_vars

\* A turn starts only in the conversation that is current at that moment, on
\* the adapter that serves it, never while draining or busy: what was pinned
\* before the awaits is not used stale.
AdmissionIsCurrent ==
  [][\A a \in Attempts : ~Admitted(a) /\ Admitted(a)' =>
        /\ entry[Key(a)].sid = receipt[Event(a)].sid
        /\ entry[Key(a)].route = job[a].route
        /\ adapter = job[a].adapter
        /\ open /\ ~Busy(Key(a))]_vars

\* A receipt in doubt whose turn has reached the transcript is settled as
\* delivered even if every caller left, provided nothing crashes.
InjectionIsRecorded ==
  \A a \in Attempts, e \in Events :
     (wrote[a] # "nothing" /\ Event(a) = e) ~> receipt[e].status \in Confirmed

\* Without crashes and failed writes no receipt stays dispatching for ever.
DispatchingResolves ==
  \A e \in Events : receipt[e].status = "dispatching"
                    ~> receipt[e].status # "dispatching"

\* The receipts implement the promise of WakeOnce.
Promise == INSTANCE WakeOnce WITH
             Wakers <- Attempts,
             phase <- [e \in Events |->
                         IF receipt[e].status \in InDoubt THEN "doubt"
                         ELSE IF receipt[e].status \in Confirmed THEN "delivered"
                         ELSE "open"],
             told <- [e \in Events |-> {a \in Attempts : Admitted(a) /\ Event(a) = e}]

\* Every behaviour of the receipts is one the abstract promise allows.
KeepsPromise == Promise!Spec
=============================================================================
