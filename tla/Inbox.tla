------------------------------- MODULE Inbox --------------------------------
(***************************************************************************)
(* self_wake/outbox.py on top of native_wake.py: the durable inbox that    *)
(* cron results and explicit session messages go through.  A sender stores *)
(* a request for the session it saw; the gateway's watcher scans the open  *)
(* requests, runs at most Slots drain tasks, one per request, in rotation, *)
(* and each drain checks permission and target and calls the native wake   *)
(* with the request as the event.  A refused request is queued again.      *)
(***************************************************************************)
EXTENDS NativeWake, FiniteSets

CONSTANTS Slots       \* drain tasks at once (16 in watch)

ASSUME InboxAssumption ==
  /\ Slots \in Nat \ {0}
  /\ IsFiniteSet(Events)
  /\ Attempts \cap {"idle", "started"} = {}

VARIABLES row,        \* the requests table, one row per request
          created,    \* created_at, as a row's place in the table
          attempted,  \* when the watcher last tried a row, as the place of that
                      \* time among the open rows'; 0: never since it started
          task,       \* the drain task of a request: idle, started, or the
                      \* wake call it waits for
          asked,      \* the request a wake call was made for
          watching,   \* the watcher loop runs
          granted     \* request_allowed: the operator's permission, read live

inbox == <<row, created, attempted, task, asked, watching, granted>>
all   == <<vars, inbox>>

Unsettled == {"queued", "pending"}
Settled   == Accepted \cup {"target_changed"}

Request(status, payload, sid, route) ==
  [status |-> status, payload |-> payload, sid |-> sid, route |-> route]
NoRequest == Request("absent", None, 0, None)
Requests  == [status : {"absent"} \cup Unsettled \cup Settled,
              payload : Payloads \cup {None}, sid : Nat, route : Routes \cup {None}]

InboxInit == /\ Init
             /\ row = [e \in Events |-> NoRequest]
             /\ created = [e \in Events |-> 0]
             /\ attempted = [e \in Events |-> 0]
             /\ task = [e \in Events |-> "idle"]
             /\ asked = [a \in Attempts |-> None]
             /\ watching = TRUE
             /\ granted = TRUE

\* UPDATE requests ... WHERE status IN ('queued','pending').
Mark(e, status) ==
  row' = IF row[e].status \in Unsettled
         THEN [row EXCEPT ![e].status = status]
         ELSE row
Stored  == {e \in Events : row[e].status # "absent"}
Running == {e \in Events : task[e] # "idle"}
Fresh   == {a \in Attempts : pc[a] = "new" /\ asked[a] = None}

-----------------------------------------------------------------------------
\* enqueue: the sender snapshots the session it saw.  A second submission of
\* the same key returns the row it finds, or raises; it changes nothing.
Enqueue(e, p) ==
  LET s == entry[KeyOf[e]] IN
  /\ granted
  /\ row[e].status = "absent"
  /\ row' = [row EXCEPT ![e] = Request("queued", p, s.sid, s.route)]
  /\ created' = [created EXCEPT ![e] = Cardinality(Stored) + 1]
  /\ UNCHANGED <<vars, attempted, task, asked, watching, granted>>

\* Mutant: rows are served in the order the table returns them.
Unrotated(f, e) == created[f] < created[e]

\* sorted(rows, key=attempted), a stable sort of rows ordered by created_at.
Ahead(f, e) == \/ attempted[f] < attempted[e]
               \/ attempted[f] = attempted[e] /\ created[f] < created[e]

\* Mutant: the scan does not look whether a request already has a task.
WaitingTwice == {e \in Events : row[e].status \in Unsettled}

\* The open rows that no drain task works on, and those the free slots take.
Waiting == {e \in Events : row[e].status \in Unsettled /\ task[e] = "idle"}
Taken   == {e \in Waiting :
              Cardinality({f \in Waiting : Ahead(f, e)}) + Cardinality(Running) < Slots}

\* One pass of watch, without a yield: fill the free slots in line order.  Rows
\* that are settled are forgotten, rows taken now were tried last.
Scan ==
  LET taken == Taken
      kept  == {e \in Events : row[e].status \in Unsettled /\ attempted[e] # 0} \ taken
      UpTo(e, rows) == Cardinality({f \in rows : ~Ahead(e, f)})
  IN /\ watching
     /\ task' = [e \in Events |-> IF e \in taken THEN "started" ELSE task[e]]
     /\ attempted' = [e \in Events |->
                        IF e \in taken THEN Cardinality(kept) + UpTo(e, taken)
                        ELSE IF e \in kept THEN UpTo(e, kept) ELSE 0]
     /\ UNCHANGED <<vars, row, created, asked, watching, granted>>

\* Draining, or permission revoked since submission.  The model also leaves a
\* request alone once its wake calls (the bound Attempts) are used up.
DrainSkips(e) == /\ task[e] = "started"
                 /\ ~granted \/ ~open \/ Fresh = {}
                 /\ task' = [task EXCEPT ![e] = "idle"]
                 /\ UNCHANGED <<vars, row, created, attempted, asked, watching, granted>>

SameTarget(e) == LET s == entry[KeyOf[e]] IN s.sid = row[e].sid /\ s.route = row[e].route

\* The target was reset or rerouted: the request is not redirected.
DrainRetargets(e) == /\ task[e] = "started"
                     /\ granted
                     /\ ~SameTarget(e)
                     /\ Mark(e, "target_changed")
                     /\ task' = [task EXCEPT ![e] = "idle"]
                     /\ UNCHANGED <<vars, created, attempted, asked, watching, granted>>

DrainCalls(e, a) == /\ task[e] = "started"
                    /\ granted
                    /\ SameTarget(e)
                    /\ a \in Fresh
                    /\ asked' = [asked EXCEPT ![a] = e]
                    /\ task' = [task EXCEPT ![e] = a]
                    /\ UNCHANGED <<vars, row, created, attempted, watching, granted>>

\* Mutant: the wake is not told which session and origin to expect.
WakeUnexpecting(a) == LET e == asked[a] IN
                      /\ e # None
                      /\ Pin(a, e, row[e].payload, None, None)
                      /\ UNCHANGED inbox

\* The wake call begins in a task of its own, after the drain has looked.
WakeBegins(a) == LET e == asked[a] IN
                 /\ e # None
                 /\ Pin(a, e, row[e].payload, row[e].sid, row[e].route)
                 /\ UNCHANGED inbox

\* Mutants: an uncertain outcome is recorded as a delivery; a refusal ends the
\* request; a refusal is recorded as it is.
PendingIsDelivery(word) == IF word \in {"failure", "error"} THEN "queued"
                           ELSE IF word = "pending" THEN "dispatched" ELSE word
FailureIsFinal(word) == IF word \in {"failure", "error"} THEN "target_changed" ELSE word
FailureIsKept(word) == IF word = "error" THEN "queued" ELSE word

\* A refusal or an exception means another try.
Outcome(word) == IF word \in {"failure", "error"} THEN "queued" ELSE word

\* The drain waits until the wake, settlement included, has answered.
DrainRecords(e) == /\ task[e] \in Attempts
                   /\ answer[task[e]] # "none"
                   /\ Mark(e, Outcome(answer[task[e]]))
                   /\ task' = [task EXCEPT ![e] = "idle"]
                   /\ UNCHANGED <<vars, created, attempted, asked, watching, granted>>

\* The write of the outcome raises: the request is retained as it was.  No
\* fault is counted, the next try uses up one of the wake calls.
DrainRecordFails(e) == /\ task[e] \in Attempts
                       /\ answer[task[e]] # "none"
                       /\ faults < MaxFaults
                       /\ task' = [task EXCEPT ![e] = "idle"]
                       /\ UNCHANGED <<vars, row, created, attempted, asked, watching, granted>>

Permit == /\ granted' = ~granted
          /\ UNCHANGED <<vars, row, created, attempted, task, asked, watching>>

\* Mutant: without the shields a cancelled drain takes its wake with it.
WatcherStopsWakes ==
  /\ watching
  /\ watching' = FALSE
  /\ task' = [e \in Events |-> "idle"]
  /\ pc' = [a \in Attempts |-> IF a \in {task[e] : e \in Events} THEN "done" ELSE pc[a]]
  /\ UNCHANGED <<host, receipt, claim, job, answer, turn, wrote, faults,
                 row, created, attempted, asked, granted>>

\* The gateway stops its notifier: drains are cancelled, wakes are shielded.
WatcherStops == /\ watching
                /\ watching' = FALSE
                /\ task' = [e \in Events |-> "idle"]
                /\ UNCHANGED <<vars, row, created, attempted, asked, granted>>

\* The gateway dies and comes back: the table stays, the loop starts over.
Restart == /\ Crash
           /\ watching' = TRUE
           /\ attempted' = [e \in Events |-> 0]
           /\ task' = [e \in Events |-> "idle"]
           /\ asked' = [a \in Attempts |-> IF pc[a] = "new" THEN None ELSE asked[a]]
           /\ UNCHANGED <<row, created, granted>>

-----------------------------------------------------------------------------
\* A wake the inbox has called does not answer before its settlement.
WakeStep(a) == /\ Step(a)
               /\ answer'[a] = "none" \/ pc'[a] = "done"
               /\ UNCHANGED inbox
WakeTurn(a) == /\ Turn(a) \/ AdmitUnclear(a) \/ SettleInterrupted(a) \/ DatabaseFails(a)
               /\ UNCHANGED inbox

Drain(e) == \/ DrainSkips(e) \/ DrainRetargets(e) \/ DrainRecords(e)
            \/ \E a \in Attempts : DrainCalls(e, a)

InboxNext == \/ \E e \in Events, p \in Payloads : Enqueue(e, p)
             \/ Scan \/ Permit \/ WatcherStops \/ Restart
             \/ \E e \in Events : Drain(e) \/ DrainRecordFails(e)
             \/ \E a \in Attempts : WakeBegins(a) \/ WakeStep(a) \/ WakeTurn(a)
             \/ World /\ UNCHANGED inbox

InboxSpec == InboxInit /\ [][InboxNext]_all

\* The scan comes round every few seconds; the event loop runs ready tasks.
InboxFairness ==
  /\ WF_all(Scan)
  /\ \A e \in Events : WF_all(Drain(e))
  /\ \A a \in Attempts : /\ WF_all(WakeBegins(a)) /\ WF_all(WakeStep(a))
                         /\ WF_all(TurnEnds(a) /\ UNCHANGED inbox)
FairInboxSpec == InboxSpec /\ InboxFairness

-----------------------------------------------------------------------------
InboxTypeOK == /\ TypeOK
               /\ row \in [Events -> Requests]
               /\ created \in [Events -> Nat] /\ attempted \in [Events -> Nat]
               /\ task \in [Events -> {"idle", "started"} \cup Attempts]
               /\ asked \in [Attempts -> Events \cup {None}]
               /\ watching \in BOOLEAN /\ granted \in BOOLEAN

\* A request's turn runs in the session and on the route it was submitted
\* for, with its own text, although the target may change at every await
\* between the drain's lookup and the admission.
NeverRedirected ==
  \A a \in Attempts : Admitted(a) =>
     LET r == row[Event(a)] IN
     job[a].sid = r.sid /\ job[a].route = r.route /\ job[a].payload = r.payload

\* A request is marked delivered only when its receipt proves the injection.
SettledIsDelivered ==
  \A e \in Events : row[e].status \in Accepted =>
     receipt[e].status \in Confirmed /\ receipt[e].injected

\* A sender told target_changed does not see the message delivered later.
GivenUpStaysUndelivered ==
  [][\A a \in Attempts : ~Admitted(a) /\ Admitted(a)' =>
        row[Event(a)].status # "target_changed"]_all

\* docs/current-paths.md:94, "Uncertain post-admission outcomes remain pending":
\* a request recorded as pending is not called queued again, which reads as
\* never delivered, while its receipt is still in doubt.
UncertainRemainsPending ==
  [][\A e \in Events :
        row[e].status = "pending" /\ receipt[e].status \in InDoubt
        => row'[e].status # "queued"]_all

\* No open request waits for ever behind others, refused again and again.
NobodyStarves ==
  \A e \in Events : row[e].status \in Unsettled
     ~> (task[e] # "idle" \/ row[e].status \in Settled \/ ~watching)

\* A target that takes turns from some time on gets every queued request, or
\* the request is known as uncertain or given up, as long as wake calls last.
Receptive == granted /\ open /\ watching /\ adapter # None /\ foreign = {}
QueuedIsResolved ==
  <>[]Receptive => \A e \in Events :
     row[e].status = "queued"
     ~> (row[e].status \in Accepted \cup {"pending"} \/ Fresh = {} \/ ~SameTarget(e))
=============================================================================
