--------------------------- MODULE KanbanNotifier ---------------------------
(***************************************************************************)
(* self_wake/compat_shim.py, _shim_kanban_events_watcher: the loop that    *)
(* carries the terminal events of a Kanban task to its subscriptions.  A   *)
(* tick collects the unseen events of every subscription and then delivers *)
(* them one by one, awaiting wakes and sends.  A native subscription moves *)
(* its cursor after each confirmed event; a legacy one claims its events   *)
(* by moving the cursor first and rewinds it on failure.  Native wakes are *)
(* what WakeOnce promises (NativeWake implements it); subscriptions, board *)
(* and adapters change while the loop awaits.  The host's calls (claim,    *)
(* advance, rewind, removal) find a row by its destination, whichever      *)
(* subscription the destination has by then.                               *)
(***************************************************************************)
EXTENDS Naturals, Sequences

CONSTANTS Subs,       \* destinations subscribed to the task
          Modes,      \* how a subscription may ask to be served
          MaxEvents,  \* bound: events of the task
          MaxGens,    \* bound: times a destination is subscribed
          MaxResets,  \* bound: cursor resets by the operator
          MaxFaults   \* bound: crashes and failed database calls

Native  == {"wake", "notify+wake"}
Visible == {"notify+wake", "notify"}
Ids     == 1..MaxEvents

ASSUME NotifierAssumption ==
  /\ Modes \subseteq Native \cup {"notify", "marker"}
  /\ MaxEvents \in Nat /\ MaxGens \in Nat
  /\ MaxResets \in Nat /\ MaxFaults \in Nat

MaxSendFailures == 3

VARIABLES unnamed,    \* destinations whose platform the enum does not know
          log,        \* id of the newest event on the board
          archived,   \* the task is archived
          connected,  \* the adapter of the platform is connected
          sub,        \* kanban_notify_subs: one row per destination
          todo,       \* rows of this tick's list it has still to collect
          batch,      \* deliveries collected and not finished, in order
          pc,         \* where the loop is
          fails,      \* sub_fail_counts, in memory
          shown,      \* events a destination was sent as a message
          marked,     \* events a marker's legacy wake put in
          called,     \* events a native wake was called for
          phase, told,\* the native wakes (WakeOnce)
          resets, faults

board == <<unnamed, log, archived, connected>>
wakes == <<phase, told>>
vars  == <<board, sub, todo, batch, pc, fails, shown, marked, called, wakes,
          resets, faults>>

Wake == INSTANCE WakeOnce WITH Events <- Subs \X Ids, Wakers <- {"turn"}

\* A subscription.  Kept for the properties: start is where its cursor began or
\* was set back to, own says that no call made for another row moved it since.
Row(live, mode, gen, cursor) ==
  [live |-> live, mode |-> mode, gen |-> gen, start |-> cursor, cursor |-> cursor,
   own |-> TRUE]
Rows == [live : BOOLEAN, mode : Modes, gen : 0..MaxGens, start : 0..MaxEvents,
         cursor : 0..MaxEvents, own : BOOLEAN]

\* The list of subscriptions is a snapshot.  A delivery has the mode and the
\* generation of the listed row; row (kept for the properties) is the
\* generation of the one its events were read from.
Listed == [sub : Subs, mode : Modes, gen : 0..MaxGens]
Deliveries == [sub : Subs, mode : Modes, gen : 0..MaxGens, row : 0..MaxGens,
               old : 0..MaxEvents, upto : Ids, next : 1..(MaxEvents + 1)]

TypeOK == /\ unnamed \subseteq Subs
          /\ log \in 0..MaxEvents /\ archived \in BOOLEAN /\ connected \in BOOLEAN
          /\ sub \in [Subs -> Rows]
          /\ todo \subseteq Listed
          /\ batch \in Seq(Deliveries)
          /\ pc \in {"idle", "collecting", "next", "event", "waking", "sending",
                     "acking", "failed"}
          /\ fails \in [Subs -> 0..MaxSendFailures - 1]
          /\ shown \subseteq Subs \X Ids /\ marked \subseteq Subs \X Ids
          /\ called \subseteq Subs \X Ids
          /\ Wake!TypeOK
          /\ resets \in 0..MaxResets /\ faults \in 0..MaxFaults

Init == /\ unnamed \in SUBSET Subs
        /\ log = 0 /\ archived = FALSE /\ connected = TRUE
        /\ sub \in [Subs -> {Row(FALSE, mode, 0, 0) : mode \in Modes}]
        /\ todo = {} /\ batch = <<>> /\ pc = "idle"
        /\ fails = [s \in Subs |-> 0]
        /\ shown = {} /\ marked = {} /\ called = {}
        /\ Wake!Init
        /\ resets = 0 /\ faults = 0

-----------------------------------------------------------------------------
d       == Head(batch)
now     == <<d.sub, d.next>>
native  == d.mode \in Native
Same(s) == sub[s].live /\ sub[s].gen = d.gen

\* The loop goes on with the next event of the delivery at its head.
NextEvent == /\ batch' = <<[d EXCEPT !.next = @ + 1]>> \o Tail(batch)
             /\ fails' = [fails EXCEPT ![d.sub] = 0]
             /\ pc' = "event"

\* list_notify_subs is read once, before the rows are gone through.
StartTick == /\ pc = "idle" /\ connected
             /\ pc' = "collecting"
             /\ todo' = {[sub |-> s, mode |-> sub[s].mode, gen |-> sub[s].gen] :
                           s \in {s \in Subs : sub[s].live}}
             /\ UNCHANGED <<board, sub, batch, fails, shown, marked, called, wakes, resets, faults>>

\* Mutant: a subscription that failed too often is kept but not served.
UnseenUnlessFailing(s) == sub[s].cursor < log /\ fails[s] + 1 < MaxSendFailures

\* Terminal events beyond the cursor, and where a delivery begins.
Unseen(s) == sub[s].cursor < log
First(s)  == sub[s].cursor + 1

\* What is at the destination now is read, whatever the list said; whether it
\* is claimed too goes by the listed mode.  unseen_events_for_sub reads,
\* claim_unseen_events_for_sub moves the cursor, _kanban_unsub removes.
Collect(r) ==
  LET s == r.sub
      claims == r.mode \notin Native
  IN
  /\ pc = "collecting" /\ r \in todo
  /\ todo' = todo \ {r}
  /\ IF archived
     THEN sub' = [sub EXCEPT ![s].live = FALSE] /\ UNCHANGED batch
     ELSE IF sub[s].live /\ Unseen(s)
     THEN /\ batch' = Append(batch, [sub |-> s, mode |-> r.mode, gen |-> r.gen,
                                     row |-> sub[s].gen, old |-> sub[s].cursor,
                                     upto |-> log, next |-> First(s)])
          /\ sub' = IF claims
                    THEN [sub EXCEPT ![s].cursor = log,
                                     ![s].own = @ /\ sub[s].mode \notin Native]
                    ELSE sub
     ELSE UNCHANGED <<sub, batch>>
  /\ UNCHANGED <<board, pc, fails, shown, marked, called, wakes, resets, faults>>

Collected == /\ pc = "collecting" /\ todo = {}
             /\ pc' = "next"
             /\ UNCHANGED <<board, sub, todo, batch, fails, shown, marked, called, wakes, resets, faults>>

\* The host takes back a claim that nobody moved since, or sets the cursor to
\* the delivery's end without looking at it.
Rewound == IF ~native /\ sub[d.sub].cursor = d.upto
           THEN [sub EXCEPT ![d.sub].cursor = d.old]
           ELSE sub
Advanced == IF sub[d.sub].live
            THEN [sub EXCEPT ![d.sub].cursor = d.upto,
                             ![d.sub].own = @ /\ sub[d.sub].gen = d.row
                                              /\ d.sub \notin unnamed]
            ELSE sub

\* Mutant: a disconnected adapter skips the delivery, claimed or not.
OpenSkipping ==
  /\ pc = "next"
  /\ IF batch = <<>> THEN pc' = "idle" /\ UNCHANGED <<sub, batch>>
     ELSE IF d.sub \notin unnamed /\ connected THEN pc' = "event" /\ UNCHANGED <<sub, batch>>
     ELSE UNCHANGED sub /\ batch' = Tail(batch) /\ UNCHANGED pc
  /\ UNCHANGED <<board, todo, fails, shown, marked, called, wakes, resets, faults>>

\* An empty batch ends the tick.  A platform nobody can name is passed over, a
\* delivery whose adapter is gone is put back.
OpenDelivery ==
  /\ pc = "next"
  /\ IF batch = <<>> THEN pc' = "idle" /\ UNCHANGED <<sub, batch>>
     ELSE IF d.sub \in unnamed THEN sub' = Advanced /\ batch' = Tail(batch) /\ UNCHANGED pc
     ELSE IF connected THEN pc' = "event" /\ UNCHANGED <<sub, batch>>
     ELSE sub' = Rewound /\ batch' = Tail(batch) /\ UNCHANGED pc
  /\ UNCHANGED <<board, todo, fails, shown, marked, called, wakes, resets, faults>>

\* One event: a passive subscription is sent to, any other is woken first.
OpenEvent ==
  /\ pc = "event" /\ d.next <= d.upto
  /\ pc' = IF d.mode = "notify" THEN "sending" ELSE "waking"
  /\ called' = IF native THEN called \cup {now} ELSE called
  /\ UNCHANGED <<board, sub, todo, batch, fails, shown, marked, wakes, resets, faults>>

\* The last event is done.  A legacy subscription is advanced once more, the
\* row that has its destination by now and from wherever its cursor is.
CloseDelivery ==
  /\ pc = "event" /\ d.next > d.upto
  /\ sub' = IF native THEN sub ELSE Advanced
  /\ batch' = Tail(batch) /\ pc' = "next"
  /\ UNCHANGED <<board, todo, fails, shown, marked, called, wakes, resets, faults>>

\* dispatched, agent_responded or deduped: the receipt proves the injection.
WakeAccepted ==
  /\ pc = "waking" /\ native
  /\ phase[now] = "delivered"
  /\ pc' = IF d.mode \in Visible THEN "sending" ELSE "acking"
  /\ UNCHANGED <<board, sub, todo, batch, fails, shown, marked, called, wakes, resets, faults>>

\* pending, failure or an exception; the receipt may be in any phase.
WakeRejected ==
  /\ pc = "waking" /\ native
  /\ pc' = "failed"
  /\ UNCHANGED <<board, sub, todo, batch, fails, shown, marked, called, wakes, resets, faults>>

\* A marker's legacy wake: anything but failure is an acceptance, and a
\* failure may have put the event in.
MarkerWake ==
  /\ pc = "waking" /\ ~native
  /\ \/ marked' = marked \cup {now} /\ NextEvent
     \/ /\ marked' = marked \/ marked' = marked \cup {now}
        /\ pc' = "failed" /\ UNCHANGED <<batch, fails>>
  /\ UNCHANGED <<board, sub, todo, shown, called, wakes, resets, faults>>

Send ==
  /\ pc = "sending"
  /\ shown' = shown \cup {now}
  /\ IF native THEN pc' = "acking" /\ UNCHANGED <<batch, fails>> ELSE NextEvent
  /\ UNCHANGED <<board, sub, todo, marked, called, wakes, resets, faults>>

SendFails ==
  /\ pc = "sending"
  /\ shown' = shown \/ shown' = shown \cup {now}
  /\ pc' = "failed"
  /\ UNCHANGED <<board, sub, todo, batch, fails, marked, called, wakes, resets, faults>>

\* Mutant: an acknowledgement that is not bound to its subscription.
AckAnyGeneration ==
  /\ pc = "acking"
  /\ sub' = IF sub[d.sub].live /\ sub[d.sub].cursor < d.next
            THEN [sub EXCEPT ![d.sub].cursor = d.next] ELSE sub
  /\ NextEvent
  /\ UNCHANGED <<board, todo, shown, marked, called, wakes, resets, faults>>

\* _advance_native: only forward, only for the subscription it was read from.
Acknowledge ==
  /\ pc = "acking"
  /\ sub' = IF Same(d.sub) /\ sub[d.sub].cursor < d.next
            THEN [sub EXCEPT ![d.sub].cursor = d.next] ELSE sub
  /\ NextEvent
  /\ UNCHANGED <<board, todo, shown, marked, called, wakes, resets, faults>>

AcknowledgeFails ==
  /\ pc = "acking" /\ faults < MaxFaults
  /\ faults' = faults + 1
  /\ pc' = "failed"
  /\ UNCHANGED <<board, sub, todo, batch, fails, shown, marked, called, wakes, resets>>

\* Mutant: after a failure the loop goes on with the next event.
FailAndGoOn ==
  /\ pc = "failed"
  /\ batch' = <<[d EXCEPT !.next = @ + 1]>> \o Tail(batch)
  /\ pc' = "event"
  /\ UNCHANGED <<board, sub, todo, fails, shown, marked, called, wakes, resets, faults>>

\* Mutant: failures drop any subscription.
FailDropsAll ==
  LET last == fails[d.sub] + 1 >= MaxSendFailures IN
  /\ pc = "failed"
  /\ sub' = IF last THEN [sub EXCEPT ![d.sub].live = FALSE] ELSE Rewound
  /\ fails' = [fails EXCEPT ![d.sub] = IF last THEN 0 ELSE @ + 1]
  /\ batch' = Tail(batch) /\ pc' = "next"
  /\ UNCHANGED <<board, todo, shown, marked, called, wakes, resets, faults>>

\* The delivery ends at its first failure.  A legacy subscription is rewound,
\* and dropped after MaxSendFailures; a native one keeps row and cursor (its
\* count, which nothing reads, is not taken further).
Fail ==
  LET last == fails[d.sub] + 1 >= MaxSendFailures IN
  /\ pc = "failed"
  /\ sub' = IF last /\ ~native THEN [sub EXCEPT ![d.sub].live = FALSE] ELSE Rewound
  /\ fails' = [fails EXCEPT ![d.sub] = IF ~last THEN @ + 1 ELSE IF native THEN @ ELSE 0]
  /\ batch' = Tail(batch) /\ pc' = "next"
  /\ UNCHANGED <<board, todo, shown, marked, called, wakes, resets, faults>>

\* A database call outside the events' own handler raises (collecting a row,
\* advancing, rewinding, dropping): the tick is abandoned with its whole batch.
InDatabase == \/ pc = "collecting" /\ todo # {}
              \/ pc = "next" /\ batch # <<>> /\ (d.sub \in unnamed \/ (~connected /\ ~native))
              \/ pc = "event" /\ d.next > d.upto /\ ~native
              \/ pc = "failed" /\ ~native

TickFails ==
  /\ InDatabase /\ faults < MaxFaults
  /\ faults' = faults + 1
  /\ todo' = {} /\ batch' = <<>> /\ pc' = "idle"
  /\ UNCHANGED <<board, sub, fails, shown, marked, called, wakes, resets>>

-----------------------------------------------------------------------------
BoardEvent == /\ log < MaxEvents /\ ~archived
              /\ log' = log + 1
              /\ UNCHANGED <<unnamed, archived, connected, sub, todo, batch, pc, fails,
                             shown, marked, called, wakes, resets, faults>>
Archive    == /\ ~archived /\ archived' = TRUE
              /\ UNCHANGED <<unnamed, log, connected, sub, todo, batch, pc, fails,
                             shown, marked, called, wakes, resets, faults>>
Reconnect  == /\ connected' = ~connected
              /\ UNCHANGED <<unnamed, log, archived, sub, todo, batch, pc, fails,
                             shown, marked, called, wakes, resets, faults>>

\* A new row starts at any point of the board's log.
Subscribe(s, mode, c) ==
  /\ ~sub[s].live /\ sub[s].gen < MaxGens
  /\ sub' = [sub EXCEPT ![s] = Row(TRUE, mode, @.gen + 1, c)]
  /\ UNCHANGED <<board, todo, batch, pc, fails, shown, marked, called, wakes, resets, faults>>
Unsubscribe(s) == /\ sub[s].live
                  /\ sub' = [sub EXCEPT ![s].live = FALSE]
                  /\ UNCHANGED <<board, todo, batch, pc, fails, shown, marked,
                                 called, wakes, resets, faults>>

\* create_wake_subscription on a row that exists: a visible one gets a marker,
\* and the cursor may be set back to the board's beginning.  A delivery under way
\* moves it on again: the events before start are then not asked for any more.
Upgrade(s) == /\ sub[s].live /\ sub[s].mode = "notify" /\ "marker" \in Modes
              /\ sub' = [sub EXCEPT ![s].mode = "marker"]
              /\ UNCHANGED <<board, todo, batch, pc, fails, shown, marked, called,
                             wakes, resets, faults>>
UnderWay(s) == \E k \in 1..Len(batch) : batch[k].sub = s
ResetCursor(s) == /\ sub[s].live /\ resets < MaxResets
                  /\ resets' = resets + 1
                  /\ sub' = [sub EXCEPT ![s].cursor = 0,
                                        ![s].start = IF UnderWay(s) THEN @ ELSE 0]
                  /\ UNCHANGED <<board, todo, batch, pc, fails, shown, marked, called,
                                 wakes, faults>>

\* The native wakes that were called go on by themselves.
WakesMove == /\ \E e \in called : \/ Wake!Undertake(e) \/ Wake!Abandon(e)
                                  \/ Wake!Tell(e, "turn") \/ Wake!Confirm(e)
             /\ UNCHANGED <<board, sub, todo, batch, pc, fails, shown, marked,
                            called, resets, faults>>

\* The gateway dies and restarts; the board and the receipts stay.
Crash == /\ faults < MaxFaults
         /\ faults' = faults + 1
         /\ pc' = "idle" /\ batch' = <<>> /\ todo' = {}
         /\ fails' = [s \in Subs |-> 0]
         /\ UNCHANGED <<board, sub, shown, marked, called, wakes, resets>>

Tick == \/ StartTick \/ (\E r \in todo : Collect(r)) \/ Collected
        \/ OpenDelivery \/ OpenEvent \/ CloseDelivery
        \/ WakeAccepted \/ WakeRejected \/ MarkerWake
        \/ Send \/ SendFails \/ Acknowledge \/ Fail

Next == \/ Tick \/ AcknowledgeFails \/ TickFails
        \/ BoardEvent \/ Archive \/ Reconnect
        \/ \E s \in Subs : Unsubscribe(s) \/ Upgrade(s) \/ ResetCursor(s)
        \/ \E s \in Subs, mode \in Modes, c \in 0..log : Subscribe(s, mode, c)
        \/ WakesMove \/ Crash

Spec == Init /\ [][Next]_vars

\* The loop keeps ticking.  A receiver that can be woken at every try is woken
\* in the end and its receipt confirmed, and the answer says so.
FairSpec == /\ Spec
            /\ WF_vars(Tick)
            /\ \A s \in Subs : SF_vars(WakeAccepted /\ d.sub = s)
            /\ \A e \in Subs \X Ids :
                 /\ WF_vars(e \in called /\ Wake!Undertake(e) /\ WakesMove)
                 /\ SF_vars(e \in called /\ Wake!Tell(e, "turn") /\ WakesMove)
                 /\ WF_vars(e \in called /\ Wake!Confirm(e) /\ WakesMove)

-----------------------------------------------------------------------------
\* The cursor of a native subscription only ever covers events that are proven
\* injected, and shown where the mode asks for it, since its subscription or
\* last reset: not those that a crash, a refusal or another generation's native
\* delivery cut off.  Excepted is where the code does lose events: a legacy
\* delivery left by an earlier row of the destination claims or advances the
\* cursor of a row that is not its own, a delivery under way undoes a reset.
AcknowledgedIsDelivered ==
  \A s \in Subs : sub[s].live /\ sub[s].own /\ sub[s].mode \in Native =>
     \A i \in (sub[s].start + 1)..sub[s].cursor :
        /\ phase[<<s, i>>] = "delivered"
        /\ sub[s].mode \in Visible => <<s, i>> \in shown

\* An event is not put in before the ones ahead of it are proven injected,
\* although the operator may set the cursor back at any moment.
OneAtATime ==
  pc = "waking" /\ native /\ Same(d.sub) /\ sub[d.sub].own =>
     \A i \in (sub[d.sub].start + 1)..(d.next - 1) : phase[<<d.sub, i>>] = "delivered"

\* The loop never rewinds a native subscription, and only its operator or the
\* archived task ends it, however often its wakes fail; a legacy delivery left
\* from an earlier subscription of the destination, and a platform without
\* name, are excepted.
Leftover(s) == batch # <<>> /\ d.sub = s /\ (~native \/ s \in unnamed)
NativeIsKept ==
  [][\A s \in Subs : sub[s].mode \in Native /\ sub[s].live /\ ~Leftover(s) =>
        /\ sub'[s].gen = sub[s].gen /\ pc' # pc => sub'[s].cursor >= sub[s].cursor
        /\ ~sub'[s].live => archived \/ pc' = pc]_vars

\* While nothing crashes, an event a legacy subscription claimed was shown or
\* put in once its tick is over: no failure or disconnection swallows it, and
\* neither does the last advance of a delivery of the row itself.
ClaimedIsServed ==
  pc = "idle" /\ faults = 0 =>
     \A s \in Subs : sub[s].live /\ sub[s].own /\ sub[s].mode \notin Native =>
        \A i \in (sub[s].start + 1)..sub[s].cursor : <<s, i>> \in shown \cup marked

\* A native subscription (of a platform that has a name) gets every event on
\* the board in the end, behind destinations that keep failing as well.
EventsArrive ==
  <>[]connected =>
     \A s \in Subs, i \in Ids :
        s \notin unnamed /\ sub[s].live /\ sub[s].mode \in Native
           /\ i <= log /\ sub[s].cursor < i
        ~> sub[s].cursor >= i \/ ~sub[s].live
=============================================================================
