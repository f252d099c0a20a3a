# Self-wake plugin: models, checks and proofs

The plugin wakes a conversation that already exists in a Hermes gateway: a
Kanban task finishes, a cron job delivers its result, or somebody sends a
message to a session, and the agent of that conversation gets a turn about it.
The hard part is the promise: *the event gets into the conversation at most
once, is called delivered only when it is there, and is retried when it is not*,
while everything happens at once. Calls wait for the host at every step, the
target is reset or rerouted under them, processes die, writes fail, receivers
are busy, and a caller may leave at any moment.

This directory holds TLA+ modules of that program, TLC configurations that
check them on small instances, and TLAPS proofs about eight of them. Paths like
`native_wake.py` are below `self_wake/`.

## 1. Inventory

| Part | State it keeps | Operations | Talks to |
|---|---|---|---|
| native admission, `native_wake.py` | receipts (`session_wake_receipts`), claim tokens (`self_wake_claims`), retained settlement tasks | `wake`, `claim`, `transition`, `admit`, `settle`, `reconcile_injection`; `observe_response`, which wraps the adapter's message handler while turns run | host: session store, adapter (turns), transcript; every caller of `wake_session` |
| durable inbox, `outbox.py` | requests table, the watcher's tasks and rotation | `enqueue`, `watch`, `drain_request`, `request_allowed` | native admission; cron observation and the `send` command store requests |
| legacy wake, `_shim_wake_session` in `compat_shim.py` | the same receipts, without tokens | create or find the receipt, retry decision, hand over, bookkeeping | adapter (`handle_message`), transcript |
| Kanban notifier, `_shim_kanban_events_watcher` | cursor and row of each subscription (board database), failure counts (memory), the batch of a tick | collect, deliver, acknowledge, rewind, drop | board, adapters, native and legacy wakes |
| Kanban subscription tool, `kanban.py` | writes subscription rows | subscribe, put a marker on a visible row, reset a cursor, verify | session resolution, board |
| session resolution, `sessions.py` | none of its own; reads the gateway's routing table and its mirror | index, filters, `resolve_target_session` | files that the gateway writes meanwhile |
| cron observation, `cron_adapter.py` | context of a delivery call (fire identity, target) | outer and inner wrapper, target interpretation, resolution, scheduling | host scheduler threads, gateway loop, inbox, `wake_session` |
| installation, `install_shim`, `uninstall_shim`, `cron_adapter.install`, `uninstall` | attributes of host classes and modules, saved originals | install, roll back, remove | host modules, other packages that patch them |
| capability probes, doctor | none | probe, `run_diagnostics` | what is installed, the live runner, configuration |
| receipt queries | none | read-only SQL | the receipts table |
| tools, command line, configuration | none | parse, format | all of the above |
| plugin installer, `scripts/install_plugin.py` | the plugin directory on disk | stage, swap, verify, roll back | file system |

What is hard, and what makes each part correct:

* **Native admission.** Attempts interleave at every `await`; a stalled owner is
  fenced by the token; the process may die between "dispatching" and the answer;
  refusal, doubt and success look alike to a failing host call. Correct means:
  an event starts at most one turn (`AtMostOnce`); turns of a conversation do not
  overlap (`OneTurnPerSession`) and run where and with what the receipt says
  (`TurnMatchesReceipt`); a receipt that says delivered is
  backed by the transcript (`ConfirmedIsPersisted`) and stays so (`NoDowngrade`,
  `AcceptedIsRecorded`); nothing stays in between for ever (`InjectionIsRecorded`,
  `DispatchingResolves`). To link a reply a wake watches the adapter's handler,
  which belongs to the host and to other packages: `HandlerIsTheirs`,
  `RegistrationHolds`, `WrappersAreTakenOff`.
* **Inbox.** A request is retried for as long as it takes, while its target moves
  and permission comes and goes: `NeverRedirected`, `SettledIsDelivered`,
  `GivenUpStaysUndelivered`, `NobodyStarves`, `QueuedIsResolved`.
* **Legacy wake.** No token; the host may take an event and raise all the same:
  `DispatchedOnce`, `InjectedIsNotRetried`.
* **Kanban notifier.** Acknowledge after, not before; an event refused at the head
  of the line must hold back the next ones, but not other destinations; a
  subscription may be removed and made again while its events are in hand, and
  the host's own calls go by its destination:
  `AcknowledgedIsDelivered`, `OneAtATime`, `NativeIsKept`, `ClaimedIsServed`,
  `EventsArrive`.
* **Cron observation.** The host calls its mirror helper for deliveries that do
  not prove where the text is; scheduler threads and the gateway's loop run at the
  same time: `WakesWhereShown`, `OncePerExecution`, `DeliveryEnds`,
  `HandedOverIsKept`.
* **Subscribing.** The gateway changes its sessions while the tool looks one up in
  two files, one of them late, and others write the same row:
  `WakesTheOneMeant`, `ReportMatchesRow`.
* **Installation.** Partial failure, partly native hosts, other packages' layers,
  repeated installation, and a doctor that must not take a half for the whole:
  `NothingLeft`, `ShimIsWhole`, `ModeIsHonest`, `WrappedOnce`, `OthersStay`,
  `OkIsDeserved`.
* **Plugin installer.** An exception or the death of the process between two
  renames: `PredecessorSurvives`, `FailureRestores`, `ReportIsTrue`.

## 2. Modules

    WakeOnce  <--implements--  NativeWake  <--EXTENDS, implements--  Inbox
        ^                          ^
        | INSTANCE                 +-------EXTENDS, implements------  ResponseObserver
    KanbanNotifier

    ShimInstall  <--EXTENDS--  Doctor

    LegacyWake    CronDelivery    Subscription    PluginInstaller

The proofs about a module `M` are in `MProofs`, which extends it, with two
exceptions: those about Inbox and ResponseObserver are both in `WakeClientsProofs`,
which also extends `NativeWakeProofs`, since their wakes are those of NativeWake, and
those about Doctor are in `ShimInstallProofs`, since its states are ShimInstall's.
Each `MC...` module gives the constants of its module small values.

**WakeOnce** is what a native wake promises, with no receipts, tokens or host: an
event is open, in doubt, or delivered; only in doubt is it told, once; doubt ends
by being confirmed, or abandoned when nothing was told.

**NativeWake** has one action per stretch of `native_wake.py` between two awaits.
An attempt's label `pc` is where its coroutine waits:

| label | the code waits at | action that leaves it |
|---|---|---|
| `new` | not called | `Pin` (`_wake_owned` up to `claim`) |
| `pinned` | the claim transaction | `ClaimConflicts`, `ClaimOwns`, `ClaimObserves` |
| `owner` | `transition(... "dispatching")` | `MarkDispatching` |
| `dispatching` | nothing: `admit` runs without yielding | `AdmitStarts`, `AdmitUnclear`, `AdmitRefused` |
| `refused`, `doubtful` | the transition that records it | `RecordRefusal`, `RecordDoubt` |
| `admitted` | the host's turn task, then the transcript | `SettleRead` |
| `found`, `unsure` | the last transition | `SettleFound`, `SettleUnsure` |
| `reading`, `reconciling` | an observer's read and write | `ReadTranscript`, `Reconcile` |

The attempt is its own token (tokens are fresh UUIDs). `receipt` is the table row,
`claim` the token table, `turn` and `wrote` the host's turn and the transcript
rows that carry the receipt's marker. `ForeignTurn`, `Reset`, `Reroute`,
`SwapAdapter`, `OpenOrClose` and `Age` are the world changing under an attempt.
`CallerCancelled`, `SettleInterrupted`, `DatabaseFails` and `Crash` are what goes
wrong.

**Inbox** extends NativeWake: the request is the event, and the drain task's wake
is one of the attempts. `Scan` is a whole round of `watch` (finished tasks are
reaped, open rows are taken in rotation, least recently attempted first, up to
`Slots`), so the order of service is the code's, not a choice.

**ResponseObserver** puts the adapter's `_message_handler` under NativeWake: a
chain of layers down to the host's handler. A wake registers in the step that
admits its turn and releases in the step that ends its settlement, which is what
the synchronous code around `admit` and the `finally` of `settle` do. A turn's
call of the handler (`TurnRuns`) records the layers it went through; only a reply
that the wake's own wrapper has seen can be linked (`TurnReplies`). The host sets
handlers, another package wraps and unwraps.

**LegacyWake** has the same grain for `_shim_wake_session`. `Serial` says whether
callers wake one event one call at a time, as the notifier loop does.

**KanbanNotifier** runs one tick as the sequence of its awaits: list the rows,
collect one listed row after the other, then deliver event by event. `todo` is the
snapshot of the list: `Collect` reads, claims or removes what is at the destination
by then, in the way the listed mode asks for. The host's calls (claim, advance,
rewind, removal) find a row by destination; only `_advance_native` compares the
generation (`created_at`). So a delivery remembers the generation of the listed row
(`gen`, what `_advance_native` compares) and, for the properties, that of the row its
events were read from (`row`). A row has two fields for the properties: `start`,
where its cursor began or was set back to, and `own`, that no call made for another
row moved its cursor. `unnamed` destinations have a platform the host's enum does not
know; the loop advances their cursor and delivers nothing. `TickFails` is a database
call outside the events' own handler that raises. A native wake is used
by its contract: the actions of WakeOnce move by themselves once a wake was
called, and the answer the loop gets is "accepted" only if the phase is
delivered, since this is what NativeWake implements. Any other answer may come in any phase.
Subscribing, unsubscribing, markers, cursor resets, archiving, disconnection and
crashes happen between any two steps.

**CronDelivery** follows a `_deliver_result` call in its own thread through its
targets, on hosts of both shapes. On the current one (`durable`) a proven delivery
is stored in the inbox; on the older one a coroutine is scheduled on the
gateway's loop and waited for. A session id is a pair: the entry of its key, counted,
and the reset in place, counted, that made it (`native_wake.py:231`: entries are
mutated in place). `Resolve` copies the id, `Check` looks the entry up again,
compares, and holds the entry; until `Store` inserts the row a reset in place changes
what is held (`held`, and `late` for the property). `exec` is the execution a call
delivers, `fire` the identity the code makes of it.

**ShimInstall** keeps the chain of layers on every attribute the plugin touches.
Installing and removing are each one action, because plugin discovery is one
thread. All that may fail in them is a choice within the action.

**Doctor** is a set of operators over the states of ShimInstall: what
`run_diagnostics` computes from the marks it can see through other layers, the
capability, and the circumstances (policy, live runner, inbox task, profiles,
board). `OkIsDeserved` compares its verdict with what is wired, and with
whether it is the host or an installation in force that wired it.

**Subscription** is `create_wake_subscription`, step by step: probe, read the
mirror, read the table and resolve, write, verify. `store` is what the gateway
holds, `table` and `mirror` the two files, `early` what a call has read of the
mirror. `Resolve` is one step, since nothing after the read of the table looks at
shared state before the write. `fitting` and `closed` remember, for the property,
whom a call could have meant. A table that cannot be read at all leaves the tool
with the mirror; those calls are in `unsure`.

**PluginInstaller** is `apply` in `scripts/install_plugin.py`: a directory is whose
copy it is and whether it is whole. Each file operation is an action that may
raise; a KeyboardInterrupt may fall between a rename and the note of it; the
process may die anywhere and the script be run again.

## 3. Runs

| run | what it shows | instance |
|---|---|---|
| `response_observer` | turns start only where they may and are recorded; the wrapper takes and leaves nothing | 2 events of 1 conversation, 2 texts, 2 wake calls, 1 reset, 1 fault, 1 foreign package, 1 change of the handler |
| `inbox_safety` | delivered once and where addressed, or not at all; receipts implement WakeOnce | 1 request, 3 wake calls, 2 routes, 1 reset, 2 faults |
| `inbox_live` | rotation serves all, queued requests are resolved, receipts are settled | 2 requests, 1 slot, 2 wake calls, no faults |
| `inbox_uncertain` | *violated*: a request in doubt reads as queued | 1 request, 2 wake calls |
| `legacy_serial` | an event the host took is not handed over again | 3 calls one at a time, 4 faults |
| `legacy_race` | *violated*: two concurrent retries both dispatch | 3 calls, no fault |
| `kanban_safety` | cursors cover only what was delivered | 1 destination in each of 4 modes, subscribed twice, platform known or not, 2 events, 1 cursor reset, 1 fault |
| `kanban_live` | events arrive behind destinations that fail | 2 destinations |
| `cron` | requests are for the session found where the text was shown, once per execution; deliveries end | 2 calls, 1 execution, 3 routes, 1 key with 2 entries of 2 sessions, both host shapes |
| `shim_install` | in whole or not at all, and honest about it; the doctor's verdict is deserved | 8 hosts, 2 foreign layers, 2 failing assignments, 384 circumstances |
| `plugin_installer` | no copy of the plugin is lost, failure restores, success is real | 3 runs, each failing or dying anywhere |
| `subscription` | filters wake the one session meant; the report is the row's | 2 sessions, 2 ids, 1 destination, 2 changes, 8 forms of request, both host shapes |

**Why the bounds are enough.** Interference in native admission is pairwise: an
attempt, and one that reclaims or observes. The third call of `inbox_safety` is
there to retry after both. Two faults let a fault hit the handling of another.
One reset tells the old session from the new. `MaxResets` bounds resets,
`MaxFaults` faults, the set of attempts the calls; the host's turns, aging,
reroutes, drains and adapter changes are unbounded. In `response_observer` one
change is a handler set by the host or a layer put on by a package, while two
turns share a wrapper or follow one another; taking layers off is unbounded. What
the bounds leave out is covered by the proofs, which hold for all sets. In
`kanban_safety` two events are what order needs, two generations what a stale
list, a stale acknowledgement and a legacy delivery left over need. In `cron` two
entries of two sessions are a replacement and a reset in place, in either order, and
two calls an execution that is delivered again. `inbox_live` uses one slot in place of sixteen, so that
two requests already compete. The four modes of a subscription start in every
combination with the rest. In `shim_install` the hosts are those that
`docs/compatibility.md` tells apart: vanilla, partly native in three ways,
drifted in three, native. Three runs of the installer are one that leaves
something, one that meets it and one after that. `subscription` has one call of
the tool among other writers of its row, which do what a second call would; two
sessions are what ambiguity needs, and two changes put one before and one after a
read. The proofs cover any number of calls.

**Symmetry** is used for attempts, events, payloads, adapters and routes, in safety
runs only. `plugin_installer` alone turns deadlock checking off: the script stops,
and its runs are bounded.

**Fairness.** NativeWake (checked within `inbox_live`): weak fairness of each attempt's own steps (an event loop
runs a task that is ready) and of `TurnEnds` (a host turn ends); none of faults,
calls, or the world. Inbox: that, and weak fairness of `Scan` (`watch` loops
with a sleep) and of drain tasks. KanbanNotifier: the loop ticks (weak); in
addition, **as an assumption about the receiver and not about the code**, a wake
that can be accepted over and over is accepted (strong fairness of
`WakeAccepted` and of the wake's `Tell`): no plugin can promise delivery to a
receiver that refuses for ever. `QueuedIsResolved` makes the same assumption in
its premise (`Receptive`). CronDelivery assumes only that scheduler threads run;
of the gateway nothing, since the point is that a hung gateway does not hold a
delivery up.

Every property has been seen to fail under a plausible bug in the definitions it
is about. The mutated forms stand next to the originals, marked as mutants, and
no specification uses them.

## 4. Proofs

The proofs hold for arbitrary sets of everything and arbitrary bounds, from the
assumptions the modules name (bounds are naturals, None is none of the rest, and
the like).

| module | proved | in addition to types |
|---|---|---|
| `NativeWakeProofs` | `NeverTwice`, `DeliveredIsPersisted`, `AnswersAreTrue`, `TurnsMatch`, `ConversationIsExclusive`, `EvidenceStays`, `AdmissionNotStale`, `ImplementsPromise` | five state invariants, two action properties, the refinement of WakeOnce |
| `WakeClientsProofs` | `InboxUsesWake`, `InboxDeliversOnce`, `RequestsStayAddressed`, `RequestsReadTrue`, `GivenUpForGood` | the inbox implements NativeWake, and its own four promises |
| | `ObservationRefines`, `ObservedWakesKeep`, `ObservationLasts`, `WrapperDiscipline`, `HandlerStaysTheirs`, `WrappersDoNotPile` | observed wakes are wakes, none loses its wrapper to another, and the adapter's handler is left as others made it |
| `KanbanNotifierProofs` | `AlwaysAcknowledgedDelivered`, `AlwaysOneAtATime`, `NativeAlwaysKept`, `ClaimsAreServed` | what a cursor covers, native or claimed, and the order of events |
| `CronDeliveryProofs` | `AlwaysWhereShown`, `AlwaysOncePerExecution`, `HandedOverStays` | where and how often a cron result wakes, and that a wake handed over is left alone |
| `ShimInstallProofs` | `AttributesAccounted`, `NothingIsLeft`, `ShimAlwaysWhole`, `CronAlwaysOnce`, `ModeAlwaysHonest`, `OkAlwaysDeserved`, `OthersAlwaysStay` | all that is claimed of installing, of the mode and of the doctor's verdict |
| `LegacyWakeProofs` | `SerialDispatchedOnce`, `SerialNotRetried` | under `Serial`; without it `legacy_race` is the counterexample |
| `SubscriptionProofs` | `SubscriptionWakesTheOneMeant`, `SubscriptionReportsTrue` | for any number of concurrent callers |
| `PluginInstallerProofs` | `PredecessorAlwaysSurvives`, `FailureAlwaysRestores`, `ReportAlwaysTrue` | for any number of runs |

**Native admission.** None of the five is inductive. `AtMostOnce` could break in the next step in a
state in which a fenced attempt is still labelled as dispatching, so one has to
say who may write a receipt at which point. `IInv` says it: a token names an
attempt at its own event past the claim (`ClaimInv`); an attempt whose turn exists
holds the token for ever, with the receipt in doubt or confirmed, which is never
retried (`AdmittedInv`); before "dispatching" an owner may be fenced, after it
not (`OwnerInv`); a receipt is confirmed only on evidence (`EvidenceInv`), and
what an observer or settlement has read is still so when it writes
(`ReaderInv`); answers follow receipts (`AnswerInv`). Then `NeverTwice` is
immediate: two admitted attempts of an event would both hold its token.
`ConversationIsExclusive` needs its own induction over `IInv`, because exclusivity
comes from the busy check in `admit`. The refinement maps a receipt in doubt to
"doubt", a confirmed one to "delivered", the rest to "open", and `told` to the
attempts with a turn. `Stutters`, `PhaseMoves` and `TurnStarts` say which kinds of
change are steps of WakeOnce, and each action is shown to be one of them.

`AdmissionNotStale` says that a turn starts only in the conversation and on the
adapter that are current at that step, whatever changed during the awaits before.

**Inbox and observer.** Every step of either is a step of NativeWake or leaves its
variables alone (`CallsAreWakes`, `ObservedIsWake`), so `InboxSpec => Spec` and
`ObsSpec => Spec`, and all that is proved of NativeWake holds of them. For the
first one needs the inbox's own invariant `QInv`: a wake call was made for a stored
request and its one task waits for it (`TaskInv`, `CallInv`); what a call pinned is
what the request says (`TargetInv`), because the wake is told the session and
origin to expect; nothing works on a request that was given up (`GivenUpInv`). The
observer's invariant `OInv` says that the wrapper in force was put on for a wake on
that adapter and is in its chain unless the host set another handler since
(`ForceInv`), and that exactly the wakes that settle are registered, with the
wrapper in force (`RegInv`): it is taken off only by the last.

What the observer does to an adapter needs another invariant, `PileInv`. A wrapper
calls exactly what stood behind it when it was put on, and that is still behind it
(`NestedIn`), so a wake has one wrapper at most and taking the front one off gives
back what it replaced. Layers that others put on account for the wrappers left in a
chain (`Covers`): one more may be there than such layers only while it is attached,
and then the layers in front of it are counted too, because its own release will
not find it in front. `HandlerIsTheirs` says that the chain without the wrappers
is the host's and others' layers in their order; it does so by a one-to-one map
between positions (`StripsTo`) instead of a filter, which the provers could only
unfold by induction. `StripPutOn` and `StripTakeOff` say what putting a
layer on and taking it off do to such a map.

**Kanban notifier.** `BatchInv` says of every delivery in the batch whose native
subscription still stands, in the same generation, with a cursor that only its own
deliveries moved, that the events before its next one are delivered, and shown where
the mode asks for it; `HeadInv` what the loop knows of the event in hand at each
label; `ListInv` that a row listed as native which still stands has the listed
mode. An acknowledgement compares the generation, so the cursor
never passes what was served. What a step may do to a row is one lemma for all of
them (`RowsKept`: it keeps its generation and its kind, is not revived, and its start
stays while a delivery of it is under way, or the destination was subscribed anew). For the legacy claims, which are made before
anything is sent, `OnceInv` says that a tick has one delivery at most for a
destination and that it still has an event to serve after where its claim began.
`ClaimInv` is then the promise in every state of a tick: what a destination claimed
was shown or put in, or the delivery that claimed it has it in hand, and the cursor
still stands where that delivery put it, so that a failure can put it back
(`_kanban_rewind`). The last advance (`compat_shim.py:942`) does not look at the
cursor it moves, so it needs `PassedInv`: everything before a legacy delivery's next
event, from the start of the row it was read from, was shown or put in. Upgrades, new
subscriptions and cursors set back in the middle of a tick keep both because they
drop the claim or the subscription, or leave `start` where the delivery under way
will move the cursor past it again.

**Cron.** `CallInv` says what a call knows at each label: who it is from its start
on, and on a host with the inbox, from the observation on, that its target is of
the job's origin and was shown; that what it holds when it stores is the session it
resolved, or that entry's after a reset in place. For `OncePerExecution` the table's
key is not enough: it compares identities and routes, the property executions and
entries. `RowInv` ties the identity in a row to the execution of its call, and
`ClaimInv` says that no entry of a key is claimed, by a row or by a call about to
store one, for two routes: a call claims an entry for its route when it looks it up
again, and an entry never gets another route, only a successor with the next number
(`ClaimsKept`). `AskInv` says that a target a call has not come to has no wake, so a
call hands over at most one for each and never writes over one that is under way.

**Installing, and the doctor.** A chain of layers has a base, what is left under
those of other packages. `SlotInv` says that the base of an attribute is the
plugin's while the shim is installed and takes it, and what it is without the plugin
otherwise, unless putting it back raised; and that what the plugin remembers as the
original has the base it must restore. There is one lemma for each way an
installation or removal can go (`FailsKeeps`, `WholeKeeps`, `UninstallKeeps`), with
any choice of assignments that raise. `CronInv` says that a cron attribute is the host's function
under layers of others and at most one of the plugin's, which is there as long as
the adapter holds it. Through clear layers a probe sees exactly the base (`SeesBase`), and what
it sees through others is there (`SightIsClean` for the cron attributes), so
`ModeIsHonest` and `OkIsDeserved` follow without a further induction. `OthersStay` compares the layers of others with their
heights over the host's function, so it also says that none changes its place.

**Legacy wake.** `AloneInv`: while one call is at an event every other is over and
left nothing with the host, except what a hand-over that raised may have left.

**Subscription.** The table is never behind the gateway except where a session was
never in it, and there the mirror has it (`HostInv`); what a call has read of the
mirror is still good for those gaps when it reads the table, because a gap that is
filled meanwhile shows in the table (`ReadInv`). So the index is the gateway's
sessions plus closed ones of the mirror, wherever rows can be read. `RowInv` says
that a row is as the call left it until another touches it.

**Installer.** `SwapInv` tells by the place of the run where the old copy is,
`UndoInv` that an uninterrupted run knows what it has to undo, `HistoryInv` what
earlier runs left.

Every safety invariant and action property of the runs that are expected to pass is
a theorem. Only model-checked is what depends on fairness, which TLAPS
cannot reason about: `NobodyStarves`, `QueuedIsResolved`, `InjectionIsRecorded`,
`DispatchingResolves`, `EventsArrive` and `DeliveryEnds`. `DispatchedOnce` and
`InjectedIsNotRetried` are proved for serial callers, which is what the notifier is.
The two properties of the findings below are refuted, so there is nothing to prove.

## 5. Findings

* **A request in doubt is called queued** (`inbox_uncertain`; `outbox.py:148`).
  `docs/current-paths.md:94` says that uncertain outcomes remain pending.
  `drain_request` writes *queued* for every failed try and takes the receipt id of
  the failed result. A request recorded as pending whose retry is refused for a
  reason of its own reads as never delivered, with no receipt, while its first
  turn may well be in the conversation. It is not delivered twice
  (`AtMostOnce`), and it is retried until its receipt is settled.
* **Two legacy retries both dispatch** (`legacy_race`; `compat_shim.py:454`). The
  comment at `compat_shim.py:103` says that two concurrent wakes with one dedupe
  key must not both dispatch. The retry decision reads a copy, and the update that
  takes the receipt has no condition; two calls that find a *failure* both go on.
  The notifier wakes serially, so the legacy path does not meet this by itself.

Stated as an exception of the properties, since the runs show it by dropping the
exception:

* **A legacy delivery moves the cursor of a row that is not its own.** A tick lists a
  visible or marked row; while it collects or delivers, the destination is
  unsubscribed and subscribed anew as a native row. The claim made from the stale
  list (`compat_shim.py:785`) or the last advance (`compat_shim.py:942`) goes by the
  destination and moves the new row's cursor over events no wake was made for; they
  are never delivered. `docs/native-kanban-return.md:71` says that native events are
  acknowledged "only for the same subscription creation timestamp", which holds for
  `_advance_native` only. Without `own` in `AcknowledgedIsDelivered` the run
  `kanban_safety` finds the loss in 13 steps.
* **A delivery under way undoes a cursor reset.** `schemas.py:50` says that
  `reset_cursor` replays the terminal events already claimed. If a tick holds a
  delivery of the row, its acknowledgement or last advance moves the cursor on from
  zero, and the events before are not collected again. The properties ask for the
  events from `start`, which such a reset leaves where it was.
* **A reset in place after the second look** of a cron call is not seen: the row is
  stored for the session the entry has at the insert. `WakesWhereShown` excepts it
  (`late`); what `NeverRedirected` says of the row holds for that session.

Observed on the way, with no claim in the repository to set against it:

* After `cron_adapter.uninstall` reported lost ownership, a successor that removes
  its layer brings the plugin's wrapper back in force, and nothing remembers it:
  a later `uninstall` says "not installed". `WrappedOnce` therefore excepts
  adapters that lost a wrapper. It is never doubled: the digests of
  both attributes must be the host's.
* `uninstall_shim` restores class attributes without looking and drops a layer
  another package put on a class. The documentation promises ownership only for
  the cron scheduler, where `OthersStay` holds.
* On a host whose `state.db` does not exist when the plugin is registered the
  receipt table is made by the first receipt only; until then the mode is
  inspect-only. `ModeIsHonest` has the table as a premise.
* A key that the index has, with filters its entry does not fit, is subscribed as
  given, with the note that it was not found in the cache. `WakesTheOneMeant` is
  about requests without a key.
* The verification of a subscription says that some marker is in the row. If two
  callers subscribe one destination for different sessions, both are told
  "enabled", and the later one's session wakes. `ReportMatchesRow` excepts rows
  that somebody else wrote.
* Another package that wraps the handler on top of the observer's wrapper and stays
  leaves that wrapper in the chain, inert. Each such layer keeps one at most
  (`WrappersAreTakenOff`).
* The installer takes no lock, and an exception before its `try` leaves the staging
  directory behind. A process that dies between the two renames leaves no plugin
  directory; the old copy is whole in the backups (`PredecessorSurvives`).
* On Python 3.10 `concurrent.futures.TimeoutError` is not the built-in
  `TimeoutError`: `cron_adapter.py:523` does not catch the time limit there, and
  the observer reports "failure" where "in flight" is meant. The call goes on in
  either case, and the wake is not cancelled.

## 6. Abstractions and assumptions

* Payloads, hashes, origins and snapshots are model values; a hash stands for its
  text. Message wording, artifacts, several boards and formatting are left out.
* A write transaction is one atomic step and may fail. In WAL mode with
  `BEGIN IMMEDIATE` this is what the code relies on.
* The host, from how the plugin uses it: `_start_session_processing` starts a turn
  or raises, and may do both; a turn persists the user row, then the reply, or
  ends before either; claiming, advancing, rewinding and removing a subscription go
  by its destination, whichever row that has by then; rewinding compares with the
  claimed cursor, advancing compares nothing and sets it to the end of the delivery.
* The list of subscriptions is read in one step, each listed row collected in one.
* Age is a flag that may rise whenever a receipt is *requested*: it covers every
  length of a stall around the 120 seconds.
* `sub_fail_counts` stops at the limit for native subscriptions, since nothing
  reads it beyond.
* CronDelivery: a reset may change the session id of an entry in place, while an
  entry's origin is not mutated: a key moves to another route with a new entry. How the text of a target was
  delivered is the choice between shown, unproven and failed.
* ShimInstall: other packages add a layer, and remove it only while it is
  outermost; a clear layer (`functools.wraps`) shows source and marks of what it
  wraps. `force` and `force_targets`, passed only by tests, are left out.
  Refused installations change only their report.
* ResponseObserver: `_message_handler` is read when a turn's task calls it; packages
  take a layer off only while it is outermost, as the plugin does.
* Subscription: the gateway writes the table before the mirror and keeps the mirror
  of a host without a table current; `add_notify_sub` inserts a row or keeps it and
  sets the marker if one is given, in one transaction. Platform and thread are part
  of the destination, titles, substring queries and limits are left out.
* Doctor: configuration and the live process are given; each check is its outcome.
* PluginInstaller: a rename within the home directory is atomic and a rename onto a
  directory that exists fails; the bytes written may differ from those read back.
  Runs follow one another.

Not modelled: receipt queries (SQL and formatting, no state), tools, schemas,
command line and configuration (parsing and formatting around the operations
above), the smoke scripts (drivers against a checked-out host), reading the commit
archive in the installer (before any change), and the reports of the capability
probes, `list_wake_subscriptions` and `migrate_visible_rows` (they change nothing).

## 7. Plan

Done, in this order: WakeOnce and NativeWake with its proofs, Inbox, LegacyWake,
KanbanNotifier, CronDelivery, ShimInstall; then the proofs about Inbox, LegacyWake,
KanbanNotifier and CronDelivery, ResponseObserver, PluginInstaller, Doctor and
Subscription, each with its proofs. What would add most next:

1. an abstract inbox (a request is open, delivered or given up) implemented by
   Inbox, and a cursor that covers only delivered events, implemented by the native
   part of KanbanNotifier;
2. two processes that subscribe and unsubscribe while the notifier's tick runs: the
   composition of Subscription with KanbanNotifier.
