---------------------------- MODULE CronDelivery ----------------------------
(***************************************************************************)
(* self_wake/cron_adapter.py: waking a conversation after a cron result    *)
(* was shown in it.  Two wrappers observe the host's delivery call: the    *)
(* outer one remembers the job and whether wakes are enabled, the inner    *)
(* one runs after each target the host calls a success.  On the current    *)
(* host (durable) only a proven live text delivery to the job's own chat   *)
(* counts, and it is stored in the durable inbox; on the older host        *)
(* wake_session is scheduled on the gateway's loop and waited for, for     *)
(* sixty seconds at most.  Delivery calls run in threads of their own,     *)
(* sessions and gateway change under them.                                 *)
(***************************************************************************)
EXTENDS Naturals, FiniteSets

CONSTANTS Calls,      \* _deliver_result calls
          Execs,      \* execution ids of jobs
          Keys,       \* session keys
          Routes,     \* platform, chat, thread and user of a conversation
          Origin,     \* the routes in the chat the jobs come from
          Flat,       \* the unthreaded route of the same chat
          Fanouts,    \* the sets of targets jobs deliver to
          None,
          OldCalls,   \* bound: the calls made on an older host
          MaxEntries, \* bound: entries a key has after its first
          MaxResets   \* bound: sessions an entry gets in place after its first

ASSUME CronAssumption == /\ Origin \subseteq Routes /\ Fanouts \subseteq SUBSET Routes
                         /\ Flat \in [Routes -> Routes]
                         /\ \A r \in Routes : Flat[r] \in Origin <=> r \in Origin
                         /\ None \notin Calls \cup Execs \cup Keys \cup Routes
                         /\ OldCalls \subseteq Calls
                         /\ MaxEntries \in Nat /\ MaxResets \in Nat

VARIABLES durable,    \* the host's _deliver_result has the current shape
          up,         \* the gateway runner lives and its loop runs
          entry,      \* session store: the session and route of a key's entry,
                      \* no route if the key has none
          pc,         \* where a call is
          exec,       \* the execution a call delivers, where its job has one
          fire,       \* its fire identity: the execution, or the call itself
          onLoop,     \* the calls on the gateway's own loop (of an older host)
          left,       \* targets it has still to deliver to
          at,         \* the target at hand, and what was found for it
          shown,      \* routes where a call's text was shown for certain
          requests,   \* the inbox rows the calls created
          wake        \* wake_session coroutines, by call and target

store == <<up, entry>>
vars  == <<durable, store, pc, exec, fire, onLoop, left, at, shown, requests, wake>>

\* A session id: the entry of its key it belongs to, and its number there.  A call
\* holds the session it resolved and the entry it looked up, by the session that
\* one has.  Kept for the properties: exec, whether the entry held was reset in
\* place (late), and in a row its call and the session that call had resolved.
Sessions == (0..MaxEntries) \X (0..MaxResets)
Entries  == [sid : Sessions, route : Routes \cup {None}]
Target   == [asked : Routes \cup {None}, route : Routes \cup {None},
             key : Keys \cup {None}, sid : Sessions, held : Sessions, late : BOOLEAN]
Observed(t, r) == [asked |-> t, route |-> r, key |-> None, sid |-> <<0, 0>>,
                   held |-> <<0, 0>>, late |-> FALSE]
NoTarget == Observed(None, None)

Rows == [call : Calls, fire : Execs \cup Calls, key : Keys, route : Routes,
         sid : Sessions, found : Sessions, late : BOOLEAN]

TypeOK == /\ durable \in BOOLEAN /\ up \in BOOLEAN
          /\ entry \in [Keys -> Entries]
          /\ pc \in [Calls -> {"new", "sending", "observing", "checking", "storing",
                               "scheduling", "waiting", "done"}]
          /\ exec \in [Calls -> Execs \cup {None}]
          /\ fire \in [Calls -> Execs \cup Calls \cup {None}]
          /\ onLoop \subseteq Calls
          /\ left \in [Calls -> SUBSET Routes]
          /\ at \in [Calls -> Target]
          /\ shown \subseteq Calls \X Routes
          /\ requests \subseteq Rows
          /\ wake \in [Calls \X Routes -> {"none", "scheduled", "running", "over", "lost"}]

Init == /\ durable \in BOOLEAN /\ up = TRUE
        /\ entry \in [Keys -> [sid : {<<0, 0>>}, route : Routes \cup {None}]]
        /\ pc = [c \in Calls |-> "new"]
        /\ exec = [c \in Calls |-> None] /\ fire = [c \in Calls |-> None]
        /\ onLoop = {}
        /\ left = [c \in Calls |-> {}]
        /\ at = [c \in Calls |-> NoTarget]
        /\ shown = {} /\ requests = {}
        /\ wake = [w \in Calls \X Routes |-> "none"]

Goto(c, l) == pc' = [pc EXCEPT ![c] = l]
NextTarget(c) == Goto(c, "sending") /\ at' = [at EXCEPT ![c] = NoTarget]
here(c) == <<c, at[c].asked>>

-----------------------------------------------------------------------------
\* The outer wrapper.  cron.wake_agent_on_delivery is read once; with wakes off
\* no target is observed.
Enter(c, x, identity, targets, enabled) ==
  /\ pc[c] = "new"
  /\ durable \/ c \in OldCalls
  /\ exec' = [exec EXCEPT ![c] = x] /\ fire' = [fire EXCEPT ![c] = identity]
  /\ left' = [left EXCEPT ![c] = IF enabled THEN targets ELSE {}]
  /\ onLoop' \in {onLoop, IF durable THEN onLoop ELSE onLoop \cup {c}}
  /\ Goto(c, "sending")
  /\ UNCHANGED <<durable, store, at, shown, requests, wake>>

\* Mutant: every delivery call has an identity of its own.
StartAnew(c, x, targets, enabled) == Enter(c, x, c, targets, enabled)

\* A job without execution id gets an identity of its own for this call.
Start(c, x, targets, enabled) ==
  Enter(c, x, IF x = None THEN c ELSE x, targets, enabled)

\* The host fails at a target (its helper is not called), or succeeds: live
\* and confirmed at the route or flattened to the channel, or in a way that
\* does not prove where the text is (timed out, standalone, media only, ...).
TargetFails(c, t) ==
  /\ pc[c] = "sending" /\ t \in left[c]
  /\ left' = [left EXCEPT ![c] = @ \ {t}]
  /\ UNCHANGED <<durable, store, pc, exec, fire, onLoop, at, shown, requests, wake>>

TargetShown(c, t, r) ==
  /\ pc[c] = "sending" /\ t \in left[c]
  /\ r \in {t, Flat[t]}
  /\ left' = [left EXCEPT ![c] = @ \ {t}]
  /\ shown' = shown \cup {<<c, r>>}
  /\ IF durable /\ r \notin Origin
     THEN UNCHANGED <<pc, at>>
     ELSE /\ at' = [at EXCEPT ![c] = Observed(t, r)]
          /\ Goto(c, "observing")
  /\ UNCHANGED <<durable, store, exec, fire, onLoop, requests, wake>>

TargetUnproven(c, t) ==
  /\ pc[c] = "sending" /\ t \in left[c]
  /\ left' = [left EXCEPT ![c] = @ \ {t}]
  /\ IF durable
     THEN UNCHANGED <<pc, at>>
     ELSE /\ at' = [at EXCEPT ![c] = Observed(t, t)]
          /\ Goto(c, "observing")
  /\ UNCHANGED <<durable, store, exec, fire, onLoop, shown, requests, wake>>

\* The call returns, or raises what the host raised, after its last target.
Return(c) == /\ pc[c] = "sending" /\ left[c] = {}
             /\ Goto(c, "done")
             /\ UNCHANGED <<durable, store, exec, fire, onLoop, left, at, shown, requests, wake>>

-----------------------------------------------------------------------------
\* _resolve_wake_target: exactly one existing session has the actual route.
Matches(r) == {k \in Keys : entry[k].route = r}

Resolve(c) ==
  /\ pc[c] = "observing"
  /\ IF up /\ Cardinality(Matches(at[c].route)) = 1
     THEN LET k == CHOOSE k \in Matches(at[c].route) : TRUE IN
          /\ at' = [at EXCEPT ![c].key = k, ![c].sid = entry[k].sid]
          /\ Goto(c, IF durable THEN "checking" ELSE "scheduling")
     ELSE NextTarget(c)
  /\ UNCHANGED <<durable, store, exec, fire, onLoop, left, shown, requests, wake>>

\* Mutant: the entry looked up is taken whatever its session is.
CheckNothing(c) ==
  /\ pc[c] = "checking"
  /\ IF entry[at[c].key].route # None
     THEN Goto(c, "storing") /\ at' = [at EXCEPT ![c].held = entry[at[c].key].sid]
     ELSE NextTarget(c)
  /\ UNCHANGED <<durable, store, exec, fire, onLoop, left, shown, requests, wake>>

\* The key is looked up again: its entry must still have the resolved session.
Check(c) ==
  /\ pc[c] = "checking"
  /\ IF entry[at[c].key] = [sid |-> at[c].sid, route |-> at[c].route]
     THEN Goto(c, "storing") /\ at' = [at EXCEPT ![c].held = at[c].sid]
     ELSE NextTarget(c)
  /\ UNCHANGED <<durable, store, exec, fire, onLoop, left, shown, requests, wake>>

Known(c) == {q \in requests : /\ q.fire = fire[c]
                              /\ q.key = at[c].key /\ q.route = at[c].route}

\* enqueue is handed the entry and stores the session it has by then.  A known
\* key is returned, or a conflict with it raises; the call may also raise for
\* its own reasons.  The wrapper swallows all of it.
Store(c) ==
  /\ pc[c] = "storing"
  /\ \/ /\ Known(c) = {}
        /\ requests' = requests \cup
             {[call |-> c, fire |-> fire[c], key |-> at[c].key, route |-> at[c].route,
               sid |-> at[c].held, found |-> at[c].sid,
               late |-> at[c].late]}
     \/ UNCHANGED requests
  /\ NextTarget(c)
  /\ UNCHANGED <<durable, store, exec, fire, onLoop, left, shown, wake>>

\* The older host.  On the gateway's loop nobody waits; from a thread the
\* coroutine is handed over, or closed where that fails.
Schedule(c) ==
  /\ pc[c] = "scheduling"
  /\ \/ /\ wake' = [wake EXCEPT ![here(c)] = "scheduled"]
        /\ IF c \in onLoop THEN NextTarget(c) ELSE Goto(c, "waiting") /\ UNCHANGED at
     \/ c \notin onLoop /\ NextTarget(c) /\ UNCHANGED wake
  /\ UNCHANGED <<durable, store, exec, fire, onLoop, left, shown, requests>>

WakeAnswers(c) == /\ pc[c] = "waiting" /\ wake[here(c)] = "over"
                  /\ NextTarget(c)
                  /\ UNCHANGED <<durable, store, exec, fire, onLoop, left, shown, requests, wake>>

\* Mutants: waiting without limit; cancelling what did not answer.
WaitForever(c) == pc[c] = "waiting" /\ UNCHANGED vars
TimeoutCancels(c) ==
  /\ pc[c] = "waiting"
  /\ NextTarget(c)
  /\ wake' = [wake EXCEPT ![here(c)] = IF @ = "running" THEN "over" ELSE "none"]
  /\ UNCHANGED <<durable, store, exec, fire, onLoop, left, shown, requests>>

\* Sixty seconds: the wake is in flight, and the loop's from now on.
Timeout(c) == /\ pc[c] = "waiting"
              /\ NextTarget(c)
              /\ UNCHANGED <<durable, store, exec, fire, onLoop, left, shown, requests, wake>>

-----------------------------------------------------------------------------
\* The gateway's loop runs no coroutine while a call occupies it.
LoopFree == \A c \in onLoop : pc[c] = "done"

WakeStarts(w) == /\ up /\ LoopFree /\ wake[w] = "scheduled"
                 /\ wake' = [wake EXCEPT ![w] = "running"]
                 /\ UNCHANGED <<durable, store, pc, exec, fire, onLoop, left, at, shown, requests>>
WakeEnds(w)   == /\ up /\ LoopFree /\ wake[w] = "running"
                 /\ wake' = [wake EXCEPT ![w] = "over"]
                 /\ UNCHANGED <<durable, store, pc, exec, fire, onLoop, left, at, shown, requests>>

\* The gateway stops and drops what it was running, or starts.
StopOrStart == /\ LoopFree
               /\ up' = ~up
               /\ wake' = [w \in Calls \X Routes |->
                             IF wake[w] \in {"scheduled", "running"} THEN "lost" ELSE wake[w]]
               /\ UNCHANGED <<durable, entry, pc, exec, fire, onLoop, left, at, shown, requests>>

\* A session is reset, moved to another route, opened or closed with a new
\* entry, or reset in place: then who holds the entry sees another session.
Holds(c, k) == pc[c] = "storing" /\ at[c].key = k /\ at[c].held = entry[k].sid

SessionChanges(k) ==
  LET n == entry[k].sid[1]
      i == entry[k].sid[2]
  IN
  /\ \/ /\ n < MaxEntries
        /\ \E r \in Routes \cup {None} :
             entry' = [entry EXCEPT ![k] = [sid |-> <<n + 1, 0>>, route |-> r]]
        /\ UNCHANGED at
     \/ /\ entry[k].route # None /\ i < MaxResets
        /\ entry' = [entry EXCEPT ![k].sid = <<n, i + 1>>]
        /\ at' = [c \in Calls |-> IF Holds(c, k)
                                  THEN [at[c] EXCEPT !.held = <<n, i + 1>>, !.late = TRUE]
                                  ELSE at[c]]
  /\ UNCHANGED <<durable, up, pc, exec, fire, onLoop, left, shown, requests, wake>>

Deliver(c) == \/ \E t \in Routes : TargetFails(c, t) \/ TargetUnproven(c, t)
                                   \/ \E r \in Routes : TargetShown(c, t, r)
              \/ Return(c) \/ Resolve(c) \/ Check(c) \/ Store(c)
              \/ Schedule(c) \/ WakeAnswers(c) \/ Timeout(c)

Next == \/ \E c \in Calls : \/ \E x \in Execs \cup {None}, targets \in Fanouts, enabled \in BOOLEAN :
                                  Start(c, x, targets, enabled)
                            \/ Deliver(c)
        \/ \E w \in Calls \X Routes : WakeStarts(w) \/ WakeEnds(w)
        \/ StopOrStart
        \/ \E k \in Keys : SessionChanges(k)

Spec == Init /\ [][Next]_vars

\* Scheduler threads run; nothing is assumed of the gateway and its wakes.
FairSpec == Spec /\ \A c \in Calls : WF_vars(Deliver(c))

-----------------------------------------------------------------------------
\* A row the current host's wrapper stores is for the session which the call that
\* created it found at the route where it had shown the text for certain, in the
\* job's own chat: never for the route that was asked for, nor for a session
\* that took the place of the one found.  Excepted is a reset in place between
\* the second lookup and the insert, whose session the row then names.  (The older
\* host's wakes are not rows.)
WakesWhereShown ==
  \A q \in requests :
     /\ q.route \in Origin /\ <<q.call, q.route>> \in shown
     /\ q.sid = q.found \/ (q.late /\ q.sid[1] = q.found[1])

\* docs/compatibility.md:103: one execution asks a conversation once, however
\* often its targets are observed (two that flatten to one channel), delivered
\* again by another call, or its session was reset or its entry replaced.
SameRun(b, c) == b = c \/ (exec[b] = exec[c] /\ exec[b] # None)
OncePerExecution ==
  \A q, p \in requests :
     /\ SameRun(q.call, p.call) /\ q.key = p.key
     /\ q.route = p.route \/ q.sid[1] = p.sid[1]
     => q = p

\* A delivery call ends although the gateway hangs in a wake, stops, or never
\* answers: an optional wake does not hold up visible delivery.
DeliveryEnds == \A c \in Calls : pc[c] # "new" ~> pc[c] = "done"

\* A wake that was handed over stays the loop's: no step of a delivery call
\* takes it back, the one that gives up waiting for it included.
HandedOverIsKept ==
  [][\A w \in Calls \X Routes :
        wake[w] \in {"scheduled", "running"} /\ pc' # pc => wake'[w] = wake[w]]_vars
=============================================================================
