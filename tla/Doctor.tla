------------------------------- MODULE Doctor -------------------------------
(***************************************************************************)
(* doctor.run_diagnostics over the states of ShimInstall: the verdict an   *)
(* operator is told to require before relying on wakes.  It is assembled   *)
(* from probes that look at attributes, sources and marks, through the     *)
(* layers of other packages, and from what the operator has enabled.       *)
(***************************************************************************)
EXTENDS ShimInstall

\* Everything the verdict depends on besides what is installed: whether the
\* cron policy reads on, off or not at all, whether this process has a live
\* gateway runner and its inbox task runs, whether the host serves several
\* profiles, whether its cron hands over through the inbox, what session messages
\* are set to, whether the board database opens, and whether the last
\* installation was refused for drift.
Circumstances == [policy : {"on", "off", "unknown"}, live : BOOLEAN, inbox : BOOLEAN,
                  multiplex : BOOLEAN, durable : BOOLEAN, messages : BOOLEAN,
                  board : BOOLEAN, refused : BOOLEAN]

\* Mutant: the delivery wrapper alone is looked at, as the first version did.
OuterMarked == Seen("_deliver_result", "ours")
\* The marks of both wrappers are in sight.
BothMarked == \A s \in CronSlots : Seen(s, "ours")

\* outbox.diagnostics: the task that watch runs in belongs to the live runner.
InboxRuns(c) == c.live /\ c.inbox /\ ~c.multiplex

\* cron_adapter.probe: adopted, with the live runner it needs, or native.
CronAvailable(c) ==
  \/ BothMarked /\ c.live /\ Callable("wake_session") /\ (c.durable => InboxRuns(c))
  \/ /\ \A s \in CronSlots : ~Seen(s, "ours")
     /\ Seen("_deliver_result", "host") /\ host.cron = "native"

\* The checks that can fail, besides the Kanban capability itself (Full): cron
\* routing that is or may be wanted, a shim refused for drift, and the inbox.
CronFails(c)     == c.policy # "off" /\ ~CronAvailable(c)
ShimFails(c)     == ~installed /\ c.refused
MessagesFail(c)  == c.messages /\ ~InboxRuns(c)

\* The overall verdict, and the mode the report names.
Ok(c)   == Full /\ c.board /\ ~CronFails(c) /\ ~ShimFails(c) /\ ~MessagesFail(c)
Mode(c) == IF ~Full THEN "less"
           ELSE IF CronFails(c) \/ MessagesFail(c) THEN "degraded" ELSE "full"

-----------------------------------------------------------------------------
\* Kanban events reach wake_session through the notifier in force.
KanbanWired == \/ Has("_kanban_notifier_watcher", "ours")
               \/ host.watcher = "routes"
\* Both ends of a cron delivery are observed, and there is somebody to wake.
CronWired(c) == \/ /\ \A s \in CronSlots : Has(s, "ours")
                   /\ c.live /\ (c.durable => InboxRuns(c))
                \/ host.cron = "native"

\* A clean bill means that what the operator has enabled does wake, after any
\* history of failed, undone and repeated installations and whatever other
\* packages have put over the plugin: no half of a capability passes for the
\* whole (doctor.py:183, "True only in full mode with no failures"), and what an
\* undone installation left does not pass for one in force.
OkIsDeserved ==
  \A c \in Circumstances : Ok(c) =>
     /\ Mode(c) = "full"
     /\ KanbanWired /\ Callable("wake_session")
     /\ c.policy # "off" => CronWired(c)
     /\ c.messages => c.live /\ c.inbox
     /\ stuck = {} /\ ~lost => /\ installed \/ host.watcher = "routes"
                               /\ c.policy # "off" => own \/ host.cron = "native"
=============================================================================
