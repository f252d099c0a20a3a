--------------------------- MODULE MCShimInstall ---------------------------
(* Instances of ShimInstall and Doctor: the hosts the documentation tells  *)
(* apart.                                                                  *)
EXTENDS Doctor

Notifier == {"_kanban_notifier_watcher"}
Vanilla  == [has |-> Notifier, watcher |-> "sends", anchors |-> TRUE, cron |-> "known"]
Partial  == [Vanilla EXCEPT !.has = Notifier \cup {"wake_session", "lookup_by_session_key"}]
Moved    == [Vanilla EXCEPT !.watcher = "drifted"]
Renamed  == [Vanilla EXCEPT !.anchors = FALSE]
OtherCron == [Vanilla EXCEPT !.cron = "other"]
Native   == [has |-> ShimSlots, watcher |-> "routes", anchors |-> TRUE, cron |-> "native"]
Half     == [Native EXCEPT !.has = @ \ {"lookup_by_session_key", "update_session_wake_receipt"}]
Unwired  == [Native EXCEPT !.watcher = "sends"]

KnownHosts == {Vanilla, Partial, Moved, Renamed, OtherCron, Native, Half, Unwired}
Contested  == {"wake_session", "_kanban_notifier_watcher"} \cup CronSlots
=============================================================================
