-------------------------- MODULE MCKanbanNotifier --------------------------
(* Small instances of KanbanNotifier for TLC. *)
EXTENDS KanbanNotifier
=============================================================================
