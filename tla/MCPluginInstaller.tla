------------------------- MODULE MCPluginInstaller --------------------------
(* Small instance of PluginInstaller for TLC: three runs in a row, so that *)
(* a run meets what a failed, a dead and a successful one have left.       *)
EXTENDS PluginInstaller
=============================================================================
