---------------------------- MODULE MCLegacyWake ----------------------------
(* Small instances of LegacyWake for TLC. *)
EXTENDS LegacyWake, TLC

\* Wake calls are interchangeable.
Interchangeable == Permutations(Attempts)
=============================================================================
