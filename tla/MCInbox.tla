------------------------------ MODULE MCInbox -------------------------------
(* Small instances of Inbox for TLC. *)
EXTENDS Inbox, TLC

CONSTANTS k1

\* Both requests target one conversation.
OneKey == [e \in Events |-> k1]

\* Wake calls and routes are interchangeable in the safety runs.
Interchangeable == Permutations(Attempts) \cup Permutations(Routes)
=============================================================================
