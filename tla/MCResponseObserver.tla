------------------------ MODULE MCResponseObserver -------------------------
(* A small instance of ResponseObserver: two events for one conversation.  *)
(* Their wakes settle in any order while the other's turn runs.            *)
EXTENDS ResponseObserver, TLC

CONSTANTS k1

\* Both events target one conversation.
OneKey == [e \in Events |-> k1]

\* Attempts, texts and events are interchangeable.
Interchangeable == Permutations(Attempts) \cup Permutations(Payloads)
                   \cup Permutations(Events)
=============================================================================
