--------------------------- MODULE MCSubscription ---------------------------
(* A small instance of Subscription for TLC. *)
EXTENDS Subscription
CONSTANTS k1, k2, s1, s2, c1

Ask(key, sid, chat, mode) == [key |-> key, sid |-> sid, chat |-> chat, mode |-> mode]

\* By key, by id, by destination, by nothing; with the destination or without.
MCAsks == {Ask(k1, None, None, "wake"), Ask(k1, None, c1, "wake"),
           Ask(None, s1, None, "wake"), Ask(None, s1, c1, "wake"),
           Ask(None, None, c1, "wake"), Ask(None, None, None, "wake"),
           Ask(None, None, c1, "visible"), Ask(None, None, c1, "dry")}
=============================================================================
