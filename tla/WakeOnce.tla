------------------------------ MODULE WakeOnce ------------------------------
(***************************************************************************)
(* What a native wake promises its callers, with no receipts, tokens, host *)
(* or database: an event is put into a conversation at most once, it is    *)
(* called delivered only after that, and once delivered it stays so.       *)
(* Between the moment somebody starts trying and the moment the outcome is *)
(* known the event is in doubt; in doubt it is never put in again.         *)
(***************************************************************************)
CONSTANTS Events,   \* the things to be told to a conversation, by dedupe key
          Wakers    \* the calls that may do the telling

VARIABLES phase,    \* phase[e]: "open", "doubt" or "delivered"
          told      \* told[e]: the wakers that put e into the conversation

vars == <<phase, told>>

TypeOK == /\ phase \in [Events -> {"open", "doubt", "delivered"}]
          /\ told \in [Events -> SUBSET Wakers]

Init == /\ phase = [e \in Events |-> "open"]
        /\ told = [e \in Events |-> {}]

\* Somebody takes the event on; until the outcome is known it is in doubt.
Undertake(e) == /\ phase[e] = "open"
                /\ told[e] = {}
                /\ phase' = [phase EXCEPT ![e] = "doubt"]
                /\ UNCHANGED told

\* The event is put into the conversation, once.
Tell(e, w) == /\ phase[e] = "doubt"
              /\ told[e] = {}
              /\ told' = [told EXCEPT ![e] = {w}]
              /\ UNCHANGED phase

\* The attempt is known to have put nothing in: the event may be retried.
Abandon(e) == /\ phase[e] = "doubt"
              /\ told[e] = {}
              /\ phase' = [phase EXCEPT ![e] = "open"]
              /\ UNCHANGED told

\* The event is known to be in the conversation.
Confirm(e) == /\ phase[e] = "doubt"
              /\ told[e] # {}
              /\ phase' = [phase EXCEPT ![e] = "delivered"]
              /\ UNCHANGED told

Next == \E e \in Events : \/ Undertake(e) \/ Abandon(e) \/ Confirm(e)
                          \/ \E w \in Wakers : Tell(e, w)

Spec == Init /\ [][Next]_vars
=============================================================================
