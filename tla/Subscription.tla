---------------------------- MODULE Subscription ----------------------------
(***************************************************************************)
(* kanban.create_wake_subscription with sessions.resolve_target_session:   *)
(* an operator or an agent subscribes a destination of a Kanban task and   *)
(* says, by key, id or filters, whose session to wake.  The tool looks the *)
(* session up in files that the gateway writes meanwhile (the JSON mirror  *)
(* first, the routing table in state.db after it), writes the row through  *)
(* the host and reads it back, while others subscribe and unsubscribe.     *)
(***************************************************************************)
EXTENDS Naturals

CONSTANTS Keys, Sids, Chats,  \* session keys, session ids, destinations
          Calls,              \* calls of the tool
          Asks,               \* what a call may ask for
          MaxChanges,         \* bound: changes of the gateway's sessions
          None, Plain, Unreadable

ASSUME SubscriptionAssumption ==
  /\ MaxChanges \in Nat
  /\ {None, Plain, Unreadable} \cap (Keys \cup Sids \cup Chats) = {}
  /\ None # Plain /\ None # Unreadable /\ Keys \cap Sids = {}
  /\ Asks \subseteq [key : Keys \cup {None}, sid : Sids \cup {None},
                     chat : Chats \cup {None}, mode : {"wake", "visible", "dry"}]

VARIABLES store,      \* the gateway's sessions: what a wake of a key would reach
          table,      \* gateway_routing in state.db
          mirror,     \* sessions/sessions.json, rewritten later
          native,     \* the host has the routing table
          row,        \* kanban_notify_subs: None, Plain or the marker
          pc, ask, cap, early, goal, dest, outcome,
          fitting,    \* history: the sessions that fitted when a call read
                      \* them, as far as their rows could be read
          closed,     \* history: the keys that had no session then
          unsure,     \* history: calls that could not read the table at all
          touched,    \* history: calls whose row somebody else wrote or removed
          changes

host == <<store, table, mirror, native, changes>>
tool == <<pc, ask, cap, early, goal, dest, outcome, fitting, closed, unsure>>
vars == <<host, row, tool, touched>>

Entries == [sid : Sids, chat : Chats \cup {None}]
Markers == Keys \cup Sids
Labels  == {"new", "probed", "half", "resolved", "written", "done"}
Success == {"enabled", "not_enabled"}
Outcomes == {"none", "ambiguous_session", "chat_id_required", "unresolved_target",
             "capability_missing", "planned", "kanban_write_failed"} \cup Success
NoAsk   == [key |-> None, sid |-> None, chat |-> None, mode |-> "dry"]
Nobody  == [k \in Keys |-> None]

Init == /\ store \in [Keys -> Entries \cup {None}] /\ mirror = store
        /\ native \in BOOLEAN
        /\ \E moved \in SUBSET Keys :
             table = [k \in Keys |-> IF native /\ k \in moved THEN store[k] ELSE None]
        /\ row = [d \in Chats |-> None]
        /\ pc = [c \in Calls |-> "new"]
        /\ ask = [c \in Calls |-> NoAsk]
        /\ cap = [c \in Calls |-> FALSE]
        /\ early = [c \in Calls |-> Nobody]
        /\ goal = [c \in Calls |-> None] /\ dest = goal
        /\ outcome = [c \in Calls |-> "none"]
        /\ fitting = [c \in Calls |-> {}] /\ closed = fitting
        /\ unsure = {} /\ touched = {}
        /\ changes = 0

-----------------------------------------------------------------------------
(* sessions.py: the index and what fits the filters.                       *)

\* Mutant: a row that cannot be read leaves the mirror's entry in force.
IndexRevived(c, ok) == [k \in Keys |-> IF ~ok \/ table[k] \in {None, Unreadable}
                                       THEN early[c][k] ELSE table[k]]

\* Entries of the mirror fill gaps only: the table's row wins, and one that
\* cannot be read hides the mirror's.  If the table cannot be read the mirror
\* is all there is.
Index(c, ok) == [k \in Keys |-> IF ~ok \/ table[k] = None THEN early[c][k]
                                 ELSE IF table[k] = Unreadable THEN None
                                 ELSE table[k]]

Fits(q, k, e) == /\ e # None
                 /\ q.key \in {None, k}
                 /\ q.sid = None \/ q.sid = e.sid
                 /\ q.chat = None \/ q.chat = e.chat
Matches(q, index) == {k \in Keys : Fits(q, k, index[k])}
Ambiguous(found)  == \E j, k \in found : j # k

-----------------------------------------------------------------------------
Goto(c, l) == pc' = [pc EXCEPT ![c] = l]
Ends(c, word) == Goto(c, "done") /\ outcome' = [outcome EXCEPT ![c] = word]

\* History: whom the call could have meant at this moment.
Observe(c, keys) ==
  /\ fitting' = [fitting EXCEPT ![c] = Matches(ask[c], store) \cap keys]
  /\ closed' = [closed EXCEPT ![c] = {k \in keys : store[k] = None}]

\* The capability is probed before anything else, with either result.
Start(c, q) == /\ pc[c] = "new"
               /\ ask' = [ask EXCEPT ![c] = q]
               /\ \E found \in BOOLEAN : cap' = [cap EXCEPT ![c] = found]
               /\ Goto(c, "probed")
               /\ UNCHANGED <<host, row, early, goal, dest, outcome, fitting, closed, unsure, touched>>

ReadMirror(c) == /\ pc[c] = "probed"
                 /\ early' = [early EXCEPT ![c] = mirror]
                 /\ Observe(c, Keys)
                 /\ Goto(c, "half")
                 /\ UNCHANGED <<host, row, ask, cap, goal, dest, outcome, unsure, touched>>

\* Whom the call found, names and writes to.  A key or id that the index does
\* not know is taken as the caller gave it.
Found(c, ok) == Matches(ask[c], Index(c, ok))
Sole(c, ok)  == CHOOSE k \in Found(c, ok) : TRUE
Named(c, ok) == IF Found(c, ok) # {} THEN Sole(c, ok)
                ELSE IF ask[c].key # None THEN ask[c].key ELSE ask[c].sid
Place(c, ok) == IF ask[c].chat # None \/ Found(c, ok) = {} THEN ask[c].chat
                ELSE Index(c, ok)[Sole(c, ok)].chat

\* From the second read to the gate.
Resolve(c, ok) ==
  LET refused == IF Ambiguous(Found(c, ok)) THEN "ambiguous_session"
                 ELSE IF Place(c, ok) = None THEN "chat_id_required"
                 ELSE "unresolved_target"
      clear   == /\ ~Ambiguous(Found(c, ok)) /\ Place(c, ok) # None
                 /\ ask[c].mode = "visible" \/ Named(c, ok) # None
  IN /\ pc[c] = "half"
     /\ unsure' = IF native /\ ~ok THEN unsure \cup {c} ELSE unsure
     /\ early' = [early EXCEPT ![c] = Nobody]
     /\ IF native /\ ok THEN Observe(c, {k \in Keys : table[k] # Unreadable})
                  ELSE UNCHANGED <<fitting, closed>>
     /\ \/ ~clear /\ Ends(c, refused) /\ UNCHANGED <<goal, dest>>
        \/ /\ clear
           /\ goal' = [goal EXCEPT ![c] = IF ask[c].mode = "visible" THEN None
                                          ELSE Named(c, ok)]
           /\ dest' = [dest EXCEPT ![c] = Place(c, ok)]
           /\ \/ ask[c].mode = "dry" /\ Ends(c, "planned")
              \/ ask[c].mode = "wake" /\ ~cap[c] /\ Ends(c, "capability_missing")
              \/ /\ ask[c].mode = "visible" \/ (ask[c].mode = "wake" /\ cap[c])
                 /\ Goto(c, "resolved") /\ UNCHANGED outcome
     /\ UNCHANGED <<host, row, ask, cap, touched>>

\* add_notify_sub: inserts the row or keeps it; a marker replaces what the row
\* says, no marker leaves a marker in place.
Written(c) == [row EXCEPT ![dest[c]] = IF goal[c] # None THEN goal[c]
                                       ELSE IF @ = None THEN Plain ELSE @]
Others(c) == {b \in Calls \ {c} : dest[b] = dest[c]}

Write(c) == /\ pc[c] = "resolved"
            /\ row' = Written(c)
            /\ touched' = (touched \ {c}) \cup Others(c)
            /\ Goto(c, "written")
            /\ UNCHANGED <<host, ask, cap, early, goal, dest, outcome, fitting, closed, unsure>>

\* The database refuses, before or after the row was committed.
WriteFails(c) ==
  /\ pc[c] \in {"resolved", "written"}
  /\ \/ UNCHANGED <<row, touched>>
     \/ /\ pc[c] = "resolved"
        /\ row' = Written(c) /\ touched' = touched \cup Others(c)
  /\ Ends(c, "kanban_write_failed")
  /\ UNCHANGED <<host, ask, cap, early, goal, dest, fitting, closed, unsure>>

\* Mutant: the report tells what was planned.
VerifyPlanned(c) == /\ pc[c] = "written"
                    /\ Ends(c, IF goal[c] # None THEN "enabled" ELSE "not_enabled")
                    /\ UNCHANGED <<host, row, ask, cap, early, goal, dest, fitting, closed, unsure, touched>>

\* The row is read back on a new connection.
Verify(c) == /\ pc[c] = "written"
             /\ Ends(c, IF row[dest[c]] \in Markers THEN "enabled" ELSE "not_enabled")
             /\ UNCHANGED <<host, row, ask, cap, early, goal, dest, fitting, closed, unsure, touched>>

-----------------------------------------------------------------------------
\* The gateway opens, resets, moves or closes a session: with a routing table
\* the table first and the mirror some time later.
SessionChanges(k, e) ==
  /\ changes < MaxChanges /\ e # store[k]
  /\ changes' = changes + 1
  /\ store' = [store EXCEPT ![k] = e]
  /\ table' = IF native THEN [table EXCEPT ![k] = e] ELSE table
  /\ mirror' = IF native THEN mirror ELSE store'
  /\ UNCHANGED <<native, row, tool, touched>>
MirrorFollows == /\ mirror' = store
                 /\ UNCHANGED <<store, table, native, changes, row, tool, touched>>
RowSpoils(k)  == /\ changes < MaxChanges /\ table[k] # None
                 /\ changes' = changes + 1
                 /\ table' = [table EXCEPT ![k] = Unreadable]
                 /\ UNCHANGED <<store, mirror, native, row, tool, touched>>
\* Others write the row through the host, or remove it.
Subscribed(d, mark) == /\ row' = [row EXCEPT ![d] = mark]
                       /\ mark = Plain => row[d] = None
                       /\ touched' = touched \cup {c \in Calls : dest[c] = d}
                       /\ UNCHANGED <<host, tool>>
Unsubscribe(d) == /\ row[d] # None
                  /\ row' = [row EXCEPT ![d] = None]
                  /\ touched' = touched \cup {c \in Calls : dest[c] = d}
                  /\ UNCHANGED <<host, tool>>

Next == \/ \E c \in Calls, q \in Asks : Start(c, q)
        \/ \E c \in Calls : \/ ReadMirror(c) \/ Write(c)
                            \/ \E ok \in BOOLEAN : Resolve(c, ok)
                            \/ WriteFails(c) \/ Verify(c)
        \/ \E k \in Keys, e \in Entries \cup {None} : SessionChanges(k, e)
        \/ MirrorFollows \/ (\E k \in Keys : RowSpoils(k))
        \/ \E d \in Chats, mark \in Markers \cup {Plain} : Subscribed(d, mark)
        \/ \E d \in Chats : Unsubscribe(d)

Spec == Init /\ [][Next]_vars

-----------------------------------------------------------------------------
TypeOK == /\ store \in [Keys -> Entries \cup {None}]
          /\ mirror \in [Keys -> Entries \cup {None}]
          /\ table \in [Keys -> Entries \cup {None, Unreadable}]
          /\ row \in [Chats -> Markers \cup {None, Plain}]
          /\ native \in BOOLEAN /\ changes \in 0..MaxChanges
          /\ pc \in [Calls -> Labels]
          /\ ask \in [Calls -> Asks \cup {NoAsk}]
          /\ cap \in [Calls -> BOOLEAN]
          /\ early \in [Calls -> [Keys -> Entries \cup {None}]]
          /\ fitting \in [Calls -> SUBSET Keys] /\ closed \in [Calls -> SUBSET Keys]
          /\ outcome \in [Calls -> Outcomes]
          /\ unsure \subseteq Calls /\ touched \subseteq Calls
          /\ goal \in [Calls -> Markers \cup {None}]
          /\ dest \in [Calls -> Chats \cup {None}]

\* A subscription that was asked for by filters wakes the one session the
\* caller can have meant, although the mirror is behind, rows are unreadable
\* and sessions change between the two reads, unless the whole table cannot be
\* read: no other session that the
\* gateway had, in a row that could be read, fitted as well, and the one taken
\* is not remembered from an entry that had changed.
WakesTheOneMeant ==
  \A c \in Calls \ unsure : ask[c].key = None /\ goal[c] \in Keys =>
     /\ fitting[c] \subseteq {goal[c]}
     /\ goal[c] \in fitting[c] \cup closed[c]

\* Until somebody else writes or removes the row a report of success stays
\* true: wakes are reported exactly if the row wakes, a marker that a
\* visible-only call could not take away included, and it wakes the session
\* the call resolved.
ReportMatchesRow ==
  \A c \in Calls : outcome[c] \in Success /\ c \notin touched =>
     /\ outcome[c] = "enabled" <=> row[dest[c]] \in Markers
     /\ ask[c].mode = "wake" => row[dest[c]] = goal[c]
=============================================================================
