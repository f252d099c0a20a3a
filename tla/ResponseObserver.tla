-------------------------- MODULE ResponseObserver --------------------------
(***************************************************************************)
(* native_wake.py, observe_response, on top of NativeWake.  To link a      *)
(* reply, a wake has to see the text its own turn returned.  The first     *)
(* admitted wake on an adapter puts a wrapper in front of the adapter's    *)
(* message handler; later ones register with the same wrapper; the last    *)
(* one to settle takes it off.  The handler belongs to the host, which may *)
(* set a new one, and to other packages, which put layers of their own in  *)
(* front of it and take them off while turns run.                          *)
(***************************************************************************)
EXTENDS NativeWake, Sequences, FiniteSets

CONSTANTS Packages,   \* other packages that wrap the handler
          MaxChanges  \* bound: handlers set by the host and layers put on

ASSUME ObserverAssumption ==
  /\ MaxChanges \in Nat
  /\ Packages \cap (Attempts \cup Nat \cup {None}) = {}
  /\ Attempts \cap Nat = {}

VARIABLES chain,      \* _message_handler of an adapter: its layers, outermost
                      \* first, down to the host's handler (a number)
          state,      \* _self_wake_response_observer: the wake whose wrapper
                      \* is attached, or None
          original,   \* what a wrapper calls: the chain it was put in front of
          reg,        \* the wrapper an admitted wake is registered with
          ran,        \* the layers a turn's call of the handler went through
          theirs,     \* history: the chain without the plugin's layers
          layered,    \* history: layers other packages put on an adapter
          changes     \* changes so far

observer == <<chain, state, original, reg, ran, theirs, layered, changes>>
obsVars  == <<vars, observer>>

ObsInit == /\ Init
           /\ chain = [d \in Adapters |-> <<0>>]
           /\ state = [d \in Adapters |-> None]
           /\ original = [a \in Attempts |-> <<>>]
           /\ reg = [a \in Attempts |-> None]
           /\ ran = [a \in Attempts |-> {}]
           /\ theirs = [d \in Adapters |-> <<0>>]
           /\ layered = [d \in Adapters |-> 0]
           /\ changes = 0

-----------------------------------------------------------------------------
Layers(c)   == {c[i] : i \in DOMAIN c}
Via(a)      == job[a].adapter
Settling(l) == l \in {"admitted", "found"}

\* observe_response: attach a wrapper, or register with the attached one.
Register(a) ==
  LET d == Via(a) IN
  /\ IF state[d] = None
     THEN /\ state' = [state EXCEPT ![d] = a]
          /\ original' = [original EXCEPT ![a] = chain[d]]
          /\ chain' = [chain EXCEPT ![d] = <<a>> \o @]
          /\ reg' = [reg EXCEPT ![a] = a]
     ELSE /\ reg' = [reg EXCEPT ![a] = state[d]]
          /\ UNCHANGED <<chain, state, original>>
  /\ UNCHANGED <<ran, theirs, layered, changes>>

\* Mutants: the first wake to settle takes the wrapper off; the saved handler
\* is put back whatever is in force; the wrapper is never taken off.
ReleaseFirst(a) ==
  LET d == Via(a) s == reg[a] IN
  /\ reg' = [reg EXCEPT ![a] = None]
  /\ chain' = [chain EXCEPT ![d] = IF Head(@) = s THEN original[s] ELSE @]
  /\ state' = [state EXCEPT ![d] = IF @ = s THEN None ELSE @]
  /\ UNCHANGED <<original, ran, theirs, layered, changes>>
ReleaseBlindly(a) ==
  LET d == Via(a) s == reg[a]
      last == \A b \in Attempts \ {a} : reg[b] # s IN
  /\ reg' = [reg EXCEPT ![a] = None]
  /\ chain' = [chain EXCEPT ![d] = IF last THEN original[s] ELSE @]
  /\ state' = [state EXCEPT ![d] = IF last /\ @ = s THEN None ELSE @]
  /\ UNCHANGED <<original, ran, theirs, layered, changes>>
ReleaseForgets(a) ==
  LET d == Via(a) s == reg[a]
      last == \A b \in Attempts \ {a} : reg[b] # s IN
  /\ reg' = [reg EXCEPT ![a] = None]
  /\ state' = [state EXCEPT ![d] = IF last /\ @ = s THEN None ELSE @]
  /\ UNCHANGED <<chain, original, ran, theirs, layered, changes>>

\* release: the last wake registered with a wrapper takes it off, unless
\* something else is in front of it or has replaced it.
Release(a) ==
  LET d == Via(a) s == reg[a]
      last == \A b \in Attempts \ {a} : reg[b] # s IN
  /\ reg' = [reg EXCEPT ![a] = None]
  /\ chain' = [chain EXCEPT ![d] = IF last /\ Head(@) = s THEN original[s] ELSE @]
  /\ state' = [state EXCEPT ![d] = IF last /\ @ = s THEN None ELSE @]
  /\ UNCHANGED <<original, ran, theirs, layered, changes>>

\* A wake registers in the step that admits its turn (a refused or unclear
\* admission releases again in that step) and releases when its settlement ends.
Observes(a) == IF ~Settling(pc[a]) /\ Settling(pc'[a]) THEN Register(a)
               ELSE IF Settling(pc[a]) /\ ~Settling(pc'[a]) THEN Release(a)
               ELSE UNCHANGED observer

\* The turn's task calls the handler in force, and gets to the transcript.
TurnRuns(a) == /\ PersistWake(a)
               /\ ran' = [ran EXCEPT ![a] = Layers(chain[Via(a)])]
               /\ UNCHANGED <<chain, state, original, reg, theirs, layered, changes>>

\* The handler's result was seen by the wrapper the wake is registered with,
\* so that the persisted reply can be linked.
Seen(a) == reg[a] # None /\ reg[a] \in ran[a]
TurnReplies(a) == PersistReply(a) /\ Seen(a) /\ UNCHANGED observer

-----------------------------------------------------------------------------
\* The host sets a handler of its own, for instance when it reconnects.
HostSets(d) == /\ changes < MaxChanges
               /\ changes' = changes + 1
               /\ chain' = [chain EXCEPT ![d] = <<changes'>>]
               /\ theirs' = [theirs EXCEPT ![d] = <<changes'>>]
               /\ UNCHANGED <<vars, state, original, reg, ran, layered>>

PackageWraps(d, p) == /\ changes < MaxChanges
                      /\ p \notin Layers(chain[d])
                      /\ changes' = changes + 1
                      /\ chain' = [chain EXCEPT ![d] = <<p>> \o @]
                      /\ theirs' = [theirs EXCEPT ![d] = <<p>> \o @]
                      /\ layered' = [layered EXCEPT ![d] = @ + 1]
                      /\ UNCHANGED <<vars, state, original, reg, ran>>

\* Like the plugin, a package only takes its layer off the front.
PackageUnwraps(d, p) == /\ Head(chain[d]) = p
                        /\ chain' = [chain EXCEPT ![d] = Tail(@)]
                        /\ theirs' = [theirs EXCEPT ![d] = Tail(@)]
                        /\ UNCHANGED <<vars, state, original, reg, ran, layered, changes>>

\* Adapters are made anew after a crash.
Dies == /\ Crash
        /\ chain' = [d \in Adapters |-> <<0>>]
        /\ state' = [d \in Adapters |-> None]
        /\ reg' = [a \in Attempts |-> None]
        /\ theirs' = [d \in Adapters |-> <<0>>]
        /\ layered' = [d \in Adapters |-> 0]
        /\ UNCHANGED <<original, ran, changes>>

ObsNext == \/ \E a \in Attempts : \/ Call(a) /\ UNCHANGED observer
                                  \/ (Step(a) \/ Fault(a)) /\ Observes(a)
                                  \/ TurnRuns(a) \/ TurnReplies(a)
                                  \/ TurnEnds(a) /\ UNCHANGED observer
           \/ World /\ UNCHANGED observer
           \/ \E d \in Adapters : HostSets(d)
           \/ \E d \in Adapters, p \in Packages : PackageWraps(d, p) \/ PackageUnwraps(d, p)
           \/ Dies

ObsSpec == ObsInit /\ [][ObsNext]_obsVars

-----------------------------------------------------------------------------
ObsTypeOK == /\ TypeOK
             /\ chain \in [Adapters -> Seq(Attempts \cup Packages \cup 0..MaxChanges)]
             /\ state \in [Adapters -> Attempts \cup {None}]
             /\ reg \in [Attempts -> Attempts \cup {None}]
             /\ \A a \in Attempts : ran[a] \subseteq Attempts \cup Packages \cup 0..MaxChanges

\* t is what is left of c without the plugin's wrappers: at says where in c each
\* of its layers is.
StripsTo(c, t) ==
  \E at \in [1..Len(t) -> 1..Len(c)] :
     /\ \A i, j \in 1..Len(t) : i < j => at[i] < at[j]
     /\ \A i \in 1..Len(t) : t[i] = c[at[i]]
     /\ \A k \in 1..Len(c) : c[k] \notin Attempts <=> \E i \in 1..Len(t) : at[i] = k

\* The plugin's wrapper comes and goes without taking a layer of another
\* package off or bringing a handler back that the host has replaced, in
\* whatever order wakes settle and others change the handler.
HandlerIsTheirs == \A d \in Adapters : StripsTo(chain[d], theirs[d])

\* A running turn can be observed whatever other wakes settle meanwhile and
\* whoever wraps the handler: the wrapper it is registered with stays in force
\* until its own release, unless the host set another handler.
HostOf(c) == c[Len(c)]
RegistrationHolds ==
  \A a \in Attempts : LET s == reg[a] d == Via(a) IN
     s # None /\ HostOf(original[s]) = HostOf(chain[d])
     => state[d] = s /\ s \in Layers(chain[d])

\* Wrappers do not pile up: without a wake in hand one remains at most for
\* every layer that another package put in front of it.
WrappersAreTakenOff ==
  \A d \in Adapters :
     Cardinality(Layers(chain[d]) \cap Attempts)
     <= layered[d] + IF state[d] = None THEN 0 ELSE 1
=============================================================================
