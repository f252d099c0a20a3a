---------------------------- MODULE ShimInstall ----------------------------
(***************************************************************************)
(* Putting the plugin into a running host and taking it out again:         *)
(* compat_shim.install_shim, run when the plugin is registered,            *)
(* uninstall_shim, and within them cron_adapter.install and uninstall.     *)
(* An attribute of a host class or module is the chain of the functions    *)
(* layered on it, the one in force first.  Other packages wrap the same    *)
(* attributes, clearly (functools.wraps, so that the source and the marks  *)
(* of what they wrap are still found) or opaquely, and remove their layer  *)
(* while it is the outermost.  Plugin discovery is one thread: no other    *)
(* package acts in the middle of an installation.  A refused installation  *)
(* changes nothing but its report, and is no step here.                    *)
(***************************************************************************)
EXTENDS Naturals, SequencesExt

CONSTANTS Hosts,     \* the shapes of host the plugin may find
          Wrapped,   \* the attributes other packages wrap
          MaxOthers, \* bound: layers of other packages at a time
          MaxFaults  \* bound: assignments to an attribute that raise

\* The order install_shim assigns in; the notifier pair is always replaced.
Order == <<"lookup_by_session_key", "create_session_wake_receipt",
           "update_session_wake_receipt", "wake_session",
           "_lookup_session_entry_for_wake", "_wake_message_ids_after",
           "_kanban_internal_wake_target", "_kanban_notifier_watcher">>
ShimSlots == ToSet(Order)
Always    == {"_kanban_internal_wake_target", "_kanban_notifier_watcher"}
CronSlots == {"_deliver_result", "_maybe_mirror_cron_delivery"}
Slots     == ShimSlots \cup CronSlots

\* has: the attributes of the shim the host has itself; watcher: what the
\* source of its notifier looks like; anchors: whether everything else the
\* shim calls is where it was; cron: whether its cron seam is in the manifest,
\* routes to the wake itself, or neither.
HostShapes == [has : SUBSET ShimSlots, watcher : {"sends", "routes", "drifted"},
               anchors : BOOLEAN, cron : {"known", "native", "other"}]
ASSUME InstallAssumption ==
  /\ Hosts \subseteq HostShapes /\ Wrapped \subseteq Slots
  /\ \A h \in Hosts : "_kanban_notifier_watcher" \in h.has
  /\ MaxOthers \in Nat /\ MaxFaults \in Nat

VARIABLES host, db,   \* the host's shape; state.db: none, bare or with the table
          chain,      \* attribute -> its layers
          installed, originals,  \* compat_shim's globals
          own,        \* cron_adapter._installed_module is set
          lost,       \* a removal found a cron wrapper that was not its own
          stuck,      \* attributes that could not be put back
          faults

plugin == <<installed, originals, own, lost, stuck, faults>>
vars   == <<host, db, chain, plugin>>

Others  == {"clear", "opaque"}
Layers  == Others \cup {"host", "ours"}
Has(s, l) == l \in ToSet(chain[s])
\* The layers of other packages, each at its height over the host.
OtherLayers(c) == {<<Len(c) - i, c[i]>> : i \in {j \in DOMAIN c : c[j] \in Others}}
NoOriginals == [s \in {} |-> <<>>]

TypeOK == /\ host \in Hosts /\ db \in {"none", "bare", "table"}
          /\ DOMAIN chain = Slots
          /\ \A s \in Slots : ToSet(chain[s]) \subseteq Layers /\ Len(chain[s]) <= MaxOthers + 2
          /\ installed \in BOOLEAN /\ own \in BOOLEAN /\ lost \in BOOLEAN
          /\ own => installed
          /\ DOMAIN originals \subseteq ShimSlots /\ (originals # NoOriginals => installed)
          /\ stuck \subseteq Slots /\ faults \in 0..MaxFaults

Untouched(h) == [s \in Slots |-> IF s \in h.has \cup CronSlots THEN <<"host">> ELSE <<>>]

Init == /\ host \in Hosts /\ chain = Untouched(host)
        /\ installed = FALSE /\ originals = NoOriginals
        /\ own = FALSE /\ lost = FALSE /\ stuck = {}
        /\ db \in {"none", "bare"} /\ faults = 0

-----------------------------------------------------------------------------
(* What the probes see.  The source of a clear wrapper is the source of    *)
(* what it wraps.                                                          *)

Seen(s, l) == \E i \in DOMAIN chain[s] :
                /\ chain[s][i] = l /\ l # "clear"
                /\ \A j \in 1..(i - 1) : chain[s][j] = "clear"
Callable(s) == chain[s] # <<>>

WakeMethod == Seen("wake_session", "host") \/ Seen("wake_session", "ours")
Receipts   == Callable("create_session_wake_receipt") /\ Callable("update_session_wake_receipt")
\* Mutant: the notifier is not asked whether it routes.
RoutingByName == Callable("_kanban_internal_wake_target") /\ Callable("_kanban_notifier_watcher")
Routing == /\ Callable("_kanban_internal_wake_target")
           /\ \/ Seen("_kanban_notifier_watcher", "ours")
              \/ Seen("_kanban_notifier_watcher", "host") /\ host.watcher = "routes"
Full == WakeMethod /\ Receipts /\ Callable("lookup_by_session_key") /\ db = "table" /\ Routing

NativePresent == WakeMethod /\ Receipts
Drifted == \/ ~host.anchors
           \/ ~Seen("_kanban_notifier_watcher", "host")
           \/ host.watcher # "sends"
\* Mutant: only the first of the two attributes is looked at.
DeliveryAdoptable == host.cron = "known" /\ Seen("_deliver_result", "host")
\* probe finds no routing and both digests are in the manifest: neither holds
\* where a wrapper of ours, or an opaque one, is in sight.
CronAdoptable == host.cron = "known" /\ \A s \in CronSlots : Seen(s, "host")

-----------------------------------------------------------------------------
(* Installing and removing.                                                *)

\* Mutant: what the host has is overwritten.
AssignedBlindly(k) == {Order[i] : i \in 1..k}
\* Of the first k attributes, those install_shim replaces: no method of the
\* host is overwritten, but for the notifier pair.
Assigned(k) == {s \in {Order[i] : i \in 1..k} : chain[s] = <<>> \/ s \in Always}
Fails(n) == faults + n <= MaxFaults /\ faults' = faults + n

\* Mutant: nothing is put back.
InstallStops ==
  /\ \E k \in 0..(Len(Order) - 1) :
       /\ Order[k + 1] \in Assigned(k + 1)
       /\ Fails(1)
       /\ chain' = [s \in Slots |-> IF s \in Assigned(k) THEN <<"ours">> ELSE chain[s]]
  /\ UNCHANGED <<host, db, installed, originals, own, lost, stuck>>

\* An assignment raises; what was assigned is put back, as far as that works.
InstallFails ==
  /\ \E k \in 0..(Len(Order) - 1) :
       /\ Order[k + 1] \in Assigned(k + 1)
       /\ \E bad \in SUBSET Assigned(k) :
            /\ Fails(1 + Cardinality(bad))
            /\ chain' = [s \in Slots |-> IF s \in bad THEN <<"ours">> ELSE chain[s]]
            /\ stuck' = stuck \cup bad
  /\ UNCHANGED <<host, db, installed, originals, own, lost>>

\* cron_adapter.install leaves its wrappers on the attributes in got: on both,
\* on none when it is refused, on those it could not put back when it fails.
CronInstall(got) ==
  \/ ~CronAdoptable /\ got = {} /\ UNCHANGED <<own, stuck, faults>>
  \/ CronAdoptable /\ got = CronSlots /\ own' = TRUE /\ UNCHANGED <<stuck, faults>>
  \/ /\ CronAdoptable /\ Fails(1 + Cardinality(got))
     /\ stuck' = stuck \cup got
     /\ UNCHANGED own

\* The Kanban shim stands whatever becomes of the cron adapter.
InstallWhole ==
  /\ \E got \in SUBSET CronSlots :
       /\ CronInstall(got)
       /\ chain' = [s \in Slots |-> IF s \in Assigned(Len(Order)) THEN <<"ours">>
                                    ELSE IF s \in got THEN <<"ours">> \o chain[s]
                                    ELSE chain[s]]
  /\ originals' = [s \in Assigned(Len(Order)) |-> chain[s]]
  /\ installed' = TRUE
  /\ db' \in {db, IF db = "bare" THEN "table" ELSE db}
  /\ UNCHANGED <<host, lost>>

\* With the shim disabled in the configuration the call changes nothing.
InstallShim == /\ ~installed /\ ~NativePresent /\ ~Drifted
               /\ InstallFails \/ InstallWhole

\* Mutant: what is outermost now is not looked at.
WrappedByUs == {s \in CronSlots : own}
\* The cron wrappers still outermost, the only ones uninstall touches.
StillOurs == {s \in CronSlots : own /\ Head(chain[s]) = "ours"}

\* What the class attributes are now is not looked at; errors are swallowed.
UninstallShim ==
  /\ installed
  /\ \E bad \in SUBSET (DOMAIN originals \cup StillOurs) :
       /\ Fails(Cardinality(bad))
       /\ chain' = [s \in Slots |-> IF s \in bad THEN chain[s]
                                    ELSE IF s \in DOMAIN originals THEN originals[s]
                                    ELSE IF s \in StillOurs THEN Tail(chain[s])
                                    ELSE chain[s]]
       /\ stuck' = stuck \cup bad
  /\ lost' = (lost \/ (own /\ StillOurs # CronSlots))
  /\ installed' = FALSE /\ originals' = NoOriginals /\ own' = FALSE
  /\ UNCHANGED <<host, db>>

-----------------------------------------------------------------------------
(* The host and other packages.                                            *)

OthersNow == Cardinality(UNION {{s} \X {i \in DOMAIN chain[s] : chain[s][i] \in Others} :
                                  s \in Slots})

Wrap == /\ OthersNow < MaxOthers
        /\ \E s \in Wrapped, l \in Others :
             Callable(s) /\ chain' = [chain EXCEPT ![s] = <<l>> \o @]
        /\ UNCHANGED <<host, db, plugin>>

Unwrap == /\ \E s \in Wrapped : /\ Callable(s) /\ Head(chain[s]) \in Others
                                /\ chain' = [chain EXCEPT ![s] = Tail(@)]
          /\ UNCHANGED <<host, db, plugin>>

\* A new host makes its database with its first session.
HostMakesDb == db = "none" /\ db' = "bare" /\ UNCHANGED <<host, chain, plugin>>

\* The first receipt the shim's method writes makes the table.
FirstReceipt == /\ db = "bare" /\ Has("create_session_wake_receipt", "ours")
                /\ db' = "table"
                /\ UNCHANGED <<host, chain, plugin>>

\* The process starts again, perhaps as another version of the host.
Restart == /\ host' \in Hosts /\ chain' = Untouched(host')
           /\ installed' = FALSE /\ originals' = NoOriginals
           /\ own' = FALSE /\ lost' = FALSE /\ stuck' = {}
           /\ UNCHANGED <<db, faults>>

Next == InstallShim \/ UninstallShim \/ Wrap \/ Unwrap \/ HostMakesDb \/ FirstReceipt \/ Restart
Spec == Init /\ [][Next]_vars

-----------------------------------------------------------------------------
(* What is checked.                                                        *)

\* After any history of refused, failed and undone installations nothing of the
\* shim is left on a host class, and everything the host had is back, but for
\* the attributes whose restoration raised.
NothingLeft ==
  ~installed => \A s \in ShimSlots \ stuck :
                  ~Has(s, "ours") /\ (s \in host.has => Has(s, "host"))

\* An installed shim is whole, whatever happened to the cron adapter and
\* whatever earlier attempts left: it carries the notifier pair and all the host
\* lacks, and a method the host has is still the host's.
ShimIsWhole ==
  installed => \A s \in ShimSlots :
                 Has(s, IF s \in host.has \ Always THEN "host" ELSE "ours")

\* The mode that lets sessions subscribe says what is so: with the receipt
\* table made and nothing opaque in the way, it is full exactly if the shim is
\* installed or the host has the whole capability itself.
ModeIsHonest ==
  (stuck = {} /\ db = "table" /\ \A s \in ShimSlots : ~Has(s, "opaque"))
    => (Full <=> \/ installed
                 \/ /\ host.watcher = "routes"
                    /\ {Order[i] : i \in {1, 2, 3, 4, 7}} \subseteq host.has)

\* The cron wrappers come and go together: the adapter that holds them has both
\* in place, no attribute ever has two of them (a wake would be asked for
\* twice), and one that gave up without losing any has left none.
WrappedOnce ==
  /\ own => \A s \in CronSlots : Has(s, "ours")
  /\ \A s \in CronSlots : \A i, j \in DOMAIN chain[s] :
       chain[s][i] = "ours" /\ chain[s][j] = "ours" => i = j
  /\ ~own /\ ~lost => \A s \in CronSlots \ stuck : ~Has(s, "ours")

\* Neither installing nor removing takes another package's wrapper off the cron
\* scheduler (docs/architecture.md:89).
OthersStay ==
  [][InstallShim \/ UninstallShim =>
       \A s \in CronSlots : OtherLayers(chain'[s]) = OtherLayers(chain[s])]_vars
=============================================================================
