---------------------------- MODULE EdgeReconcile ----------------------------
(***************************************************************************)
(* The device edges of a mix: how the daemon makes the PipeWire graph hold *)
(* one loopback module per edge the layout asks for (src/src/mixer.cpp:    *)
(* ensureEdgeLoopbacks, requestNullNode, expectEdge, checkPendingEdges,    *)
(* onNode, onNodeRemoved; src/src/pipewire/graph.cpp: loadLoopback,        *)
(* unloadLoopback, destroyObject, publish, teardown).                      *)
(*                                                                         *)
(* The PipeWire loop thread keeps a snapshot of the graph that the Qt      *)
(* thread reads directly, and reports each change to the Qt thread through *)
(* its event queue: what a handler reads is newer than what it is told.    *)
(* Loading, unloading and destroying take effect later, and a module may   *)
(* fail to load, die, or need longer than the daemon's 3 s.                *)
(*                                                                         *)
(* A slot is one module with its node, from being loaded until its node    *)
(* has left the graph and every event about it was handled; it stands for  *)
(* the node's id.  Only the playback half of a loopback is followed, the   *)
(* capture half comes and goes with it.                                    *)
(***************************************************************************)
EXTENDS Naturals, Sequences, FiniteSets

CONSTANTS
  Edges,      \* the edges of one mix: its outputs and its virtual source
  Watched,    \* those whose removal makes the daemon look again: kmixdeck.out.*
  PerEdge,    \* bound: modules of one edge in the graph or on their way at a time
  MaxOps,     \* bound: commands of the user
  MaxFaults,  \* bound: modules that, while PipeWire runs, fail to load, die, or need longer
              \* than the grace period
  MaxDrops    \* bound: times PipeWire goes away

ASSUME EdgeReconcileAssumption ==
  /\ IsFiniteSet(Edges) /\ Watched \subseteq Edges
  /\ {PerEdge, MaxOps, MaxFaults, MaxDrops} \subseteq Nat

Slots == Edges \X (1..PerEdge)
EdgeOf(s) == s[1]

VARIABLES
  mix,        \* the layout has the mix
  at,         \* slot -> where its module stands, see Places
  ours,       \* Graph::Impl::modules: slots loaded by this daemon and not unloaded
  events,     \* queued for the Qt thread
  known,      \* m_idToName: slots whose arrival the Qt thread has handled
  requested,  \* m_nodeRequested
  pending,    \* m_edgePending
  overdue,    \* those of them that were expected more than 3 s ago
  failed,     \* m_edgeFailed
  reported, loadFailed, lastError,   \* m_edgeReported, m_moduleLoadFailed, m_lastError
  watching,   \* m_edgeWatch runs
  connected,  \* Mixer::m_connected
  settling,   \* the reconcile() 400 ms after Graph::connected is due
  server,     \* PipeWire runs and accepts clients
  ops, faults, drops   \* counters for the bounds

watch == <<pending, overdue, failed, reported, loadFailed, lastError, watching>>
link == <<connected, settling, server>>
counters == <<ops, faults, drops>>
vars == <<mix, at, ours, events, known, requested, watch, link, counters>>

\* "coming" loaded, "up" in the graph, "leaving" destroyed but still in the snapshot,
\* "unloaded" before it was announced, which the server may do all the same, "left" its
\* node is out of the snapshot.
Places == {"free", "coming", "up", "leaving", "unloaded", "left"}

Post(q, type, s) == Append(q, [type |-> type, slot |-> s])
NoSlot == <<>>

Snapshot == {s \in Slots : at[s] \in {"up", "leaving"}}
InGraph(e) == \E s \in Snapshot : EdgeOf(s) = e
Wanted == IF mix THEN Edges ELSE {}
Missing == {e \in Edges : ~InGraph(e)}
Move(from, to) == [s \in Slots |-> IF s \in from THEN to ELSE at[s]]

\* The daemon has just connected, PipeWire holds none of its edges.
Init ==
  /\ mix \in BOOLEAN
  /\ at = [s \in Slots |-> "free"]
  /\ ours = {} /\ events = <<>> /\ known = {} /\ requested = {}
  /\ pending = {} /\ overdue = {} /\ failed = {}
  /\ reported = FALSE /\ loadFailed = FALSE /\ lastError = FALSE
  /\ watching = FALSE
  /\ connected = TRUE /\ settling = TRUE /\ server = TRUE
  /\ ops = 0 /\ faults = 0 /\ drops = 0
-----------------------------------------------------------------------------
(* The Qt thread asks for modules *)

\* A free slot for a module of each edge of `es`; there is one, unless PerEdge was too small.
Room(es, places) == \A e \in es : \E s \in {e} \X (1..PerEdge) : places[s] = "free"
FreeSlots(es, places) ==
  {CHOOSE s \in {e} \X (1..PerEdge) : places[s] = "free" : e \in es}

\* loadLoopback for each edge of `new`: the module loads (it connects to PipeWire by itself), or
\* moduleLoadFailed is queued.  `places` is where the slots stand, `queue` what is queued.
Load(new, places, queue) ==
  \E ok \in SUBSET (IF server THEN new ELSE {}) :
    /\ Room(ok, places)
    /\ server => faults + Cardinality(new \ ok) <= MaxFaults
    /\ faults' = IF server THEN faults + Cardinality(new \ ok) ELSE faults
    /\ LET taken == FreeSlots(ok, places) IN
         /\ at' = [s \in Slots |-> IF s \in taken THEN "coming" ELSE places[s]]
         /\ ours' = ours \cup taken
    /\ events' = IF ok = new THEN queue ELSE Post(queue, "failed", NoSlot)

\* Mutant: asks, and expects nothing.
EnsureUnwatched(want, places, asked, queue) ==
  LET absent == want \cap Missing IN
    /\ Load(absent \ asked, places, queue)
    /\ requested' = asked \cup absent
    /\ UNCHANGED watch

\* ensureEdgeLoopbacks with the layout's edges `want`: ask once for every edge that is not in
\* the graph (requestNullNode), and expect it (expectEdge restarts its 3 s).
EnsureEdges(want, places, asked, queue) ==
  LET absent == want \cap Missing IN
    /\ Load(absent \ asked, places, queue)
    /\ requested' = asked \cup absent
    /\ pending' = pending \cup absent
    /\ overdue' = overdue \ absent
    /\ watching' = (watching \/ absent # {})
    /\ UNCHANGED <<failed, reported, loadFailed, lastError>>

\* 400 ms after the connection: the registry has replayed what was there (assumed).
Reconcile ==
  /\ settling
  /\ connected => \A s \in Slots \ ours : at[s] # "coming"
  /\ settling' = FALSE
  /\ IF connected
       THEN EnsureEdges(Wanted, at, requested, events)
       ELSE UNCHANGED <<at, ours, events, requested, watch, faults>>
  /\ UNCHANGED <<mix, known, connected, server, ops, drops>>
-----------------------------------------------------------------------------
(* The Qt thread: commands *)

Ops == ops < MaxOps /\ ops' = ops + 1

\* addMix, and undo of its removal: saveLayout, reconcile.
AddMix ==
  /\ Ops /\ ~mix
  /\ mix' = TRUE
  /\ IF connected
       THEN EnsureEdges(Edges, at, requested, events)
       ELSE UNCHANGED <<at, ours, events, requested, watch, faults>>
  /\ UNCHANGED <<known, link, drops>>

\* removeMix, destroyOurNodes: what is not in the snapshot yet is neither destroyed nor
\* forgotten.
RemoveMix ==
  /\ Ops /\ mix
  /\ mix' = FALSE
  /\ at' = Move(Snapshot, "leaving")
  /\ requested' = requested \cap Missing
  /\ UNCHANGED <<ours, events, known, watch, link, faults, drops>>

\* setMixOutputs with other ports: destroyObject on the output edge, then ask again.
SetMixOutputs ==
  /\ Ops /\ mix
  /\ \E e \in Watched :
       LET gone == {s \in Snapshot : EdgeOf(s) = e} IN
         \E doomed \in IF gone = {} THEN {{}} ELSE {{s} : s \in gone} :
           EnsureEdges(Wanted, Move(doomed, "leaving"), requested, events)
  /\ UNCHANGED <<mix, known, link, drops>>

\* rebuildMixOutputEdges after a change of the mix's effects: all its edges go.
RebuildMixOutputEdges ==
  /\ Ops /\ mix
  /\ EnsureEdges(Wanted, Move(Snapshot, "leaving"), requested \cap Missing, events)
  /\ UNCHANGED <<mix, known, link, drops>>
-----------------------------------------------------------------------------
(* The Qt thread: the edge watcher *)

\* The 3 s of an expected edge are over; the Qt thread is not that far behind (assumed).
\* While its module is on the way that is a fault of a slow module.
GracePasses(e) ==
  /\ e \in pending \ overdue
  /\ events = <<>>
  /\ LET onTheWay == server /\ \E s \in Slots : EdgeOf(s) = e /\ at[s] = "coming" IN
       /\ onTheWay => faults < MaxFaults
       /\ faults' = IF onTheWay THEN faults + 1 ELSE faults
  /\ overdue' = overdue \cup {e}
  /\ UNCHANGED <<mix, at, ours, events, known, requested, pending, failed, reported,
                 loadFailed, lastError, watching, link, ops, drops>>

\* Mutant: the watch rests as soon as nothing is expected.
RestsWhenNothingPending(expected, reportedMissing) == expected # {}

\* The watch goes on while an edge is expected or reported.
KeepsWatching(expected, reportedMissing) == expected # {} \/ reportedMissing # {}

\* unloadLoopback of late edges: modules that are loaded and have no node yet.  A module whose
\* node is listed is not late.
Unloaded(late) == {s \in ours : EdgeOf(s) \in late /\ at[s] = "coming"}

\* checkPendingEdges: what has arrived is done with; what is late is reported, its module
\* unloaded and asked for again; the report is withdrawn once nothing is missing.
CheckPendingEdges ==
  /\ watching
  /\ LET arrived == pending \ Missing
         late == (pending \cap Missing) \cap overdue
         stillFailed == ((failed \cap pending) \ arrived) \cup late
         heals == late = {} /\ stillFailed = {} /\ reported /\ ~loadFailed IN
       /\ pending' = pending \ (arrived \cup late)
       /\ overdue' = overdue \ (arrived \cup late)
       /\ failed' = stillFailed
       /\ at' = Move(Unloaded(late), "unloaded")
       /\ ours' = ours \ Unloaded(late)
       /\ requested' = requested \ late
       /\ lastError' = ((lastError \/ late # {}) /\ ~heals)
       /\ reported' = ((reported \/ late # {}) /\ ~heals)
       /\ events' = IF late = {} THEN events ELSE Post(events, "recheck", NoSlot)
       /\ watching' = KeepsWatching(pending', stillFailed)
  /\ UNCHANGED <<mix, known, loadFailed, link, counters>>
-----------------------------------------------------------------------------
(* The Qt thread: events, in the order they were queued *)

Handles(type) == events # <<>> /\ Head(events).type = type

\* The queued call of ensureEdgeLoopbacks (singleShot with 0 ms).
Recheck ==
  /\ Handles("recheck")
  /\ EnsureEdges(Wanted, at, requested, Tail(events))
  /\ UNCHANGED <<mix, known, link, ops, drops>>

\* onNode: the first appearance of a node answers the request for its name.
OnNode ==
  /\ Handles("added")
  /\ events' = Tail(events)
  /\ LET s == Head(events).slot IN
       /\ known' = known \cup {s}
       /\ requested' = IF s \in known THEN requested ELSE requested \ {EdgeOf(s)}
  /\ UNCHANGED <<mix, at, ours, watch, link, counters>>

\* Mutant: a removal is only noted.
OnNodeRemovedIdle ==
  /\ Handles("removed")
  /\ events' = Tail(events)
  /\ LET s == Head(events).slot IN known' = known \ {s} /\ at' = Move({s}, "free")
  /\ UNCHANGED <<mix, ours, requested, watch, link, counters>>

\* onNodeRemoved: a watched edge that is gone is looked for again; the request is kept.
OnNodeRemoved ==
  /\ Handles("removed")
  /\ LET s == Head(events).slot IN
       /\ known' = known \ {s}
       /\ at' = Move({s}, "free")
       /\ events' = IF s \in known /\ connected /\ EdgeOf(s) \in Watched
                     THEN Post(Tail(events), "recheck", NoSlot) ELSE Tail(events)
  /\ UNCHANGED <<mix, ours, requested, watch, link, counters>>

\* moduleLoadFailed: every request whose node is not there may be made again.
OnModuleLoadFailed ==
  /\ Handles("failed")
  /\ events' = Tail(events)
  /\ loadFailed' = TRUE /\ lastError' = TRUE
  /\ requested' = requested \ Missing
  /\ UNCHANGED <<mix, at, ours, known, pending, overdue, failed, reported, watching,
                 link, counters>>

\* Graph::teardown: no node is mirrored any more.
TornDown == [s \in Slots |-> IF at[s] \in {"up", "leaving", "left"} THEN "free" ELSE at[s]]

\* Graph::disconnected: teardown empties the snapshot and announces every removal while
\* m_connected still holds, then everything learnt from the graph is forgotten.
OnDisconnected ==
  /\ Handles("disconnected")
  /\ at' = TornDown
  /\ events' = IF \E s \in Snapshot \cap known : EdgeOf(s) \in Watched
                THEN Post(Tail(events), "recheck", NoSlot) ELSE Tail(events)
  /\ known' = {} /\ requested' = {}
  /\ connected' = FALSE
  /\ UNCHANGED <<mix, ours, watch, settling, server, counters>>

\* The reconnect timer, once PipeWire is back.
Reconnect ==
  /\ ~connected /\ server
  /\ connected' = TRUE
  /\ settling' = TRUE
  /\ UNCHANGED <<mix, at, ours, events, known, requested, watch, server,
                 counters>>
-----------------------------------------------------------------------------
(* The PipeWire server and the loop thread *)

GraphOnly == UNCHANGED <<mix, known, requested, watch, link, ops, drops>>

\* onNodeInfo, publish: a new node.  The server may get to the node of an unloaded module
\* before it gets to the unloading.
NodeAnnounced(s) ==
  /\ connected /\ server
  /\ \/ at[s] = "coming" /\ at' = Move({s}, "up")
     \/ at[s] = "unloaded" /\ at' = Move({s}, "leaving")
  /\ events' = Post(events, "added", s)
  /\ GraphOnly /\ UNCHANGED <<ours, faults>>

\* onProxyDestroy: the node leaves the snapshot at once, the event is queued.
NodeVanishes(s) ==
  /\ connected /\ server
  /\ at[s] = "leaving"
  /\ at' = Move({s}, "left")
  /\ ours' = ours \ {s}
  /\ events' = Post(events, "removed", s)
  /\ GraphOnly /\ UNCHANGED faults

\* An unloaded module that was never announced leaves no trace.
ModuleVanishes(s) ==
  /\ at[s] = "unloaded"
  /\ at' = Move({s}, "free")
  /\ GraphOnly /\ UNCHANGED <<ours, events, faults>>

\* A module dies by itself (its own client fails, somebody destroys its node).
ModuleDies(s) ==
  /\ server
  /\ faults < MaxFaults /\ faults' = faults + 1
  /\ \/ at[s] = "coming" /\ at' = Move({s}, "free")
     \/ at[s] = "up" /\ at' = Move({s}, "leaving")
  /\ ours' = ours \ {s}
  /\ GraphOnly /\ UNCHANGED events

\* PipeWire goes away: modules die with it, mirrored nodes stay mirrored until the teardown.
ServerDies ==
  /\ server /\ connected
  /\ drops < MaxDrops /\ drops' = drops + 1
  /\ server' = FALSE
  /\ at' = [s \in Slots |-> IF at[s] \in {"coming", "unloaded"} THEN "free" ELSE at[s]]
  /\ ours' = {}
  /\ events' = Post(events, "disconnected", NoSlot)
  /\ UNCHANGED <<mix, known, requested, watch, connected, settling, ops,
                 faults>>

\* PipeWire comes back, with the edges of its configuration fragment or (no fragment) none.
ServerReturns ==
  /\ ~server
  /\ ~\E i \in DOMAIN events : events[i].type = "disconnected"
  /\ server' = TRUE
  /\ \E built \in {{}, Wanted} :
       Room(built, at) /\ at' = Move(FreeSlots(built, at), "coming")
  /\ UNCHANGED <<mix, ours, events, known, requested, watch, connected, settling,
                 counters>>
-----------------------------------------------------------------------------
HandleEvent == Recheck \/ OnNode \/ OnNodeRemoved \/ OnModuleLoadFailed \/ OnDisconnected
Commands == AddMix \/ RemoveMix \/ SetMixOutputs \/ RebuildMixOutputEdges

Next ==
  \/ Commands \/ HandleEvent \/ Reconcile \/ CheckPendingEdges \/ Reconnect
  \/ ServerDies \/ ServerReturns
  \/ \E e \in Edges : GracePasses(e)
  \/ \E s \in Slots : NodeAnnounced(s) \/ NodeVanishes(s) \/ ModuleVanishes(s) \/ ModuleDies(s)

Spec == Init /\ [][Next]_vars

\* The event loop and its timers run, time passes, PipeWire carries out what it was asked
\* and comes back.  Nobody owes a command or a fault.
Fairness ==
  /\ WF_vars(HandleEvent) /\ WF_vars(Reconcile)
  /\ WF_vars(CheckPendingEdges) /\ WF_vars(Reconnect) /\ WF_vars(ServerReturns)
  /\ \A e \in Edges : WF_vars(GracePasses(e))
  /\ \A s \in Slots :
       /\ WF_vars(NodeAnnounced(s)) /\ WF_vars(NodeVanishes(s)) /\ WF_vars(ModuleVanishes(s))

FairSpec == Spec /\ Fairness
-----------------------------------------------------------------------------
Event ==
  [type : {"added", "removed", "failed", "disconnected", "recheck"}, slot : Slots \cup {NoSlot}]

TypeOK ==
  /\ mix \in BOOLEAN
  /\ at \in [Slots -> Places]
  /\ ours \subseteq Slots /\ known \subseteq Slots
  /\ events \in Seq(Event)
  /\ requested \subseteq Edges /\ pending \subseteq Edges /\ failed \subseteq Edges
  /\ overdue \subseteq pending
  /\ reported \in BOOLEAN /\ loadFailed \in BOOLEAN /\ lastError \in BOOLEAN
  /\ watching \in BOOLEAN
  /\ connected \in BOOLEAN /\ settling \in BOOLEAN /\ server \in BOOLEAN
  /\ ops \in 0..MaxOps /\ faults \in 0..MaxFaults /\ drops \in 0..MaxDrops

IsQueued(types) == \E i \in DOMAIN events : events[i].type \in types
RemovalQueued(e) ==
  \E i \in DOMAIN events : events[i].type = "removed" /\ EdgeOf(events[i].slot) = e

\* An edge of the layout that is missing is on somebody's list: the watcher expects it, its
\* removal or a second look is queued, or the reconcile after a (re)connection will come.
NothingForgotten ==
  \A e \in Wanted \cap Watched :
    \/ InGraph(e) \/ e \in pending
    \/ RemovalQueued(e) \/ IsQueued({"recheck", "disconnected"})
    \/ settling \/ ~connected

\* Whatever fails, dies, comes late or is destroyed by a command, and although PipeWire itself
\* goes away: in the end every edge of the layout is in the graph.
EdgesStand == <>[](\A e \in Wanted \cap Watched : InGraph(e))

\* A failure that was repaired by a late arrival or a retry is not reported for ever, unless a
\* module could not be loaded at all.
ReportHeals == <>[](lastError => loadFailed)

\* requirements.md, MX-3: "every mix also exposes `kmixdeck.source.<slug>`".  As EdgesStand, for
\* all edges of the mix; rebuildMixOutputEdges destroys the source on purpose as well.
EveryEdgeStands == <>[](\A e \in Wanted : InGraph(e))

=============================================================================
