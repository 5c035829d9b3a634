----------------------------- MODULE CellGraph -----------------------------
(***************************************************************************)
(* The cell graph of ADR 0013 (src/src/mixer.cpp: ensureCellGraph and its  *)
(* callers; src/src/layout.h and layout.cpp: ADR13).                       *)
(*                                                                         *)
(* Every channel has one filter-chain per bus; it puts the channel, once   *)
(* per mix of that bus, on the pair of bus ports that is the mix's place   *)
(* in the layout.  Every mix has a tap that reads its pair off the bus.    *)
(* Chains and taps are modules that keep what they were loaded with: after *)
(* the mixes changed the daemon recognises those that no longer fit by     *)
(* their description, destroys them, and loads new ones when their removal *)
(* is confirmed.  Sound reaches a mix only where chain and tap agree.      *)
(*                                                                         *)
(* As in EdgeReconcile the Qt thread reads a snapshot that is newer than   *)
(* the events it handles, destroying takes effect later, and a module may  *)
(* need longer than the watcher's 3 s or die.  The buses themselves (null  *)
(* sinks without parameters) are taken to be there, and PipeWire to stay.  *)
(***************************************************************************)
EXTENDS Naturals, Sequences, FiniteSets, SequencesExt

CONSTANTS
  ChannelSlugs, Mixes,   \* slugs
  Orders,            \* the orders of mixes a layout may have
  Starts,            \* the order in the layout at the start, the order the graph was built for
  PerBus,            \* ADR13::kMixesPerBus
  PerName,           \* bound: modules of one name in the graph or on their way at a time
  MaxBehind,         \* bound: events the Qt thread has not handled when the graph changes again
  MaxOps,            \* bound: commands
  MaxFaults          \* bound: modules that die or need longer than the grace period

ASSUME CellGraphAssumption ==
  /\ IsFiniteSet(Mixes) /\ Orders \subseteq {o \in Seq(Mixes) : IsInjective(o)}
  /\ Starts \subseteq Orders \X Orders
  /\ {PerBus, PerName} \subseteq Nat \ {0} /\ {MaxBehind, MaxOps, MaxFaults} \subseteq Nat

VARIABLES
  layout,     \* m_layout: its channels, its mixes in their order
  at,         \* slot -> where its module stands, as in EdgeReconcile
  made,       \* slot -> what its module was loaded with, <<>> where it is free
  snapshot,   \* Graph's snapshot: of every name its nodes, in the order of their serials
  events,     \* queued for the Qt thread
  requested,  \* m_nodeRequested
  pending,    \* m_edgePending
  overdue,    \* those of them that were expected more than 3 s ago
  settling,   \* the reconcile() 400 ms after Graph::connected is due
  moved,      \* history: the graph was not looked at since the layout last changed
  ops, faults   \* cellCounters for the bounds

graph == <<at, made, snapshot, events>>
watch == <<pending, overdue>>
cellCounters == <<ops, faults>>
cellVars == <<layout, graph, requested, watch, settling, moved, cellCounters>>

Places == {"free", "coming", "up", "leaving", "unloaded"}
-----------------------------------------------------------------------------
(* Names and what a module is loaded with *)

Buses == 0..((Cardinality(Mixes) - 1) \div PerBus)
ChainNode(c, b) == <<"chain", c, b>>
Tap(m) == <<"tap", m>>
Names == {ChainNode(c, b) : c \in ChannelSlugs, b \in Buses} \cup {Tap(m) : m \in Mixes}
Slots == Names \X (1..PerName)
NameOf(s) == s[1]
IsChain(name) == name[1] = "chain"

Members(order) == {order[i] : i \in DOMAIN order}
Index(order, m) == (CHOOSE i \in DOMAIN order : order[i] = m) - 1
BusCount(order) == (Len(order) + PerBus - 1) \div PerBus

\* chainSignature: the mixes a bus carries, in their order.
OnBus(order, b) ==
  LET end == (b + 1) * PerBus IN
    SubSeq(order, b * PerBus + 1, IF end < Len(order) THEN end ELSE Len(order))

WantedNames(l) ==
  {ChainNode(c, b) : c \in l.channels, b \in 0..(BusCount(l.mixes) - 1)}
    \cup {Tap(m) : m \in Members(l.mixes)}

\* cellChainArgs, mixTapArgs: a chain gets its mixes, a tap its bus and its pair.
Rendered(order, name) ==
  IF IsChain(name) THEN OnBus(order, name[3])
  ELSE <<Index(order, name[2]) \div PerBus, Index(order, name[2]) % PerBus>>

\* Mutant: the description of a chain does not name the mixes.
DescribedByNameOnly(name, what) == IF IsChain(name) THEN <<>> ELSE what[2]

\* node.description, which is all the daemon can compare: of a chain its mixes, of a tap the
\* pair without the bus.
Described(name, what) == IF IsChain(name) THEN what ELSE what[2]

\* The graph as PipeWire built it at login from the fragment of some earlier layout.
Standing(order) == {<<n, 1>> : n \in WantedNames([channels |-> ChannelSlugs, mixes |-> order])}

CellInit ==
  /\ \E start \in Starts : LET order == start[2] IN
       /\ layout = [channels |-> ChannelSlugs, mixes |-> start[1]]
       /\ at = [s \in Slots |-> IF s \in Standing(order) THEN "up" ELSE "free"]
       /\ made = [s \in Slots |->
                    IF s \in Standing(order) THEN Rendered(order, NameOf(s)) ELSE <<>>]
       /\ snapshot = [n \in Names |-> IF <<n, 1>> \in Standing(order) THEN <<(<<n, 1>>)>> ELSE <<>>]
  /\ events = <<>> /\ requested = {} /\ pending = {} /\ overdue = {}
  /\ settling = TRUE /\ moved = TRUE
  /\ ops = 0 /\ faults = 0
-----------------------------------------------------------------------------
(* ensureCellGraph *)

Event == [type : {"added", "removed", "recheck"}, name : Names \cup {<<>>}]
Post(q, type, name) == Append(q, [type |-> type, name |-> name])
NoName == <<>>

InGraph(name) == snapshot[name] # <<>>
NodesOf(names) == UNION {Members(snapshot[n]) : n \in names}
Move(places, from, to) == [s \in Slots |-> IF s \in from THEN to ELSE places[s]]

\* Graph::node: some node of that name, for each name that is there.
Lookups ==
  {f \in [{n \in Names : InGraph(n)} -> NodesOf(Names)] : \A n \in DOMAIN f : NameOf(f[n]) = n}

Leftovers(wanted) == NodesOf(Names \ wanted)

Ends(q, first, last) == {q[i] : i \in first..last}

\* Mutant: of two nodes of a name the older is the surplus one.
TwinsOlder == UNION {Ends(snapshot[n], 1, Len(snapshot[n]) - 1) : n \in Names}

\* Mutant: a module that is still loading for a name counts as surplus.
TwinsUnseen == {s \in Slots : at[s] = "coming" /\ InGraph(NameOf(s))}

\* Two modules for one name: the older by serial stays.
Twins == UNION {Ends(snapshot[n], 2, Len(snapshot[n])) : n \in Names}

\* The nodes found that do not carry what the layout renders now.
Unfit(l, found) ==
  {found[n] : n \in {k \in WantedNames(l) \cap DOMAIN found :
                       Described(k, made[found[k]]) # Described(k, Rendered(l.mixes, k))}}

\* The request of what is destroyed is cleared.
AskedAgain(asked, sweep) == asked \ {NameOf(s) : s \in sweep}

\* There is one, unless PerName was too small.
Room(names, places) == \A n \in names : \E s \in {n} \X (1..PerName) : places[s] = "free"
FreeSlot(name, places) == CHOOSE s \in {name} \X (1..PerName) : places[s] = "free"

\* The layout `l`, and `places`, `asked`, `queue` as the handler left them so far.
EnsureCellGraph(l, places, asked, queue) ==
  \E found \in Lookups :
    LET absent == {n \in WantedNames(l) : ~InGraph(n)}
        sweep == Unfit(l, found) \cup Leftovers(WantedNames(l)) \cup Twins
        loaded == {FreeSlot(n, places) : n \in absent \ asked} IN
      /\ Room(absent \ asked, places)
      /\ at' = Move(Move(places, sweep, "leaving"), loaded, "coming")
      /\ made' = [s \in Slots |-> IF s \in loaded THEN Rendered(l.mixes, NameOf(s)) ELSE made[s]]
      /\ requested' = AskedAgain(asked \cup absent, sweep)
      /\ pending' = pending \cup absent
      /\ overdue' = overdue \ absent
      /\ events' = queue
      /\ moved' = FALSE
      /\ UNCHANGED snapshot

\* 400 ms after the connection.
Reconcile ==
  /\ settling
  /\ settling' = FALSE
  /\ EnsureCellGraph(layout, at, requested, events)
  /\ UNCHANGED <<layout, cellCounters>>
-----------------------------------------------------------------------------
(* Commands *)

Command == ops < MaxOps /\ ops' = ops + 1 /\ UNCHANGED <<settling, faults>>

\* addMix, duplicateMix, addChannel, undo, importSettings, an edit of the file: the layout is
\* another one, then reconcile.
Relayout(order) ==
  /\ Command
  /\ order # layout.mixes \/ layout.channels # ChannelSlugs
  /\ layout' = [channels |-> ChannelSlugs, mixes |-> order]
  /\ EnsureCellGraph(layout', at, requested, events)

\* removeMix: destroyOurNodes takes the tap out of what is in the snapshot, then the chains.
RemoveMix(m) ==
  /\ Command
  /\ m \in Members(layout.mixes)
  /\ layout' = [layout EXCEPT !.mixes = RemoveFirst(@, m)]
  /\ LET doomed == NodesOf({Tap(m)}) IN
       EnsureCellGraph(layout', Move(at, doomed, "leaving"), AskedAgain(requested, doomed), events)

\* removeChannel: destroyOurNodes takes its chains out, nothing else is looked at.
RemoveChannel(c) ==
  /\ Command
  /\ c \in layout.channels
  /\ layout' = [layout EXCEPT !.channels = @ \ {c}]
  /\ LET doomed == NodesOf({ChainNode(c, b) : b \in Buses}) IN
       /\ at' = Move(at, doomed, "leaving")
       /\ requested' = AskedAgain(requested, doomed)
  /\ moved' = TRUE
  /\ UNCHANGED <<made, snapshot, events, watch>>

\* moveMix changes the order and leaves the graph as it is.
MoveMix(order) ==
  /\ Command
  /\ order # layout.mixes /\ Members(order) = Members(layout.mixes)
  /\ layout' = [layout EXCEPT !.mixes = order]
  /\ moved' = TRUE
  /\ UNCHANGED <<graph, requested, watch>>
-----------------------------------------------------------------------------
(* Events and the watcher *)

Handles(type) == events # <<>> /\ Head(events).type = type
QtOnly == UNCHANGED <<layout, settling, cellCounters>>

\* The queued call of ensureCellGraph.
Recheck ==
  /\ Handles("recheck")
  /\ EnsureCellGraph(layout, at, requested, Tail(events))
  /\ QtOnly

\* onNode: the first appearance of a node answers the request for its name.
OnNode ==
  /\ Handles("added")
  /\ events' = Tail(events)
  /\ requested' = requested \ {Head(events).name}
  /\ UNCHANGED <<at, made, snapshot, watch, moved>> /\ QtOnly

\* Mutant: only the removal of a chain is followed by another look.
OnChainRemovedOnly ==
  /\ Handles("removed")
  /\ events' = IF IsChain(Head(events).name) THEN Post(Tail(events), "recheck", NoName) ELSE Tail(events)
  /\ UNCHANGED <<at, made, snapshot, requested, watch, moved>> /\ QtOnly

\* onNodeRemoved: look again; the request is kept, it may be for the next node of that name.
OnNodeRemoved ==
  /\ Handles("removed")
  /\ events' = Post(Tail(events), "recheck", NoName)
  /\ UNCHANGED <<at, made, snapshot, requested, watch, moved>> /\ QtOnly

OnTheWay(name) == {s \in Slots : NameOf(s) = name /\ at[s] = "coming"}

\* The 3 s of an expected node are over.  While its module is on the way that is a fault.
GracePasses(name) ==
  /\ name \in pending \ overdue /\ ~InGraph(name) /\ events = <<>>
  /\ OnTheWay(name) # {} => faults < MaxFaults
  /\ faults' = IF OnTheWay(name) # {} THEN faults + 1 ELSE faults
  /\ overdue' = overdue \cup {name}
  /\ UNCHANGED <<layout, graph, requested, pending, settling, moved, ops>>

\* checkPendingEdges: what has arrived is done with; the module of what is late is unloaded,
\* its request cleared, and the graph looked at again.
CheckPendingEdges ==
  LET arrived == {n \in pending : InGraph(n)}
      late == overdue \ arrived IN
    /\ arrived \cup late # {}
    /\ pending' = pending \ (arrived \cup late)
    /\ overdue' = overdue \ (arrived \cup late)
    /\ at' = Move(at, UNION {OnTheWay(n) : n \in late}, "unloaded")
    /\ requested' = requested \ late
    /\ events' = IF late = {} THEN events ELSE Post(events, "recheck", NoName)
    /\ UNCHANGED <<made, snapshot, moved>> /\ QtOnly
-----------------------------------------------------------------------------
(* PipeWire and the loop thread *)

GraphOnly == UNCHANGED <<layout, requested, watch, settling, moved, ops>>
Announces == Len(events) < MaxBehind
Vanish(s) == at' = Move(at, {s}, "free") /\ made' = [made EXCEPT ![s] = <<>>]

\* A module registers; one that is being unloaded may get there all the same.
NodeAnnounced(s) ==
  /\ Announces
  /\ \/ at[s] = "coming" /\ at' = Move(at, {s}, "up")
     \/ at[s] = "unloaded" /\ at' = Move(at, {s}, "leaving")
  /\ snapshot' = [snapshot EXCEPT ![NameOf(s)] = Append(@, s)]
  /\ events' = Post(events, "added", NameOf(s))
  /\ GraphOnly /\ UNCHANGED <<made, faults>>

NodeVanishes(s) ==
  /\ Announces
  /\ at[s] = "leaving"
  /\ Vanish(s)
  /\ snapshot' = [snapshot EXCEPT ![NameOf(s)] = RemoveFirst(@, s)]
  /\ events' = Post(events, "removed", NameOf(s))
  /\ GraphOnly /\ UNCHANGED faults

ModuleVanishes(s) ==
  /\ at[s] = "unloaded"
  /\ Vanish(s)
  /\ GraphOnly /\ UNCHANGED <<snapshot, events, faults>>

ModuleDies(s) ==
  /\ at[s] = "up"
  /\ faults < MaxFaults /\ faults' = faults + 1
  /\ at' = Move(at, {s}, "leaving")
  /\ GraphOnly /\ UNCHANGED <<made, snapshot, events>>

HandleEvent == Recheck \/ OnNode \/ OnNodeRemoved

CellNext ==
  \/ \E order \in Orders : Relayout(order) \/ MoveMix(order)
  \/ \E m \in Mixes : RemoveMix(m)
  \/ \E c \in ChannelSlugs : RemoveChannel(c)
  \/ HandleEvent \/ Reconcile \/ CheckPendingEdges
  \/ \E n \in Names : GracePasses(n)
  \/ \E s \in Slots : NodeAnnounced(s) \/ NodeVanishes(s) \/ ModuleVanishes(s) \/ ModuleDies(s)

CellSpec == CellInit /\ [][CellNext]_cellVars

\* The event loop and its timers run, time passes, PipeWire carries out what it was asked.
CellFairness ==
  /\ WF_cellVars(HandleEvent) /\ WF_cellVars(Reconcile) /\ WF_cellVars(CheckPendingEdges)
  /\ \A n \in Names : WF_cellVars(GracePasses(n))
  /\ \A s \in Slots :
       WF_cellVars(NodeAnnounced(s)) /\ WF_cellVars(NodeVanishes(s)) /\ WF_cellVars(ModuleVanishes(s))

CellFairSpec == CellSpec /\ CellFairness
-----------------------------------------------------------------------------
Announced(name) == {s \in Slots : NameOf(s) = name /\ at[s] \in {"up", "leaving"}}

\* The snapshot lists every node that was announced and has not vanished, each once, under its
\* own name.
CellTypeOK ==
  /\ layout \in [channels : SUBSET ChannelSlugs, mixes : Seq(Mixes)] /\ IsInjective(layout.mixes)
  /\ at \in [Slots -> Places] /\ made \in [Slots -> Seq(Mixes) \cup (Nat \X Nat)]
  /\ snapshot \in [Names -> Seq(Slots)]
  /\ \A n \in Names : Members(snapshot[n]) = Announced(n) /\ IsInjective(snapshot[n])
  /\ events \in Seq(Event)
  /\ overdue \subseteq pending /\ pending \cup requested \subseteq Names
  /\ ops \in 0..MaxOps /\ faults \in 0..MaxFaults

Up(name) == {s \in NodesOf({name}) : at[s] = "up"}

\* Channel c reaches mix m: a tap of m reads the pair on which a chain of c on that bus puts it.
Reaches(c, m) ==
  \E tap \in Up(Tap(m)) : \E chain \in Up(ChainNode(c, made[tap][1])) :
    LET pair == made[tap][2] + 1 IN pair \in DOMAIN made[chain] /\ made[chain][pair] = m

\* Whatever was added, removed, moved or replaced meanwhile, and whatever came late or died: in
\* the end every channel is heard in every mix.
CellsStand ==
  <>[](\A c \in layout.channels, m \in Members(layout.mixes) : Reaches(c, m))

\* The same for as long as nobody touches the layout: a graph that was built at login from an
\* older fragment, with modules that die or come late, becomes what the layout says.
LoginHeals == [](ops = 0) => CellsStand

\* After any command too nothing the layout wants stays away: its removal, its lost module or the
\* expired grace period has it asked for again.
NothingMissing == <>[](\A n \in WantedNames(layout) : Up(n) # {})

\* Of two modules of a name never both are destroyed by one look at the graph when the older is
\* as the layout wants it: sound goes on.
SweepSpares ==
  [][\A n \in WantedNames(layout') : InGraph(n) =>
       LET oldest == snapshot[n][1] IN
         at[oldest] = "up" /\ made[oldest] = Rendered(layout'.mixes, n) /\ faults' = faults
           => at'[oldest] = "up"]_cellVars

=============================================================================
