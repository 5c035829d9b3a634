------------------------------- MODULE Levels -------------------------------
(***************************************************************************)
(* Who is metered, and for whom: the Levels interface of the daemon        *)
(* (LevelsAdaptor, src/src/daemon/service.cpp) and the capture streams it  *)
(* keeps in PipeWire (src/src/pipewire/meters.cpp).                        *)
(*                                                                         *)
(* Subscribers come and go, with or without a word; the last one leaves    *)
(* the meters running for three seconds.  Two kinds of meter ignore the    *)
(* subscribers: the trigger of a ducked channel, and the loudness analyser *)
(* of a mix that asked for one.  Analysers are numbered as they are made:   *)
(* a new one starts with empty windows.  A meter is linked to its node when *)
(* it is built and never again: if the node leaves, the meter stays deaf    *)
(* when a node of that name returns.  `gone` is a history variable.         *)
(***************************************************************************)
EXTENDS Integers, FiniteSets

CONSTANTS Clients,      \* bus names that may subscribe
          Channels,     \* channels, and the names of their sinks
          Mix, Edge,    \* a mix's sink, and its edge to the device
          None,
          MaxEvents,    \* changes of the desk and of its subscribers
          MaxLosses     \* losses of PipeWire

Strips == Channels \cup {Mix}
Nodes  == Strips \cup {Edge}

ASSUME LevelsAssumption ==
    /\ Mix \notin Channels /\ Edge \notin Strips /\ None \notin Nodes
    /\ {MaxEvents, MaxLosses} \subseteq Nat

VARIABLES
    conn,       \* off; replay: connected, reconcile() to come; on
    layout,     \* the layout's channels
    listed,     \* Mixer's m_channels and m_mixes
    duckedBy,   \* per channel, its trigger or None
    flagged,    \* the mix has its loudness meter switched on
    present,    \* nodes in the graph's snapshot
    added,      \* nodes whose nodeAdded is queued
    subscribers, teardown,      \* LevelsAdaptor: m_subscribers, m_teardown
    queued,     \* what singleShot(0) will run
    wanted, streams,            \* Meters: wantedPeaks, streams
    linked,     \* the streams that are linked to their nodes
    gone,       \* nodes that have left while, and ever since when, they were wanted
    wantedLoud, loud,           \* is the mix in wantedLoud; its analyser or 0
    made,                       \* analysers made so far
    tick,                       \* m_tick: off, idle (5 Hz), full (25 Hz)
    events, losses

desk   == <<layout, listed, duckedBy, flagged>>
graph  == <<conn, present, added>>
levels == <<subscribers, teardown, queued>>
meters == <<wanted, streams, linked, gone, wantedLoud, loud, made, tick>>
vars   == <<desk, graph, levels, meters, events, losses>>

Event == events < MaxEvents /\ events' = events + 1

-----------------------------------------------------------------------------
(* Meters                                                                  *)

\* Mutant: a meter is built whether its node is known or not.
BuiltBlind(want) == want

\* buildWantedPeaks(): what is no longer wanted goes, what runs is left alone,
\* the rest is built if its node is known
Built(want) == (streams \cap want) \cup (want \cap present)

\* create(): only a new stream is linked, node.dont-reconnect
Linked(want) == (linked \cap want) \cup ((want \cap present) \ streams)

\* Mutant: without the comparison every Subscribe() starts it anew.
AnalyserAnew(want) == IF want /\ Mix \in present THEN made + 1 ELSE 0

\* setLoudnessTargets(), buildWantedLoudness(): the same for the analyser; an
\* unchanged list is left alone
Analyser(want) ==
    IF ~want THEN 0 ELSE IF loud = 0 /\ Mix \in present THEN made + 1 ELSE loud

\* updateTick()
TickFor(str, ld) ==
    IF str # {} THEN "full" ELSE IF ld # 0 THEN "idle" ELSE "off"

\* wishes are kept while there is no core to build against
SetTargets(want, wantLoud) ==
    /\ wanted' = want /\ wantedLoud' = wantLoud
    /\ gone' = gone \cap want
    /\ IF conn = "off"
         THEN UNCHANGED <<streams, linked, loud, made, tick>>
         ELSE /\ streams' = Built(want) /\ linked' = Linked(want)
              /\ loud' = Analyser(wantLoud)
              /\ made' = IF loud' > made THEN loud' ELSE made
              /\ tick' = TickFor(streams', loud')

-----------------------------------------------------------------------------
(* LevelsAdaptor                                                           *)

\* Mutant: no test for a channel that has none.
TriggersOfAll(lst, duck) == {duck[c] : c \in lst \cap Channels}

\* "FX-9: a trigger channel is metered whether or not a UI is watching"
Triggers(lst, duck) == {duck[c] : c \in lst \cap Channels} \ {None}

\* syncTargets(): triggers always, everything else for subscribers
Targets(subs, lst, duck) ==
    Triggers(lst, duck)
      \cup (IF subs = {} THEN {}
            ELSE lst \cup (IF Mix \in lst THEN {Edge} ELSE {}))

Sync(subs, lst, duck, flg) ==
    SetTargets(Targets(subs, lst, duck), flg)

\* layoutChanged: at once for subscribers, later otherwise (a core that is
\* coming up must not be given streams)
LayoutChanged(lst, duck, flg, more) ==
    IF subscribers # {}
      THEN Sync(subscribers, lst, duck, flg) /\ queued' = queued \cup more
      ELSE queued' = queued \cup {"layout"} \cup more /\ UNCHANGED meters

Subscribe(k) ==
    /\ Event
    /\ teardown' = FALSE
    /\ IF k \in subscribers
         THEN UNCHANGED <<subscribers, meters>>
         ELSE /\ subscribers' = subscribers \cup {k}
              /\ Sync(subscribers', listed, duckedBy, flagged)
    /\ UNCHANGED <<desk, graph, queued, losses>>

\* Unsubscribe: the last one starts the three seconds
Unsubscribe(k) ==
    /\ k \in subscribers /\ Event
    /\ subscribers' = subscribers \ {k}
    /\ IF subscribers' = {}
         THEN teardown' = TRUE /\ UNCHANGED meters
         ELSE Sync(subscribers', listed, duckedBy, flagged) /\ UNCHANGED teardown
    /\ UNCHANGED <<desk, graph, queued, losses>>

\* onNameOwnerChanged: the client's connection is gone
Leaves(k) ==
    /\ k \in subscribers /\ Event
    /\ subscribers' = subscribers \ {k}
    /\ teardown' = (teardown \/ subscribers' = {})
    /\ UNCHANGED <<desk, graph, queued, meters, losses>>

Teardown ==
    /\ teardown
    /\ teardown' = FALSE
    /\ Sync(subscribers, listed, duckedBy, flagged)
    /\ UNCHANGED <<desk, graph, subscribers, queued, events, losses>>

\* the deferred half of layoutChanged; of channelChanged; of nodeAdded; the
\* loudness wish 500 ms after a connect
Later(job) ==
    /\ job \in queued
    /\ queued' = queued \ {job}
    /\ CASE job = "layout" -> IF subscribers # {} THEN UNCHANGED meters
                              ELSE Sync(subscribers, listed, duckedBy, flagged)
         [] job = "channel" -> Sync(subscribers, listed, duckedBy, flagged)
         [] job = "build" -> SetTargets(wanted, wantedLoud)
         [] job = "connected" -> IF conn = "off" THEN UNCHANGED meters
                                 ELSE SetTargets(wanted, flagged)
    /\ UNCHANGED <<desk, graph, subscribers, teardown, events, losses>>

-----------------------------------------------------------------------------
(* The desk, as far as the meters see it.                                  *)

\* addChannel(), undo(): reconcile() lists the channel at once
AddChannel(c) ==
    /\ c \notin layout /\ Event
    /\ layout' = layout \cup {c}
    /\ listed' = IF conn = "off" THEN listed ELSE layout' \cup {Mix}
    /\ IF conn = "off" THEN UNCHANGED <<queued, meters>>
                       ELSE LayoutChanged(listed', duckedBy, flagged, {})
    /\ UNCHANGED <<duckedBy, flagged, graph, subscribers, teardown, losses>>

\* removeChannel(): other channels stay ducked by it
RemoveChannel(c) ==
    /\ c \in layout /\ Event
    /\ layout' = layout \ {c}
    /\ listed' = listed \ {c}
    /\ duckedBy' = [duckedBy EXCEPT ![c] = None]
    /\ LayoutChanged(listed', duckedBy', flagged, {})
    /\ UNCHANGED <<flagged, graph, subscribers, teardown, losses>>

\* setDucking(): not by itself, not in a circle of two, by a channel there is
SetDucking(c, t) ==
    /\ c \in layout /\ t # duckedBy[c] /\ Event
    /\ t # None => t # c /\ t \in layout /\ duckedBy[t] # c
    /\ duckedBy' = [duckedBy EXCEPT ![c] = t]
    /\ queued' = queued \cup {"channel"}
    /\ UNCHANGED <<layout, listed, flagged, graph, subscribers, teardown,
                   meters, losses>>

\* setMixLoudness()
SetMixLoudness ==
    /\ Event
    /\ flagged' = ~flagged
    /\ LayoutChanged(listed, duckedBy, flagged', {})
    /\ UNCHANGED <<layout, listed, duckedBy, graph, subscribers, teardown, losses>>

-----------------------------------------------------------------------------
(* PipeWire                                                                *)

\* a node the layout asks for registers: Mixer::onNode() at once, nodeAdded
\* through a queued connection
NodeArrives(n) ==
    /\ conn # "off" /\ n \in (layout \cup {Mix, Edge}) \ present
    /\ present' = present \cup {n}
    /\ added' = added \cup {n}
    /\ LET more == IF n \in Channels THEN {"channel"} ELSE {}
       IN  /\ listed' = listed \cup ({n} \cap Strips)
           /\ IF listed' # listed
                THEN LayoutChanged(listed', duckedBy, flagged, more)
                ELSE queued' = queued \cup more /\ UNCHANGED meters
    /\ UNCHANGED <<layout, duckedBy, flagged, conn, subscribers, teardown,
                   events, losses>>

NodeAdded(n) ==
    /\ n \in added
    /\ added' = added \ {n}
    /\ LET missing == n \in wanted \ streams \/ (n = Mix /\ wantedLoud /\ loud = 0)
       IN  queued' = IF missing THEN queued \cup {"build"} ELSE queued
    /\ UNCHANGED <<desk, conn, present, subscribers, teardown, meters,
                   events, losses>>

\* the sink of a channel that was removed goes; the edge of a mix goes when its
\* outputs change, and is built again.  Nobody tells the meters: the stream
\* stays, its link does not.
NodeGoes(n) ==
    /\ n \in present
    /\ \/ n \in Channels \ layout /\ UNCHANGED events
       \/ n = Edge /\ Event
    /\ present' = present \ {n}
    /\ linked' = linked \ {n}
    /\ gone' = gone \cup ({n} \cap wanted)
    /\ UNCHANGED <<desk, conn, added, levels, wanted, streams, wantedLoud, loud,
                   made, tick, losses>>

\* Graph::disconnected: Meters destroys its streams and stops, Mixer clears its
\* lists and says so
PwLost ==
    /\ conn # "off" /\ losses < MaxLosses
    /\ losses' = losses + 1
    /\ conn' = "off"
    /\ present' = {} /\ added' = {}
    /\ listed' = {}
    /\ streams' = {} /\ linked' = {} /\ gone' = {} /\ loud' = 0 /\ tick' = "off"
    /\ IF subscribers # {}
         THEN wanted' = {} /\ wantedLoud' = flagged /\ UNCHANGED queued
         ELSE queued' = queued \cup {"layout"} /\ UNCHANGED <<wanted, wantedLoud>>
    /\ UNCHANGED <<layout, duckedBy, flagged, made, subscribers, teardown, events>>

PwConnects ==
    /\ conn = "off"
    /\ conn' = "replay"
    /\ queued' = queued \cup {"connected"}
    /\ UNCHANGED <<desk, present, added, subscribers, teardown, meters,
                   events, losses>>

\* Mixer::reconcile(), 400 ms later
Reconcile ==
    /\ conn = "replay"
    /\ conn' = "on"
    /\ listed' = layout \cup {Mix}
    /\ LayoutChanged(listed', duckedBy, flagged, {})
    /\ UNCHANGED <<layout, duckedBy, flagged, present, added, subscribers,
                   teardown, events, losses>>

-----------------------------------------------------------------------------
\* a desk that has come up; nobody is watching
Init ==
    /\ conn = "on" /\ layout = Channels /\ listed = Strips
    /\ duckedBy = [c \in Channels |-> None] /\ flagged = FALSE
    /\ present = Nodes /\ added = {}
    /\ subscribers = {} /\ teardown = FALSE /\ queued = {}
    /\ wanted = {} /\ streams = {} /\ linked = {} /\ gone = {}
    /\ wantedLoud = FALSE /\ loud = 0 /\ made = 0 /\ tick = "off"
    /\ events = 0 /\ losses = 0

Next ==
    \/ \E k \in Clients : Subscribe(k) \/ Unsubscribe(k) \/ Leaves(k)
    \/ Teardown
    \/ \E job \in queued : Later(job)
    \/ \E c \in Channels : AddChannel(c) \/ RemoveChannel(c)
    \/ \E c \in Channels, t \in Channels \cup {None} : SetDucking(c, t)
    \/ SetMixLoudness
    \/ \E n \in Nodes : NodeArrives(n) \/ NodeAdded(n) \/ NodeGoes(n)
    \/ PwLost \/ PwConnects \/ Reconcile

Spec == Init /\ [][Next]_vars

-----------------------------------------------------------------------------
\* Type invariant.
TypeOK ==
    /\ conn \in {"off", "replay", "on"}
    /\ layout \subseteq Channels /\ listed \subseteq Strips
    /\ duckedBy \in [Channels -> Channels \cup {None}] /\ flagged \in BOOLEAN
    /\ present \subseteq Nodes /\ added \subseteq Nodes
    /\ subscribers \subseteq Clients /\ teardown \in BOOLEAN
    /\ queued \subseteq {"layout", "channel", "build", "connected"}
    /\ wanted \subseteq Nodes /\ streams \subseteq Nodes
    /\ linked \subseteq streams /\ gone \subseteq wanted
    /\ wantedLoud \in BOOLEAN /\ made \in Nat /\ loud \in 0..made
    /\ tick \in {"off", "idle", "full"}
    /\ events \in 0..MaxEvents /\ losses \in 0..MaxLosses

\* nothing is queued and PipeWire is up
Quiet == conn = "on" /\ queued = {} /\ added = {}

\* With nothing left to run, everything a subscriber should see and the trigger
\* of every ducked channel has a stream, linked to its node unless that node
\* left while it was metered; a flagged mix has its analyser without any
\* subscriber, and three seconds after the last subscriber nothing else runs
\* (service.cpp 327-346, 355-370, 390-423; meters.cpp 206-215, 250-343).  A node
\* that left and came back keeps its old stream, which is deaf.
MetersServe ==
    Quiet =>
      LET due == Targets(subscribers, listed, duckedBy)
      IN  /\ due \cap present \subseteq streams
          /\ due \cap (present \ gone) \subseteq linked
          /\ ~teardown => streams \subseteq due
          /\ Mix \in present => (loud # 0 <=> flagged)
          /\ tick = TickFor(streams, loud)

\* "An R128 analyser carries STATE [...] an unchanged target list must be a
\* no-op" (meters.cpp 306-312): whoever subscribes, leaves or edits the desk, a
\* running analyser is given up only when its mix no longer wants it or
\* PipeWire is lost.
AnalysersKeepTheirWindows ==
    [][loud \notin {0, loud'} => ~flagged' \/ conn' = "off"]_vars
=============================================================================
