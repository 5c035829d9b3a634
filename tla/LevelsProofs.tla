----------------------------- MODULE LevelsProofs -----------------------------
(***************************************************************************)
(* What holds of Levels for every set of subscribers and channels and any  *)
(* number of changes and losses of PipeWire: the state stays in its types, *)
(* with nothing left to run what is due is metered, as far as its node has *)
(* stayed, and nothing else is, and no running analyser loses its windows. *)
(*                                                                         *)
(* MetersServe speaks of quiet states only.  What leads there must say of  *)
(* every state who still makes up for a difference: a queued call for a    *)
(* wish that is not what the desk asks for, a queued nodeAdded or build    *)
(* for a node that is wanted and there and has no stream.                  *)
(***************************************************************************)
EXTENDS Levels, TLAPS

\* Without a core there is nothing: no node, no stream, no tick.
Silent ==
    conn = "off" =>
      streams = {} /\ loud = 0 /\ tick = "off" /\ present = {} /\ added = {}

\* What runs is wanted, and ticks as it should; a stream is deaf only if its
\* node has left.
OnlyWanted ==
    /\ streams \subseteq wanted /\ (loud # 0 => wantedLoud)
    /\ streams \ linked \subseteq gone
    /\ tick = TickFor(streams, loud)

\* What is wanted and there runs, or a call that will build it is on its way.
Announced ==
    /\ \A n \in wanted \cap present :
         n \in streams \/ n \in added \/ "build" \in queued
    /\ wantedLoud /\ Mix \in present =>
         loud # 0 \/ Mix \in added \/ "build" \in queued

\* What is wanted is what the desk asks for, or a call that will see to it is
\* queued.  "layout" does nothing for subscribers: they are served at once.
Aimed ==
    LET due == Targets(subscribers, listed, duckedBy)
    IN  /\ subscribers # {} => "channel" \in queued \/ wanted = due
        /\ subscribers = {} =>
             \/ "channel" \in queued \/ "layout" \in queued
             \/ due \subseteq wanted /\ (teardown \/ wanted = due)
        /\ wantedLoud = flagged \/ (subscribers = {} /\ "layout" \in queued)

\* The invariant.
IInv == TypeOK /\ Silent /\ OnlyWanted /\ Announced /\ Aimed
-----------------------------------------------------------------------------
(* The operators                                                           *)

\* What is due is a set of nodes, and the triggers are due to everybody.
LEMMA TargetsType ==
  ASSUME NEW subs, NEW lst \in SUBSET Strips,
         NEW duck \in [Channels -> Channels \cup {None}]
  PROVE  Targets(subs, lst, duck) \in SUBSET Nodes
BY DEF Targets, Triggers, Strips, Nodes

\* For whom nothing changes: one subscriber more or less, as long as one is left.
LEMMA TargetsOfWatchers ==
  ASSUME NEW subs, NEW subs2, NEW lst, NEW duck
  PROVE  /\ (subs = {} <=> subs2 = {}) =>
              Targets(subs, lst, duck) = Targets(subs2, lst, duck)
         /\ Targets({}, lst, duck) \subseteq Targets(subs, lst, duck)
BY DEF Targets

\* What SetTargets leaves behind, with and without a core.
SetTargetsServes(want, wantLoud) ==
    /\ wanted' = want /\ wantedLoud' = wantLoud
    /\ streams' \in SUBSET Nodes /\ made' \in Nat /\ loud' \in 0..made'
    /\ tick' \in {"off", "idle", "full"}
    /\ conn = "off" => streams' = {} /\ loud' = 0 /\ tick' = "off"
    /\ streams' \subseteq want /\ (loud' # 0 => wantLoud)
    /\ linked' \subseteq streams' /\ gone' \subseteq want /\ streams' \ linked' \subseteq gone'
    /\ tick' = TickFor(streams', loud')
    /\ want \cap present \subseteq streams'
    /\ wantLoud /\ Mix \in present => loud' # 0
    /\ wantLoud /\ loud # 0 => loud' = loud

LEMMA SetTargetsLemma ==
  ASSUME IInv, NEW want \in SUBSET Nodes, NEW wantLoud \in BOOLEAN,
         SetTargets(want, wantLoud)
  PROVE  SetTargetsServes(want, wantLoud)
<1>1. CASE conn = "off"
  BY <1>1 DEF IInv, Silent, OnlyWanted, SetTargets, SetTargetsServes, TypeOK, TickFor
<1>2. CASE conn # "off"
  <2>1. /\ streams' = Built(want) /\ linked' = Linked(want)
        /\ gone' = gone \cap want /\ loud' = Analyser(wantLoud)
        /\ made' = IF loud' > made THEN loud' ELSE made
        /\ wanted' = want /\ wantedLoud' = wantLoud
        /\ tick' = TickFor(streams', loud')
    BY <1>2 DEF SetTargets
  <2>2. made \in Nat /\ loud \in 0..made /\ present \in SUBSET Nodes
        /\ linked \subseteq streams /\ streams \ linked \subseteq gone
        /\ streams \in SUBSET Nodes
    BY DEF IInv, TypeOK, OnlyWanted
  <2>3. /\ made' \in Nat /\ loud' \in 0..made' /\ (loud' # 0 => wantLoud)
        /\ wantLoud /\ Mix \in present => loud' # 0
        /\ wantLoud /\ loud # 0 => loud' = loud
    BY <2>1, <2>2 DEF Analyser
  <2>4. /\ streams' \in SUBSET Nodes /\ streams' \subseteq want
        /\ want \cap present \subseteq streams'
        /\ linked' \subseteq streams' /\ gone' \subseteq want
        /\ streams' \ linked' \subseteq gone'
    BY <2>1, <2>2 DEF Built, Linked
  <2>5. tick' \in {"off", "idle", "full"}
    BY <2>1 DEF TickFor
  <2>6. QED
    BY <1>2, <2>1, <2>3, <2>4, <2>5 DEF SetTargetsServes
<1>3. QED
  BY <1>1, <1>2

\* The wish and the desk agree once Sync has run, whatever was queued before.
LEMMA SyncLemma ==
  ASSUME IInv, NEW subs, NEW lst \in SUBSET Strips,
         NEW duck \in [Channels -> Channels \cup {None}], NEW flg \in BOOLEAN,
         Sync(subs, lst, duck, flg)
  PROVE  SetTargetsServes(Targets(subs, lst, duck), flg)
BY SetTargetsLemma, TargetsType DEF Sync
-----------------------------------------------------------------------------
(* The steps                                                               *)

\* The types of the meters, which only SetTargets and a loss of PipeWire change.
MetersTyped ==
    /\ wanted \subseteq Nodes /\ streams \subseteq Nodes
    /\ linked \subseteq streams /\ gone \subseteq wanted
    /\ wantedLoud \in BOOLEAN /\ made \in Nat /\ loud \in 0..made
    /\ tick \in {"off", "idle", "full"}

\* Once Sync has run for the new desk everything is as it should be, whatever
\* else the step did to the queues.
LEMMA AfterSync ==
  ASSUME IInv, Sync(subscribers', listed', duckedBy', flagged'),
         listed' \subseteq Strips, flagged' \in BOOLEAN,
         duckedBy' \in [Channels -> Channels \cup {None}],
         conn' = "off" <=> conn = "off",
         present' \subseteq present \cup added',
         conn = "off" => present' = {} /\ added' = {}
  PROVE  MetersTyped' /\ Silent' /\ OnlyWanted' /\ Announced' /\ Aimed'
<1> DEFINE due == Targets(subscribers', listed', duckedBy')
<1>1. SetTargetsServes(due, flagged') /\ due \in SUBSET Nodes
  BY SyncLemma, TargetsType
<1> HIDE DEF due
<1>2. MetersTyped'
  BY <1>1 DEF SetTargetsServes, MetersTyped
<1>3. Silent' /\ OnlyWanted'
  BY <1>1 DEF SetTargetsServes, Silent, OnlyWanted, TickFor
<1>4. Announced'
  BY <1>1 DEF SetTargetsServes, Announced
<1>5. Aimed'
  BY <1>1 DEF SetTargetsServes, Aimed, due
<1>6. QED
  BY <1>2, <1>3, <1>4, <1>5

\* The desk has changed and said so.
LEMMA AfterLayoutChanged ==
  ASSUME IInv, NEW more, LayoutChanged(listed', duckedBy', flagged', more),
         UNCHANGED <<subscribers, teardown>>,
         listed' \subseteq Strips, flagged' \in BOOLEAN,
         duckedBy' \in [Channels -> Channels \cup {None}],
         conn' = "off" <=> conn = "off",
         present' \subseteq present \cup added', added \subseteq added',
         conn = "off" => present' = {} /\ added' = {}
  PROVE  MetersTyped' /\ Silent' /\ OnlyWanted' /\ Announced' /\ Aimed'
<1>1. CASE subscribers # {}
  BY <1>1, AfterSync DEF LayoutChanged
<1>2. CASE subscribers = {}
  <2>1. queued \subseteq queued' /\ "layout" \in queued' /\ UNCHANGED meters
    BY <1>2 DEF LayoutChanged
  <2>2. MetersTyped' /\ Silent' /\ OnlyWanted'
    BY <2>1 DEF IInv, TypeOK, MetersTyped, Silent, OnlyWanted, TickFor, meters
  <2>3. Announced'
    BY <2>1 DEF IInv, Announced, meters
  <2>4. Aimed'
    BY <1>2, <2>1 DEF Aimed
  <2>5. QED
    BY <2>2, <2>3, <2>4
<1>3. QED
  BY <1>1, <1>2

\* How the queue grows in LayoutChanged.
LEMMA LayoutChangedQueues ==
  ASSUME NEW lst, NEW duck, NEW flg, NEW more, LayoutChanged(lst, duck, flg, more)
  PROVE  queued' \subseteq queued \cup {"layout"} \cup more
BY DEF LayoutChanged

\* The bounds are numbers, and an event stays within its own.
LEMMA Bounds ==
  /\ MaxEvents \in Nat /\ MaxLosses \in Nat
  /\ TypeOK /\ Event => events' \in 0..MaxEvents
<1>1. MaxEvents \in Nat /\ MaxLosses \in Nat
  BY LevelsAssumption DEF LevelsAssumption
<1>2. QED
  BY <1>1 DEF TypeOK, Event

LEMMA InitIInv == Init => IInv
<1> SUFFICES ASSUME Init PROVE IInv
  OBVIOUS
<1>1. TypeOK
  <2>1. events \in 0..MaxEvents /\ losses \in 0..MaxLosses /\ made \in Nat /\ loud \in 0..made
    BY Bounds DEF Init
  <2>2. duckedBy \in [Channels -> Channels \cup {None}]
    BY DEF Init
  <2>3. QED
    BY <2>1, <2>2 DEF Init, TypeOK, Strips, Nodes
<1>2. Silent /\ OnlyWanted /\ Announced
  BY DEF Init, Silent, OnlyWanted, Announced, TickFor
<1>3. Aimed
  BY DEF Init, Aimed, Targets, Triggers
<1>4. QED
  BY <1>1, <1>2, <1>3 DEF IInv

LEMMA SubscribeStep ==
  ASSUME IInv, NEW k \in Clients, Subscribe(k)
  PROVE  IInv'
<1>. events' \in 0..MaxEvents
  BY Bounds DEF Subscribe, IInv
<1> USE DEF Subscribe, desk, graph
<1>1. CASE k \in subscribers
  BY <1>1 DEF IInv, TypeOK, Silent, OnlyWanted, Announced, Aimed, TickFor, meters
<1>2. CASE k \notin subscribers
  <2>1. Sync(subscribers', listed', duckedBy', flagged')
    BY <1>2
  <2>2. MetersTyped' /\ Silent' /\ OnlyWanted' /\ Announced' /\ Aimed'
    BY <2>1, AfterSync DEF IInv, TypeOK, Silent
  <2>3. TypeOK'
    BY <1>2, <2>2 DEF IInv, TypeOK, MetersTyped
  <2>4. QED
    BY <2>2, <2>3 DEF IInv
<1>3. QED
  BY <1>1, <1>2

LEMMA UnsubscribeStep ==
  ASSUME IInv, NEW k \in Clients, Unsubscribe(k)
  PROVE  IInv'
<1>. events' \in 0..MaxEvents
  BY Bounds DEF Unsubscribe, IInv
<1> USE DEF Unsubscribe, desk, graph
<1>1. CASE subscribers' = {}
  <2>1. TypeOK' /\ Silent' /\ OnlyWanted' /\ Announced'
    BY <1>1 DEF IInv, TypeOK, Silent, OnlyWanted, Announced, TickFor, meters
  <2>2. Aimed'
    BY <1>1, TargetsOfWatchers DEF IInv, Aimed, meters
  <2>3. QED
    BY <2>1, <2>2 DEF IInv
<1>2. CASE subscribers' # {}
  <2>1. Sync(subscribers', listed', duckedBy', flagged')
    BY <1>2
  <2>2. MetersTyped' /\ Silent' /\ OnlyWanted' /\ Announced' /\ Aimed'
    BY <2>1, AfterSync DEF IInv, TypeOK, Silent
  <2>3. TypeOK'
    BY <1>2, <2>2 DEF IInv, TypeOK, MetersTyped
  <2>4. QED
    BY <2>2, <2>3 DEF IInv
<1>3. QED
  BY <1>1, <1>2

LEMMA LeavesStep ==
  ASSUME IInv, NEW k \in Clients, Leaves(k)
  PROVE  IInv'
<1>. events' \in 0..MaxEvents
  BY Bounds DEF Leaves, IInv
<1> USE DEF Leaves, desk, graph, meters
<1>1. teardown' \in BOOLEAN
  OBVIOUS
<1>2. TypeOK'
  BY <1>1 DEF IInv, TypeOK
<1>3. Silent' /\ OnlyWanted' /\ Announced'
  BY DEF IInv, Silent, OnlyWanted, Announced, TickFor
<1>4. Aimed'
  BY TargetsOfWatchers DEF IInv, Aimed
<1>5. QED
  BY <1>2, <1>3, <1>4 DEF IInv

LEMMA TeardownStep ==
  ASSUME IInv, Teardown
  PROVE  IInv'
<1>1. MetersTyped' /\ Silent' /\ OnlyWanted' /\ Announced' /\ Aimed'
  BY AfterSync DEF Teardown, desk, graph, IInv, TypeOK, Silent
<1>2. TypeOK'
  BY <1>1 DEF IInv, TypeOK, MetersTyped, Teardown, desk, graph
<1>3. QED
  BY <1>1, <1>2 DEF IInv
\* The deferred calls.  Whichever runs, what it was queued for is settled: by
\* Sync, by having been settled for the subscribers, or by building.
LEMMA LaterStep ==
  ASSUME IInv, NEW job \in queued, Later(job)
  PROVE  IInv'
<1> USE DEF Later, desk, graph
<1>0. job \in {"layout", "channel", "build", "connected"}
  BY DEF IInv, TypeOK
<1>1. CASE Sync(subscribers, listed, duckedBy, flagged)
  <2>1. MetersTyped' /\ Silent' /\ OnlyWanted' /\ Announced' /\ Aimed'
    BY <1>1, AfterSync DEF IInv, TypeOK, Silent
  <2>2. TypeOK'
    BY <2>1 DEF IInv, TypeOK, MetersTyped
  <2>3. QED
    BY <2>1, <2>2 DEF IInv
<1>2. CASE job = "layout" /\ subscribers # {} /\ UNCHANGED meters
  BY <1>2 DEF IInv, TypeOK, Silent, OnlyWanted, Announced, Aimed, TickFor, meters
<1>3. CASE job \in {"build", "connected"} /\ \E wl \in {wantedLoud, flagged} :
             SetTargets(wanted, wl) /\ (job = "build" => wl = wantedLoud)
  <2>1. PICK wl \in {wantedLoud, flagged} :
          SetTargets(wanted, wl) /\ (job = "build" => wl = wantedLoud)
    BY <1>3
  <2>2. SetTargetsServes(wanted, wl) /\ wl \in BOOLEAN
    BY <2>1, SetTargetsLemma DEF IInv, TypeOK
  <2>3. MetersTyped' /\ Silent' /\ OnlyWanted' /\ Announced'
    BY <2>2 DEF SetTargetsServes, MetersTyped, IInv, TypeOK, Silent, OnlyWanted,
                Announced, TickFor
  <2>4. Aimed'
    BY <1>3, <2>1, <2>2 DEF SetTargetsServes, IInv, Aimed
  <2>5. TypeOK'
    BY <2>3 DEF IInv, TypeOK, MetersTyped
  <2>6. QED
    BY <2>3, <2>4, <2>5 DEF IInv
<1>4. CASE job = "connected" /\ conn = "off" /\ UNCHANGED meters
  BY <1>4 DEF IInv, TypeOK, Silent, OnlyWanted, Announced, Aimed, TickFor, meters
<1>5. QED
  BY <1>0, <1>1, <1>2, <1>3, <1>4

LEMMA AddChannelStep ==
  ASSUME IInv, NEW c \in Channels, AddChannel(c)
  PROVE  IInv'
<1>. events' \in 0..MaxEvents
  BY Bounds DEF AddChannel, IInv
<1> USE DEF AddChannel, graph
<1>1. layout' \subseteq Channels /\ listed' \subseteq Strips
  BY DEF IInv, TypeOK, Strips
<1>2. CASE conn = "off"
  BY <1>1, <1>2 DEF IInv, TypeOK, Silent, OnlyWanted, Announced, Aimed, TickFor, meters
<1>3. CASE conn # "off"
  <2>1. LayoutChanged(listed', duckedBy', flagged', {})
    BY <1>3
  <2>2. MetersTyped' /\ Silent' /\ OnlyWanted' /\ Announced' /\ Aimed'
    BY <1>1, <2>1, AfterLayoutChanged DEF IInv, TypeOK, Silent
  <2>3. queued' \subseteq queued \cup {"layout"}
    BY <2>1, LayoutChangedQueues
  <2>4. TypeOK'
    BY <1>1, <2>2, <2>3 DEF IInv, TypeOK, MetersTyped
  <2>5. QED
    BY <2>2, <2>4 DEF IInv
<1>4. QED
  BY <1>2, <1>3

LEMMA RemoveChannelStep ==
  ASSUME IInv, NEW c \in Channels, RemoveChannel(c)
  PROVE  IInv'
<1>. events' \in 0..MaxEvents
  BY Bounds DEF RemoveChannel, IInv
<1> USE DEF RemoveChannel, graph
<1>1. /\ layout' \subseteq Channels /\ listed' \subseteq Strips
      /\ duckedBy' \in [Channels -> Channels \cup {None}]
  BY DEF IInv, TypeOK
<1>2. LayoutChanged(listed', duckedBy', flagged', {})
  OBVIOUS
<1>3. MetersTyped' /\ Silent' /\ OnlyWanted' /\ Announced' /\ Aimed'
  BY <1>1, <1>2, AfterLayoutChanged DEF IInv, TypeOK, Silent
<1>4. queued' \subseteq queued \cup {"layout"}
  BY <1>2, LayoutChangedQueues
<1>5. TypeOK'
  BY <1>1, <1>3, <1>4 DEF IInv, TypeOK, MetersTyped
<1>6. QED
  BY <1>3, <1>5 DEF IInv

LEMMA SetDuckingStep ==
  ASSUME IInv, NEW c \in Channels, NEW t \in Channels \cup {None}, SetDucking(c, t)
  PROVE  IInv'
<1>. events' \in 0..MaxEvents
  BY Bounds DEF SetDucking, IInv
<1> USE DEF SetDucking, graph, meters
<1>1. duckedBy' \in [Channels -> Channels \cup {None}]
  BY DEF IInv, TypeOK
<1>2. TypeOK'
  BY <1>1 DEF IInv, TypeOK
<1>3. Silent' /\ OnlyWanted' /\ Announced' /\ Aimed'
  BY DEF IInv, Silent, OnlyWanted, Announced, Aimed, TickFor
<1>4. QED
  BY <1>2, <1>3 DEF IInv

LEMMA SetMixLoudnessStep ==
  ASSUME IInv, SetMixLoudness
  PROVE  IInv'
<1>. events' \in 0..MaxEvents
  BY Bounds DEF SetMixLoudness, IInv
<1> USE DEF SetMixLoudness, graph
<1>1. flagged' \in BOOLEAN
  BY DEF IInv, TypeOK
<1>2. LayoutChanged(listed', duckedBy', flagged', {})
  OBVIOUS
<1>3. MetersTyped' /\ Silent' /\ OnlyWanted' /\ Announced' /\ Aimed'
  BY <1>1, <1>2, AfterLayoutChanged DEF IInv, TypeOK, Silent
<1>4. queued' \subseteq queued \cup {"layout"}
  BY <1>2, LayoutChangedQueues
<1>5. TypeOK'
  BY <1>1, <1>3, <1>4 DEF IInv, TypeOK, MetersTyped
<1>6. QED
  BY <1>3, <1>5 DEF IInv
LEMMA NodeArrivesStep ==
  ASSUME IInv, NEW n \in Nodes, NodeArrives(n)
  PROVE  IInv'
<1> DEFINE more == IF n \in Channels THEN {"channel"} ELSE {}
<1> USE DEF NodeArrives
<1>1. /\ listed' \subseteq Strips /\ present' \subseteq Nodes /\ added' \subseteq Nodes
      /\ conn # "off" /\ present' \subseteq present \cup added' /\ added \subseteq added'
      /\ more \subseteq {"channel"}
  BY DEF IInv, TypeOK
<1>2. /\ MetersTyped' /\ Silent' /\ OnlyWanted' /\ Announced' /\ Aimed'
      /\ queued' \subseteq queued \cup {"layout"} \cup more
  <2>1. CASE listed' # listed
    <3>1. LayoutChanged(listed', duckedBy', flagged', more)
      BY <2>1
    <3>2. queued' \subseteq queued \cup {"layout"} \cup more
      BY <3>1, LayoutChangedQueues
    <3>3. QED
      BY <1>1, <3>1, <3>2, AfterLayoutChanged DEF IInv, TypeOK
  <2>2. CASE listed' = listed
    <3>1. UNCHANGED meters /\ queued' = queued \cup more
      BY <2>2
    <3>2. QED
      BY <1>1, <2>2, <3>1 DEF IInv, TypeOK, MetersTyped, Silent, OnlyWanted,
                              Announced, Aimed, TickFor, meters
  <2>3. QED
    BY <2>1, <2>2
<1>3. TypeOK'
  BY <1>1, <1>2 DEF IInv, TypeOK, MetersTyped
<1>4. QED
  BY <1>2, <1>3 DEF IInv

\* What was announced by a queued nodeAdded is now announced by a queued build.
LEMMA NodeAddedStep ==
  ASSUME IInv, NEW n \in Nodes, NodeAdded(n)
  PROVE  IInv'
<1> USE DEF NodeAdded, desk, meters
<1>1. TypeOK' /\ Silent' /\ OnlyWanted' /\ Aimed'
  BY DEF IInv, TypeOK, Silent, OnlyWanted, Aimed, TickFor
<1>2. Announced'
  BY DEF IInv, Announced
<1>3. QED
  BY <1>1, <1>2 DEF IInv

LEMMA NodeGoesStep ==
  ASSUME IInv, NEW n \in Nodes, NodeGoes(n)
  PROVE  IInv'
<1>. events' \in 0..MaxEvents
  BY Bounds DEF NodeGoes, IInv, TypeOK
<1>1. /\ present' = present \ {n} /\ linked' = linked \ {n}
      /\ gone' = gone \cup ({n} \cap wanted)
      /\ UNCHANGED <<conn, layout, listed, duckedBy, flagged, added, subscribers,
                     teardown, queued, wanted, streams, wantedLoud, loud, made, tick,
                     losses>>
  BY DEF NodeGoes, desk, levels, meters
<1>2. QED
  BY <1>1 DEF IInv, TypeOK, Silent, OnlyWanted, Announced, Aimed, TickFor

LEMMA PwLostStep ==
  ASSUME IInv, PwLost
  PROVE  IInv'
<1> USE DEF PwLost
<1>1. losses' \in 0..MaxLosses
  BY Bounds DEF IInv, TypeOK
<1>2. /\ wanted' \subseteq Nodes /\ wantedLoud' \in BOOLEAN
      /\ queued' \subseteq {"layout", "channel", "build", "connected"}
  BY DEF IInv, TypeOK
<1>3. TypeOK'
  BY <1>1, <1>2 DEF IInv, TypeOK
<1>4. Silent' /\ OnlyWanted' /\ Announced'
  BY DEF Silent, OnlyWanted, Announced, TickFor
<1>5. Aimed'
  BY DEF Aimed, Targets, Triggers
<1>6. QED
  BY <1>3, <1>4, <1>5 DEF IInv

LEMMA PwConnectsStep ==
  ASSUME IInv, PwConnects
  PROVE  IInv'
BY DEF PwConnects, desk, meters, IInv, TypeOK, Silent, OnlyWanted, Announced,
       Aimed, TickFor

LEMMA ReconcileStep ==
  ASSUME IInv, Reconcile
  PROVE  IInv'
<1> USE DEF Reconcile
<1>1. listed' \subseteq Strips /\ conn # "off" /\ conn' = "on"
  BY DEF IInv, TypeOK, Strips
<1>2. LayoutChanged(listed', duckedBy', flagged', {})
  OBVIOUS
<1>3. MetersTyped' /\ Silent' /\ OnlyWanted' /\ Announced' /\ Aimed'
  BY <1>1, <1>2, AfterLayoutChanged DEF IInv, TypeOK
<1>4. queued' \subseteq queued \cup {"layout"}
  BY <1>2, LayoutChangedQueues
<1>5. TypeOK'
  BY <1>1, <1>3, <1>4 DEF IInv, TypeOK, MetersTyped
<1>6. QED
  BY <1>3, <1>5 DEF IInv

\* Every step of the specification keeps the invariant.
LEMMA NextIInv == IInv /\ [Next]_vars => IInv'
<1> SUFFICES ASSUME IInv, [Next]_vars PROVE IInv'
  OBVIOUS
<1>1. ASSUME NEW k \in Clients, Subscribe(k) \/ Unsubscribe(k) \/ Leaves(k)
      PROVE  IInv'
  BY <1>1, SubscribeStep, UnsubscribeStep, LeavesStep
<1>2. CASE Teardown
  BY <1>2, TeardownStep
<1>3. ASSUME NEW job \in queued, Later(job)
      PROVE  IInv'
  BY <1>3, LaterStep
<1>4. ASSUME NEW c \in Channels, AddChannel(c) \/ RemoveChannel(c)
      PROVE  IInv'
  BY <1>4, AddChannelStep, RemoveChannelStep
<1>5. ASSUME NEW c \in Channels, NEW t \in Channels \cup {None}, SetDucking(c, t)
      PROVE  IInv'
  BY <1>5, SetDuckingStep
<1>6. CASE SetMixLoudness
  BY <1>6, SetMixLoudnessStep
<1>7. ASSUME NEW n \in Nodes, NodeArrives(n) \/ NodeAdded(n) \/ NodeGoes(n)
      PROVE  IInv'
  BY <1>7, NodeArrivesStep, NodeAddedStep, NodeGoesStep
<1>8. CASE PwLost \/ PwConnects \/ Reconcile
  BY <1>8, PwLostStep, PwConnectsStep, ReconcileStep
<1>9. CASE UNCHANGED vars
  BY <1>9 DEF IInv, TypeOK, Silent, OnlyWanted, Announced, Aimed, TickFor,
              vars, desk, graph, levels, meters
<1>10. QED
  BY <1>1, <1>2, <1>3, <1>4, <1>5, <1>6, <1>7, <1>8, <1>9 DEF Next

\* The invariant holds in every state.
LEMMA Invariance == Spec => []IInv
BY InitIInv, NextIInv, PTL DEF Spec

\* The subscribers, the queued calls, the snapshot and the meters stay in their
\* types (LevelsAdaptor, service.cpp; Meters, meters.cpp).
THEOREM TypeCorrect == Spec => []TypeOK
<1>1. IInv => TypeOK
  BY DEF IInv
<1>2. QED
  BY <1>1, Invariance, PTL

\* With nothing left to run, what is due has its stream, linked to its node
\* unless that node left while it was metered (node.dont-reconnect, meters.cpp
\* 177-178); what is not due has none three seconds after the last subscriber,
\* the analyser runs exactly for a mix that asked for it, and the tick fits what
\* runs (syncTargets() and its callers, service.cpp 327-423; Meters::setTargets(),
\* build() and onNodeAdded(), meters.cpp 206-343): for every set of channels and
\* of subscribers.
THEOREM MetersAlwaysServe == Spec => []MetersServe
<1>1. IInv => MetersServe
  <2> SUFFICES ASSUME IInv, Quiet PROVE MetersServe
    BY DEF MetersServe
  <2> DEFINE due == Targets(subscribers, listed, duckedBy)
  <2>1. due \subseteq wanted /\ (~teardown => wanted = due) /\ wantedLoud = flagged
    BY DEF IInv, Aimed, Quiet
  <2>2. /\ wanted \cap present \subseteq streams /\ streams \subseteq wanted
        /\ streams \ linked \subseteq gone
        /\ Mix \in present => (loud # 0 <=> wantedLoud)
        /\ tick = TickFor(streams, loud)
    BY DEF IInv, Announced, OnlyWanted, Quiet
  <2> HIDE DEF due
  <2>3. /\ due \cap present \subseteq streams
        /\ due \cap (present \ gone) \subseteq linked
        /\ ~teardown => streams \subseteq due
    BY <2>1, <2>2
  <2>4. QED
    BY <2>1, <2>2, <2>3 DEF MetersServe, due
<1>2. QED
  BY <1>1, Invariance, PTL

\* setLoudnessTargets() leaves a running analyser alone as long as its mix is
\* wanted (meters.cpp 306-343): no step of a subscriber, of the desk or of
\* PipeWire, short of its loss, replaces or ends an analyser whose mix is still
\* flagged.
THEOREM WindowsKept == Spec => AnalysersKeepTheirWindows
<1> DEFINE Given == loud \notin {0, loud'} => ~flagged' \/ conn' = "off"
<1>1. IInv /\ [Next]_vars => Given
  <2> SUFFICES ASSUME IInv, [Next]_vars, loud # 0, loud' # loud
               PROVE  ~flagged' \/ conn' = "off"
    OBVIOUS
  <2>1. ASSUME NEW subs, NEW lst \in SUBSET Strips,
               NEW duck \in [Channels -> Channels \cup {None}],
               NEW flg \in BOOLEAN, Sync(subs, lst, duck, flg)
        PROVE  ~flg
    BY <2>1, SyncLemma DEF SetTargetsServes
  <2>2. UNCHANGED meters => FALSE
    BY DEF meters
  <2>3. wantedLoud /\ flagged \in BOOLEAN /\ wanted \in SUBSET Nodes
        /\ listed \in SUBSET Strips /\ duckedBy \in [Channels -> Channels \cup {None}]
    BY DEF IInv, OnlyWanted, TypeOK
  <2>4. listed' \in SUBSET Strips /\ duckedBy' \in [Channels -> Channels \cup {None}]
        /\ flagged' \in BOOLEAN
    BY NextIInv DEF IInv, TypeOK
  <2>5. ASSUME NEW more, LayoutChanged(listed', duckedBy', flagged', more)
        PROVE  ~flagged'
    BY <2>1, <2>2, <2>4, <2>5 DEF LayoutChanged
  <2>6. ASSUME NEW k \in Clients, Subscribe(k) \/ Unsubscribe(k) \/ Leaves(k)
        PROVE  ~flagged'
    BY <2>1, <2>2, <2>3, <2>6 DEF Subscribe, Unsubscribe, Leaves, desk
  <2>7. CASE Teardown
    BY <2>1, <2>3, <2>7 DEF Teardown, desk
  <2>8. ASSUME NEW job \in queued, Later(job)
        PROVE  ~flagged'
    <3>1. ASSUME NEW wl \in BOOLEAN, SetTargets(wanted, wl)
          PROVE  ~wl
      BY <2>3, <3>1, SetTargetsLemma DEF SetTargetsServes
    <3>2. job \in {"layout", "channel", "build", "connected"} /\ wantedLoud \in BOOLEAN
      BY DEF IInv, TypeOK
    <3>3. flagged' = flagged
      BY <2>8 DEF Later, desk
    <3>4. QED
      BY <2>1, <2>2, <2>3, <2>8, <3>1, <3>2, <3>3 DEF Later
  <2>9. ASSUME NEW c \in Channels, AddChannel(c) \/ RemoveChannel(c)
        PROVE  ~flagged'
    BY <2>2, <2>5, <2>9 DEF AddChannel, RemoveChannel
  <2>10. ASSUME NEW c \in Channels, NEW t \in Channels \cup {None}, SetDucking(c, t)
         PROVE  ~flagged'
    BY <2>2, <2>10 DEF SetDucking
  <2>11. CASE SetMixLoudness
    BY <2>5, <2>11 DEF SetMixLoudness
  <2>12. ASSUME NEW n \in Nodes, NodeArrives(n) \/ NodeAdded(n) \/ NodeGoes(n)
         PROVE  ~flagged'
    BY <2>2, <2>5, <2>12 DEF NodeArrives, NodeAdded, NodeGoes
  <2>13. CASE PwLost \/ PwConnects \/ Reconcile
    BY <2>2, <2>5, <2>13 DEF PwLost, PwConnects, Reconcile
  <2>14. CASE UNCHANGED vars
    BY <2>2, <2>14 DEF vars
  <2>15. QED
    BY <2>6, <2>7, <2>8, <2>9, <2>10, <2>11, <2>12, <2>13, <2>14 DEF Next
<1>2. IInv /\ [Next]_vars => [Given]_vars
  BY <1>1
<1>3. QED
  BY <1>2, Invariance, PTL DEF Spec, AnalysersKeepTheirWindows
=============================================================================
