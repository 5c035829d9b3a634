------------------------------- MODULE Devices -------------------------------
(***************************************************************************)
(* Hardware and its wires: the outputs of a mix with its fallback (MX-9,   *)
(* DV-11, DV-12, DV-15), the inputs of a channel (DV-25) and the mute each *)
(* wire carries (DV-14), while devices are plugged in and out.  Source:    *)
(* src/src/mixer.cpp; the objects Channel and Mix of                       *)
(* src/src/daemon/service.cpp.                                             *)
(*                                                                         *)
(* A wire is a reference to ports of a device; PipeWire carries it over an *)
(* edge, a loopback node that takes time to come and to go, and the daemon *)
(* hears of devices and edges in a queue.  Modules load and PipeWire stays *)
(* up: EdgeReconcile is about the rest.                                    *)
(***************************************************************************)
EXTENDS Integers, Sequences, FiniteSets, SequencesExt

CONSTANTS OutRefs,      \* references to ports of sinks: [node, ports]
          InRefs,       \* references to ports of sources
          Whole,        \* the value of ports in a reference to a whole device
          Null,         \* kmixdeck.null, where an output is parked
          None,         \* no device
          Gone,         \* a routing target that has left
          MaxOuts,      \* outputs of the mix
          MaxWires,     \* inputs of the channel
          MaxEvents     \* commands and changes of devices

Nodes(refs) == {r.node : r \in refs}
Devices     == Nodes(OutRefs) \cup Nodes(InRefs)

ASSUME DevicesAssumption ==
    /\ Null # None /\ Null # Gone /\ None # Gone
    /\ {Null, None, Gone} \cap Devices = {}
    /\ {MaxOuts, MaxWires} \subseteq Nat \ {0} /\ MaxEvents \in Nat

VARIABLES
    there,      \* devices in the graph's snapshot
    seen,       \* m_devices
    outputs,    \* LayoutMix.outputs: references, each with its mute
    fallback,   \* LayoutMix.fallbackOutput, or None
    inputs,     \* LayoutInputs of the channel, each with its slug's number
    edges,      \* the edges, by name
    news,       \* nodeAdded and nodeRemoved on their way to the Mixer
    again,      \* singleShot(0): ensureEdgeLoopbacks(), applyFallbacks()
    raced,      \* history: edges whose wire was changed while they loaded
    events

layout == <<outputs, fallback, inputs>>
vars   == <<there, seen, layout, edges, news, again, raced, events>>

Event == events < MaxEvents /\ events' = events + 1

-----------------------------------------------------------------------------
(* Wires and edges.                                                        *)

\* EdgeNames: outputNode(mix, n), inputNode(slug).  The channel's own slug is
\* its primary input, number 0; further wires are "<channel>.w<N>".
Out(n) == <<"out", n>>
In(n)  == <<"in", n>>
OutNames == {Out(n) : n \in 0..(MaxOuts - 1)}
InNames  == {In(n) : n \in 0..(MaxWires - 1)}
Names    == OutNames \cup InNames

\* no hardware is named like an edge
ASSUME NamesAssumption == Devices \cap Names = {}

Wire(ref)      == [ref |-> ref, muted |-> FALSE]
Input(n, ref)  == [slug |-> n, ref |-> ref, muted |-> FALSE]
Parked         == [node |-> Null, ports |-> Whole]

\* state of the node; what it was loaded for; where it was last moved; its
\* mute; and whether its name is in m_nodeRequested
Absent == [state |-> "none", ref |-> Parked, aim |-> None, muted |-> FALSE,
           asked |-> FALSE]

\* Graph::node: an edge on its way out is still listed
InGraph(e) == e.state \in {"up", "dying"}

\* Graph::destroyObject
Destroyed(es, ns) ==
    [n \in Names |-> IF n \in ns /\ es[n].state = "up"
                       THEN [es[n] EXCEPT !.state = "dying"] ELSE es[n]]

\* requestNullNode(), loadLoopback(): once, until the node has been seen
Requested(e, ref) ==
    IF InGraph(e) \/ e.asked THEN e
    ELSE [state |-> "loading", ref |-> ref, aim |-> None, muted |-> FALSE, asked |-> TRUE]

\* ensureEdgeLoopbackForInput(): "never BUILD an edge while its device is absent"
EnsureInput(es, i, known) ==
    IF i.ref.node \in known
      THEN [es EXCEPT ![In(i.slug)] = Requested(@, i.ref)] ELSE es

\* one after the other: of two wires of a slug the first would be asked for
EnsureInputs(es, ins, known) ==
    LET Own(n) == {k \in DOMAIN ins : In(ins[k].slug) = n /\ ins[k].ref.node \in known}
    IN  [n \in Names |-> IF Own(n) = {} THEN es[n]
                          ELSE Requested(es[n], ins[Min(Own(n))].ref)]

\* ensureEdgeLoopbacks(): the first output edge exists always
EnsureEdges(es, outs, ins, known) ==
    LET Carried(n) == n = Out(0) \/ \E k \in DOMAIN outs : n = Out(k - 1)
        Target(n)  == IF outs = <<>> THEN Parked ELSE outs[n[2] + 1].ref
    IN  [n \in Names |-> IF Carried(n) THEN Requested(es[n], Target(n))
                                        ELSE EnsureInputs(es, ins, known)[n]]

\* the first output that is visible, then the fallback, then the parking sink
Pick(outs, fall, known) ==
    LET present == {n \in DOMAIN outs : outs[n].ref.node \in known}
    IN  IF present # {}
          THEN outs[Min(present)].ref.node
        ELSE IF fall \in known THEN fall ELSE Null

\* Mutant: stays where it is as long as that device is there.
ApplyFallbacksSticky(es, outs, fall, known) ==
    LET to == Pick(outs, fall, known)
    IN  IF InGraph(es[Out(0)]) /\ to \in there \cup {Null} /\ es[Out(0)].aim \notin known
          THEN [es EXCEPT ![Out(0)].aim = to] ELSE es

\* applyFallbacks(): only the first edge is moved, if it is in the graph and its
\* new target still is (Graph::moveStream)
ApplyFallbacks(es, outs, fall, known) ==
    LET to == Pick(outs, fall, known)
    IN  IF InGraph(es[Out(0)]) /\ to \in there \cup {Null}
          THEN [es EXCEPT ![Out(0)].aim = to] ELSE es

\* validateDeviceRef(): a device the Mixer knows, and ports the graph shows
Valid(ref) == ref.node \in seen /\ (ref.ports # Whole => ref.node \in there)

\* sameWire(): a whole device stands for any of its ports
SameWire(ref, asked) ==
    ref = asked \/ (asked.ports = Whole /\ ref.node = asked.node)

\* QList::removeIf: what stays of a list, the indices in some
Kept(list, some) ==
    LET upTo[n \in 0..Len(list)] ==
          IF n = 0 THEN <<>>
          ELSE IF n \in some THEN Append(upTo[n - 1], list[n]) ELSE upTo[n - 1]
    IN  upTo[Len(list)]

-----------------------------------------------------------------------------
(* The outputs of the mix.                                                 *)

Ports(outs, n) == IF n \in DOMAIN outs THEN outs[n].ref.ports ELSE Whole

\* setMixOutputs(): an edge whose ports change is destroyed and built again when
\* its removal is confirmed, any other is kept
SetMixOutputs(es, outs) ==
    LET changed == {Out(n - 1) : n \in {k \in 1..MaxOuts :
                                          Ports(outputs, k) # Ports(outs, k)}}
    IN  ApplyFallbacks(EnsureEdges(Destroyed(es, changed), outs, inputs, seen),
                       outs, fallback, seen)

Outputs(outs) ==
    /\ outputs' = outs
    /\ edges' = SetMixOutputs(edges, outs)
    /\ UNCHANGED <<there, seen, fallback, inputs, news, again, raced>>

\* MixObject::setOutputDevice, setMixOutputDevice(): the first output; none at
\* all clears the list
SetOutputDevice(ref) ==
    /\ Event /\ Valid(ref)
    /\ Outputs(<<Wire(ref)>> \o Tail(IF outputs = <<>> THEN <<ref>> ELSE outputs))

ClearOutputs == Event /\ Outputs(<<>>)

\* MixObject::AddOutput
AddOutput(ref) ==
    /\ Event /\ Valid(ref) /\ Len(outputs) < MaxOuts
    /\ \A n \in DOMAIN outputs : outputs[n].ref # ref
    /\ Outputs(Append(outputs, Wire(ref)))

\* MixObject::RemoveOutput
RemoveOutput(ref) ==
    LET left == Kept(outputs, {n \in DOMAIN outputs : ~SameWire(outputs[n].ref, ref)})
    IN  Event /\ left # outputs /\ Outputs(left)

\* setMixFallbackOutput()
SetFallback(d) ==
    /\ Event /\ fallback' = d
    /\ edges' = ApplyFallbacks(edges, outputs, d, seen)
    /\ UNCHANGED <<there, seen, outputs, inputs, news, again, raced>>

Muted(es, n, on) ==
    IF es[n].state = "up" THEN [es EXCEPT ![n].muted = on] ELSE es

\* setMixWireTrim(), setMixOutputVolume(): the wire first, then the edge if it
\* is there
MuteOutput(ref, on) ==
    LET hit == {n \in DOMAIN outputs : SameWire(outputs[n].ref, ref)}
        n   == Min(hit)
    IN  /\ Event /\ hit # {} /\ outputs[n].muted # on
        /\ outputs' = [outputs EXCEPT ![n].muted = on]
        /\ edges' = Muted(edges, Out(n - 1), on)
        /\ UNCHANGED <<there, seen, fallback, inputs, news, again, raced>>

-----------------------------------------------------------------------------
(* The inputs of the channel.                                              *)

Has(ins, n)  == \E k \in DOMAIN ins : ins[k].slug = n
Drop(ins, n) == Kept(ins, {k \in DOMAIN ins : ins[k].slug # n})

\* what a command gives up or changes while its edge is loading comes up all the
\* same, as it was asked for
Raced(ns) == raced' = raced \cup {n \in ns : edges[n].state = "loading"}

\* removeInput()
RemoveInput(n) ==
    /\ inputs' = Drop(inputs, n)
    /\ edges' = Destroyed(edges, {In(n)})
    /\ Raced({In(n)})

\* the edge is built with its new target at once, or when the removal of the
\* old one is confirmed
Rebuilt(es, ins, ref) ==
    IF InGraph(es[In(0)]) THEN Destroyed(es, {In(0)})
                          ELSE EnsureInput(es, Input(0, ref), seen)

\* setChannelInputDevice() on what is left of the inputs, with a reference that
\* is valid
Primary(es, ins, ref) ==
    IF \E k \in DOMAIN ins : ins[k].slug = 0 /\ ins[k].ref = ref
      THEN inputs' = ins /\ edges' = es
    ELSE IF Has(ins, 0)
      THEN /\ inputs' = [k \in DOMAIN ins |-> IF ins[k].slug = 0
                                                THEN Input(0, ref) ELSE ins[k]]
           /\ edges' = Rebuilt(es, ins, ref)
    ELSE /\ inputs' = Append(ins, Input(0, ref))
         /\ edges' = EnsureInput(es, Input(0, ref), seen)

Rest == UNCHANGED <<there, seen, outputs, fallback, news, again>>

\* setChannelInputDevice() with nothing: only the primary goes
ClearInputDevice == Event /\ Has(inputs, 0) /\ RemoveInput(0) /\ Rest

SetInputDevice(ref) ==
    /\ Event /\ Valid(ref)
    /\ \A k \in DOMAIN inputs : inputs[k].slug = 0 => inputs[k].ref # ref
    /\ Len(Drop(inputs, 0)) < MaxWires
    /\ Primary(edges, inputs, ref)
    /\ Raced({In(0)}) /\ Rest

\* Mutant: numbers the wires as they come.
SlugByCount(free) == Len(inputs)

\* the first wire is the primary, a further one gets the lowest free number
FreeSlug(free) == IF inputs = <<>> THEN 0 ELSE Min(free)

\* addChannelInput()
AddChannelInput(ref) ==
    LET free == {n \in 1..(MaxWires - 1) : ~Has(inputs, n)}
        slug == FreeSlug(free)
    IN  /\ Event /\ Valid(ref) /\ (inputs = <<>> \/ free # {})
        /\ \A k \in DOMAIN inputs : inputs[k].ref # ref
        /\ inputs' = Append(inputs, Input(slug, ref))
        /\ edges' = EnsureInput(edges, Input(slug, ref), seen)
        /\ Raced({In(slug)}) /\ Rest

\* Mutant: promotes the next wire and leaves it where it was as well.
PromoteCopy(next) ==
    IF Valid(next.ref) THEN Primary(edges, inputs, next.ref)
                       ELSE UNCHANGED <<inputs, edges>>

\* the next wire becomes the primary: it is removed first, and then not set if
\* its device is not there
Promote(next) ==
    LET left == Drop(inputs, next.slug)
        es   == Destroyed(edges, {In(next.slug)})
    IN  IF Valid(next.ref) THEN Primary(es, left, next.ref)
                           ELSE inputs' = left /\ edges' = es

\* removeChannelInput()
RemoveChannelInput(ref) ==
    LET hit   == {k \in DOMAIN inputs : inputs[k].ref = ref}
        i     == inputs[Min(hit)]
        later == Drop(inputs, 0)
    IN  /\ Event /\ hit # {}
        /\ IF i.slug # 0 \/ later = <<>>
             THEN RemoveInput(i.slug)
             ELSE Promote(later[1]) /\ Raced({In(0), In(later[1].slug)})
        /\ Rest

\* inputSlugForWire(): the primary first, setChannelWireTrim(), setInputVolume()
MuteInput(ref, on) ==
    LET hit == {k \in DOMAIN inputs : SameWire(inputs[k].ref, ref)}
        k   == CHOOSE m \in hit : \/ inputs[m].slug = 0
                                  \/ /\ \A q \in hit : inputs[q].slug # 0
                                     /\ \A q \in hit : m <= q
    IN  /\ Event /\ hit # {} /\ inputs[k].muted # on
        /\ inputs' = [inputs EXCEPT ![k].muted = on]
        /\ edges' = Muted(edges, In(inputs[k].slug), on)
        /\ UNCHANGED raced /\ Rest

\* firstRunApply(): the desktop's default sink and source
FirstRun(sink, source) ==
    LET adopts == outputs = <<>>
        wires  == inputs = <<>> /\ Valid(source)
        es     == IF adopts THEN SetMixOutputs(edges, <<Wire(sink)>>) ELSE edges
    IN  /\ Event /\ sink.node \in seen /\ (adopts \/ wires)
        /\ outputs' = IF adopts THEN <<Wire(sink)>> ELSE outputs
        /\ inputs' = IF wires THEN <<Input(0, source)>> ELSE inputs
        /\ edges' = IF wires THEN EnsureInput(es, Input(0, source), seen) ELSE es
        /\ Raced(IF wires THEN {In(0)} ELSE {})
        /\ UNCHANGED <<there, seen, fallback, news, again>>

-----------------------------------------------------------------------------
(* PipeWire.                                                               *)

Tell(what, name) == news' = Append(news, <<what, name>>)

DeviceArrives(d) ==
    /\ Event /\ d \notin there
    /\ there' = there \cup {d}
    /\ Tell("added", d)
    /\ UNCHANGED <<seen, layout, edges, again, raced>>

\* an edge waits for a device of its name, not for the one it was moved to
DeviceLeaves(d) ==
    /\ Event /\ d \in there
    /\ there' = there \ {d}
    /\ edges' = [n \in Names |-> IF edges[n].aim = d
                                   THEN [edges[n] EXCEPT !.aim = Gone] ELSE edges[n]]
    /\ Tell("removed", d)
    /\ UNCHANGED <<seen, layout, again, raced>>

EdgeArrives(n) ==
    /\ edges[n].state = "loading"
    /\ edges' = [edges EXCEPT ![n].state = "up"]
    /\ Tell("added", n)
    /\ UNCHANGED <<there, seen, layout, again, raced, events>>

EdgeLeaves(n) ==
    /\ edges[n].state = "dying"
    /\ edges' = [edges EXCEPT ![n] = [Absent EXCEPT !.asked = edges[n].asked]]
    /\ raced' = raced \ {n}
    /\ Tell("removed", n)
    /\ UNCHANGED <<there, seen, layout, again, events>>

-----------------------------------------------------------------------------
(* The Mixer hears of it.                                                  *)

Hear(what) == news # <<>> /\ news[1][1] = what /\ news' = Tail(news)
Named      == news[1][2]

\* Mutant: only the fallbacks are applied.
DeviceAddedOutputsOnly ==
    /\ Hear("added") /\ Named \in Devices
    /\ seen' = seen \cup {Named}
    /\ edges' = IF Named \in seen THEN edges
                ELSE ApplyFallbacks(edges, outputs, fallback, seen')
    /\ UNCHANGED <<there, layout, again, raced, events>>

\* onNode(), a device: "appearance -> re-pick outputs and inputs"
DeviceAdded ==
    /\ Hear("added") /\ Named \in Devices
    /\ seen' = seen \cup {Named}
    /\ edges' = IF Named \in seen THEN edges
                ELSE EnsureInputs(ApplyFallbacks(edges, outputs, fallback, seen'),
                                  inputs, seen')
    /\ UNCHANGED <<there, layout, again, raced, events>>

\* onNodeRemoved(), a device
DeviceRemoved ==
    /\ Hear("removed") /\ Named \in Devices
    /\ seen' = seen \ {Named}
    /\ edges' = ApplyFallbacks(edges, outputs, fallback, seen')
    /\ UNCHANGED <<there, layout, again, raced, events>>

\* the mute its wire has in the layout, FALSE when no wire is its own
WireMuted(n) ==
    \/ n \in OutNames /\ n[2] + 1 \in DOMAIN outputs /\ outputs[n[2] + 1].muted
    \/ n \in InNames /\ \E k \in DOMAIN inputs : inputs[k].slug = n[2] /\ inputs[k].muted

\* onNode(), an edge: it may be requested again, and applyEdgeState() gives it
\* the mute of its wire
EdgeAdded ==
    /\ Hear("added") /\ Named \in Names
    /\ edges' = LET es == [edges EXCEPT ![Named].asked = FALSE]
                IN  IF WireMuted(Named) THEN Muted(es, Named, TRUE) ELSE es
    /\ UNCHANGED <<there, seen, layout, again, raced, events>>

\* onNodeRemoved(), an edge: look again once the queue has been served
EdgeRemoved ==
    /\ Hear("removed") /\ Named \in Names
    /\ again' = TRUE
    /\ UNCHANGED <<there, seen, layout, edges, raced, events>>

LookAgain ==
    /\ again /\ again' = FALSE
    /\ edges' = ApplyFallbacks(EnsureEdges(edges, outputs, inputs, seen),
                               outputs, fallback, seen)
    /\ UNCHANGED <<there, seen, layout, news, raced, events>>

-----------------------------------------------------------------------------
\* a desk that has come up without any wire: the mix is parked
Init ==
    /\ there \in SUBSET Devices /\ seen = there
    /\ outputs = <<>> /\ fallback = None /\ inputs = <<>>
    /\ edges = [n \in Names |-> IF n = Out(0) THEN [Absent EXCEPT !.state = "up"]
                                              ELSE Absent]
    /\ news = <<>> /\ again = FALSE /\ raced = {} /\ events = 0

Commands ==
    \/ \E r \in OutRefs : SetOutputDevice(r) \/ AddOutput(r) \/ RemoveOutput(r)
    \/ \E r \in OutRefs, on \in BOOLEAN : MuteOutput(r, on)
    \/ ClearOutputs
    \/ \E d \in Nodes(OutRefs) \cup {None} : d # fallback /\ SetFallback(d)
    \/ \E r \in InRefs : SetInputDevice(r) \/ AddChannelInput(r) \/ RemoveChannelInput(r)
    \/ \E r \in InRefs, on \in BOOLEAN : MuteInput(r, on)
    \/ ClearInputDevice
    \/ \E sink \in OutRefs, source \in InRefs :
          sink.ports = Whole /\ FirstRun(sink, source)

Hears == DeviceAdded \/ DeviceRemoved \/ EdgeAdded \/ EdgeRemoved \/ LookAgain

Next ==
    \/ Commands \/ Hears
    \/ \E d \in Devices : DeviceArrives(d) \/ DeviceLeaves(d)
    \/ \E n \in Names : EdgeArrives(n) \/ EdgeLeaves(n)

Spec == Init /\ [][Next]_vars

-----------------------------------------------------------------------------
(* Properties.                                                             *)

EdgeType == [state : {"none", "loading", "up", "dying"},
             ref : OutRefs \cup InRefs \cup {Parked},
             aim : Devices \cup {Null, None, Gone},
             muted : BOOLEAN, asked : BOOLEAN]

\* No number is given to two wires, an input edge is never moved, and what is
\* loading has been asked for.
TypeOK ==
    /\ there \subseteq Devices /\ seen \subseteq Devices
    /\ outputs \in Seq([ref : OutRefs, muted : BOOLEAN]) /\ Len(outputs) <= MaxOuts
    /\ fallback \in Devices \cup {None}
    /\ inputs \in Seq([slug : 0..(MaxWires - 1), ref : InRefs, muted : BOOLEAN])
    /\ \A k, m \in DOMAIN inputs : inputs[k].slug = inputs[m].slug => k = m
    /\ edges \in [Names -> EdgeType]
    /\ \A n \in Names : edges[n].state = "loading" => edges[n].asked
    /\ \A n \in InNames : edges[n].aim = None
    /\ again \in BOOLEAN /\ raced \subseteq InNames /\ events \in 0..MaxEvents

\* nothing is on its way
Quiet ==
    /\ news = <<>> /\ ~again
    /\ \A n \in Names : edges[n].state \in {"none", "up"}

\* DV-12, DV-15: the mix plays on the first of its outputs that is plugged in,
\* else on its fallback, else nowhere, whatever was plugged in and out or wired
\* meanwhile; an edge that has just come up is left as it was built until the
\* next such change.
MixFollows ==
    Quiet => edges[Out(0)].aim \in {None, Pick(outputs, fallback, there)}

\* DV-12, DV-14, DV-25: every wire of the channel whose device is plugged in is
\* carried, by an edge from the ports it names and with its mute, and no edge
\* carries what is not wired, unless a command came while the edge was loading.
WiresServe ==
    Quiet => \A n \in InNames \ raced :
      LET own == {k \in DOMAIN inputs : In(inputs[k].slug) = n}
      IN  /\ edges[n].state = "up" =>
               \E k \in own : /\ edges[n].ref = inputs[k].ref
                              /\ edges[n].muted = inputs[k].muted
          /\ \A k \in own : inputs[k].ref.node \in there => edges[n].state = "up"

Count(ins, ref) == Cardinality({k \in DOMAIN ins : ins[k].ref = ref})

\* Removing a wire takes away that wire and no other (mixer.cpp:1531: "promote
\* the next wire into the primary slot"), as long as the one that is promoted
\* is plugged in.
RemovalIsExact ==
    [][\A r \in InRefs :
         /\ RemoveChannelInput(r)
         /\ \A k \in DOMAIN inputs : Valid(inputs[k].ref)
         => \A q \in InRefs :
              Count(inputs', q) = Count(inputs, q) - (IF q = r THEN 1 ELSE 0)]_vars

=============================================================================
