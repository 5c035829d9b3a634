------------------------------ MODULE Streams ------------------------------
(***************************************************************************)
(* What sounds into a channel, and what moves it: applications (CH-4 to    *)
(* CH-6, CH-12), the pads of a soundboard (CT-8) and the track of a        *)
(* playback (CT-10), while the effect chain in front of the channel is     *)
(* switched.  Sources: src/src/mixer.cpp and src/src/pipewire/sampler.cpp. *)
(*                                                                         *)
(* PipeWire makes and removes nodes later than it is asked, so whatever    *)
(* waits for a chain polls the graph, and the graph still lists nodes that *)
(* are on their way out.  WirePlumber links a stream to its target, or to  *)
(* what it remembers of the application, and the daemon hears of it in a   *)
(* queued streamRouted.                                                    *)
(***************************************************************************)
EXTENDS Integers, Sequences, FiniteSets, SequencesExt

CONSTANTS Channels,     \* channels, and the names of their plain sinks
          Default,      \* m_layout.defaultChannel, or None
          Board,        \* the channel that is a soundboard
          Decks,        \* the channels whose chain and playback are used
          Samples,      \* samples that may be on it
          Alike,        \* per channel, those whose slug begins with its slug
          Apps,         \* streams
          KeyOf,        \* appKey: application.name of a stream
          Names,        \* node names
          NameOf,       \* node.name of a stream, which several may share
          None,         \* no target, no entry
          Gone,         \* a target that left the graph
          Elsewhere,    \* a sink that is none of ours
          Restored,     \* sinks WirePlumber may put a stream on unasked
          MaxNodes,     \* chains and relays at a time
          MaxVoices,    \* voices at a time
          MaxEvents,    \* commands, arrivals and departures together
          MaxChains     \* of them, changes of a chain

Keys == {KeyOf[s] : s \in Apps}

ASSUME StreamsAssumption ==
    /\ IsFiniteSet(Channels) /\ Decks \subseteq Channels /\ Board \in Channels
    /\ Default \in Channels \cup {None}
    /\ Alike \in [Channels -> SUBSET Channels] /\ \A c \in Channels : c \in Alike[c]
    /\ NameOf \in [Apps -> Names] /\ Restored \subseteq Channels \cup {Elsewhere}
    /\ {MaxNodes, MaxVoices, MaxEvents, MaxChains} \subseteq Nat

\* what the graph hands out as ids is no name, and no name stands for another
ASSUME NamesAssumption ==
    /\ Channels \cap (1..MaxNodes) = {} /\ None \notin Names
    /\ None # Gone /\ None # Elsewhere /\ Gone # Elsewhere
    /\ {None, Gone, Elsewhere} \cap (Channels \cup (1..MaxNodes)) = {}

VARIABLES
    active,     \* channels whose chain is active, as saved
    nodes,      \* chains and relays of PipeWire
    waits,      \* what waits for a chain, 50 ms at a time
    apps,       \* m_apps
    shown,      \* App.channels
    target,     \* target.object in the metadata
    link,       \* the sink a stream is linked to: Graph's routes
    routed,     \* streamRouted events on their way to the Mixer
    home,       \* per key, the channels of its LayoutApp; <<>>: no entry
    named,      \* per key, LayoutApp.nodeName
    known,      \* m_layout.knownApps
    pending,    \* m_pendingAutoRoute
    samples,    \* the samples of Board
    voices,     \* Sampler's voices
    track,      \* per channel, where its sounding track goes, or None
    chosen,     \* history: keys the user has given a channel
    pressed,    \* history: pads pressed, and neither stopped nor at their end
    hurried,    \* history: chains changed, or swept away with another, before
                \* the last change was through
    tripped,    \* history: relays lost to how the code looks for them
    events, chains

chain   == <<active, waits, hurried, chains>>
routing == <<apps, shown, routed, home, named, known, pending, chosen, tripped>>
where   == <<target, link>>
board   == <<samples, voices, pressed>>
vars    == <<chain, nodes, routing, where, board, track, events>>

Event == events < MaxEvents /\ events' = events + 1

-----------------------------------------------------------------------------
(* Nodes.  A plain sink is named by its channel and always stands; a chain *)
(* or a relay is a record, and PipeWire gives freed ids out again.         *)

Fx(c)          == [kind |-> "fx", channel |-> c, key |-> None, from |-> None]
Relay(k, c, x) == [kind |-> "relay", channel |-> c, key |-> k, from |-> x]

Roles == {Fx(c) : c \in Channels}
           \cup {Relay(k, c, x) : k \in Keys, c \in Channels, x \in Names}
States == {"loading", "there", "dying"}
Ids   == 1..MaxNodes
Refs  == Channels \cup Ids \cup {None, Gone, Elsewhere}

\* Graph::node: dying nodes are listed until PipeWire confirms
Listed(ns) == {n \in ns : n.state # "loading"}

\* of two nodes of one name, which one the hash gives is anybody's guess
Twin(some, older) == CHOOSE n \in some : \A m \in some :
                        IF older THEN n.id <= m.id ELSE n.id >= m.id

\* Graph::destroyObject: asked of PipeWire, once
Destroyed(ns, some) ==
    {IF n \in some THEN [n EXCEPT !.state = "dying"] ELSE n : n \in ns}

\* Graph::loadLoopback
Room(ns, more) == Cardinality(ns) + more <= MaxNodes
Loaded(ns, role) ==
    LET id == CHOOSE i \in Ids : \A n \in ns : n.id # i
    IN  ns \cup {[id |-> id, role |-> role, state |-> "loading"]}

\* kmixdeck.fx.<c>, as the graph lists it
Entries(c) == {n \in Listed(nodes) : n.role = Fx(c)}

\* what goes when the chain of c is changed: every node whose name begins with
\* that of its entry
Swept(c) == UNION {Entries(d) : d \in Alike[c]}

\* fxTarget(): where sound enters a channel
FxTarget(c, older) == IF c \in active /\ Entries(c) # {}
                        THEN Twin(Entries(c), older).id ELSE c

\* channelEntry() is the chain even before it is there; moveStream() then fails
CanEnter(c) == c \notin active \/ Entries(c) # {}

\* moveStream(): the target becomes the serial of a listed node
Moved(some, ref) == [s \in Apps |-> IF s \in some \cap apps THEN ref
                                                           ELSE target[s]]

\* slugForSinkId(): a channel is its sink, or the chain in front of it
ChannelAt(ref) == {c \in Channels : ref = c}
                    \cup {n.role.channel : n \in {m \in nodes :
                            m.id = ref /\ m.role.kind = "fx"}}
Live(ref) == SetToSeq(ChannelAt(ref))

-----------------------------------------------------------------------------
(* Relays of an application that is on more than one channel.              *)

Extras(chans) == Range(Tail(chans))
RelaysOf(ns, k, c) ==
    {n \in Listed(ns) : n.role.kind = "relay" /\ n.role.key = k /\ n.role.channel = c}

\* removeAppRelays(): the playback half of each, as far as it is listed
Standing(ns, k, chans, older) ==
    IF Len(chans) < 2 THEN {} ELSE
      {Twin(RelaysOf(ns, k, c), older) :
         c \in {d \in Extras(chans) : RelaysOf(ns, k, d) # {}}}
RemoveAppRelays(ns, k, chans, older) ==
    Destroyed(ns, Standing(ns, k, chans, older))

\* a relay that captures the right node is left alone, dying or not; one that
\* captures another node is destroyed and loaded anew, all in one go
EnsureOne(ns, k, c, from, older) ==
    LET seen == RelaysOf(ns, k, c)
        one  == Twin(seen, older)
    IN  IF seen # {} /\ one.role.from = from THEN ns
        ELSE Loaded(IF seen = {} THEN ns ELSE Destroyed(ns, {one}),
                    Relay(k, c, from))

\* ensureAppRelays(): while its node is there, else they are taken down
EnsureAppRelays(ns, k, chans, from, there, older) ==
    IF Len(chans) < 2 THEN ns
    ELSE IF from \notin there THEN RemoveAppRelays(ns, k, chans, older)
    ELSE FoldLeft(LAMBDA acc, c : EnsureOne(acc, k, c, from, older),
                  ns, Tail(chans))

\* the streams of a key whose node name its entry has
Owners(k) == {s \in apps : KeyOf[s] = k /\ NameOf[s] = named[k]}

\* history: relays that go with one stream though another of its name plays on
BereftOf(s) ==
    {p \in Keys \X Channels :
       /\ Len(home[p[1]]) > 1 /\ p[2] \in Extras(home[p[1]])
       /\ NameOf[s] = named[p[1]] /\ Owners(p[1]) \ {s} # {}
       /\ RelaysOf(nodes, p[1], p[2]) # {}}

\* history: relays somebody looks at while one that captures the same node still
\* stands in the graph, on its way out: since earlier, or since a line before
TrippedOver(k, chans, from, renewed) ==
    IF Len(chans) < 2 THEN {}
    ELSE {<<k, c>> : c \in {d \in Extras(chans) :
             \E n \in RelaysOf(nodes, k, d) :
                 n.role.from = from /\ (n.state = "dying" \/ d \in renewed)}}


\* only when the extra channels change: what is destroyed is still listed when
\* ensureAppRelays() looks a line later
Renewed(old, new) == Len(old) > 1 /\ Tail(old) # Tail(new)

-----------------------------------------------------------------------------
(* Applications.                                                           *)

\* the assignment of the layout, when there is one, else the live link
Shown(s, ref) == IF home[KeyOf[s]] # <<>> THEN home[KeyOf[s]] ELSE Live(ref)

\* onNode(), a stream that is new: autoRouteNewApp() only notes it, and the
\* layout's entry follows the node to its new name
AppAppears(s, older) ==
    LET k == KeyOf[s]
        several == Len(home[k]) > 1
        renamed == several /\ named[k] # NameOf[s]
        freed   == IF renamed THEN RemoveAppRelays(nodes, k, home[k], older)
                              ELSE nodes
    IN  /\ Event /\ s \notin apps /\ Room(nodes, Cardinality(Channels))
        /\ apps' = apps \cup {s}
        /\ shown' = [shown EXCEPT ![s] = Shown(s, None)]
        /\ pending' = IF k \notin known /\ Default # None THEN pending \cup {s}
                                                          ELSE pending
        /\ named' = [named EXCEPT ![k] = IF renamed THEN NameOf[s] ELSE @]
        /\ nodes' = IF several THEN EnsureAppRelays(freed, k, home[k], NameOf[s],
                                           {NameOf[x] : x \in apps'}, older)
                               ELSE nodes
        /\ tripped' = IF several
              THEN {p \in tripped : p[1] # k} \cup TrippedOver(k, home[k], NameOf[s],
                       IF renamed THEN Extras(home[k]) ELSE {})
              ELSE tripped
        /\ UNCHANGED <<chain, routed, home, known, chosen, where, board, track>>

\* onNodeRemoved(): the relays of every entry of that node name are taken down,
\* whether or not another stream has the name, too
AppVanishes(s, older) ==
    /\ Event /\ s \in apps
    /\ apps' = apps \ {s}
    /\ pending' = pending \ {s}
    /\ nodes' = Destroyed(nodes, UNION {Standing(nodes, k, home[k], older) :
                                          k \in {x \in Keys : named[x] = NameOf[s]}})
    /\ tripped' = tripped \cup BereftOf(s)
    /\ target' = [target EXCEPT ![s] = None]
    /\ link' = [link EXCEPT ![s] = None]
    /\ routed' = [routed EXCEPT ![s] = <<>>]
    /\ shown' = [shown EXCEPT ![s] = <<>>]
    /\ UNCHANGED <<chain, home, named, known, chosen, board, track>>

\* WirePlumber: to the target, if it stands; a new stream goes where it was
\* last, and one whose target has left goes elsewhere
Link(s) ==
    /\ s \in apps /\ Len(routed[s]) < 2
    /\ \E ref \in CASE target[s] \in Channels -> {target[s]}
                    [] target[s] \in Ids -> {target[s]}
                    [] target[s] = Gone -> {Elsewhere}
                    [] OTHER -> IF link[s] \in {None, Gone}
                                  THEN Restored ELSE {} :
         /\ ref # link[s]
         /\ link' = [link EXCEPT ![s] = ref]
         /\ routed' = [routed EXCEPT ![s] = Append(@, ref)]
    /\ UNCHANGED <<chain, nodes, apps, shown, home, named, known, pending,
                   chosen, tripped, target, board, track, events>>

\* Mutant: what was learnt since the stream was noted is not asked for again.
StillUnknownThen(k) == TRUE

\* between the note and the link another stream of the key may have been placed
StillUnknown(k) == k \notin known

\* onStreamRouted() and, in the same call, finishAutoRoute()
StreamRouted(s, older) ==
    LET k    == KeyOf[s]
        here == Shown(s, routed[s][1])
        asks == s \in pending /\ StillUnknown(k)
        goes == asks /\ here = <<>> /\ CanEnter(Default)
    IN  /\ routed[s] # <<>>
        /\ routed' = [routed EXCEPT ![s] = Tail(@)]
        /\ pending' = pending \ {s}
        /\ known' = IF goes \/ (asks /\ here # <<>>) THEN known \cup {k}
                                                    ELSE known
        /\ shown' = [shown EXCEPT ![s] = IF goes THEN <<Default>> ELSE here]
        /\ target' = IF goes THEN Moved({s}, FxTarget(Default, older)) ELSE target
        /\ UNCHANGED <<chain, nodes, apps, home, named, chosen, tripped, link,
                       board, track, events>>

\* Mutant: what is there already is not looked for.
MergedTwice(now, entry, want) == now \o SelectSeq(want, LAMBDA c : c \notin Range(entry))

\* what it is on now, then what its entry says, then what is wanted
With(list, c) == IF c \in Range(list) THEN list ELSE Append(list, c)
Merged(now, entry, want) == FoldLeft(With, FoldLeft(With, now, entry), want)

\* assignApp() with somewhere to go; moveApp() is one of these
Assign(s, want, addOn, older) ==
    LET k   == KeyOf[s]
        old == home[k]
        new == IF addOn THEN Merged(shown[s], old, want) ELSE want
        freed == IF Renewed(old, new) THEN RemoveAppRelays(nodes, k, old, older)
                                      ELSE nodes
        changed == Len(old) > 1 /\ Tail(old) # Tail(new)
    IN  /\ Event /\ s \in apps /\ new # <<>> /\ CanEnter(new[1])
        /\ Room(nodes, Cardinality(Channels))
        /\ target' = Moved({s}, FxTarget(new[1], older))
        /\ pending' = pending \ {s}
        /\ home' = [home EXCEPT ![k] = new]
        /\ named' = [named EXCEPT ![k] = NameOf[s]]
        /\ known' = known \cup {k}
        /\ nodes' = EnsureAppRelays(freed, k, new, NameOf[s],
                                    {NameOf[x] : x \in apps}, older)
        /\ shown' = [shown EXCEPT ![s] = new]
        /\ chosen' = chosen \cup {k}
        /\ tripped' = {p \in tripped : p[1] # k}
              \cup TrippedOver(k, new, NameOf[s],
                               IF changed THEN Extras(old) ELSE {})
        /\ UNCHANGED <<chain, apps, routed, link, board, track>>

\* assignApp() with nowhere to go: back to wherever WirePlumber puts it
Unroute(s, older) ==
    LET k == KeyOf[s] IN
    /\ Event /\ s \in apps
    /\ nodes' = RemoveAppRelays(nodes, k, home[k], older)
    /\ home' = [home EXCEPT ![k] = <<>>]
    /\ named' = [named EXCEPT ![k] = None]
    /\ target' = [target EXCEPT ![s] = None]
    /\ shown' = [shown EXCEPT ![s] = <<>>]
    /\ UNCHANGED <<chain, apps, routed, known, pending, chosen, tripped, link,
                   board, track>>

-----------------------------------------------------------------------------
(* Chains.  A wait is a singleShot(50) that looks again; it gives up after *)
(* some tries.  The first try of a playback's wait is one of its ticks.    *)

Wait(what, c, some, old) ==
    [what |-> what, channel |-> c, apps |-> some, old |-> old]
Waits == [what : {"apps", "samples", "track", "back"}, channel : Channels,
          apps : SUBSET Apps, old : Ids \cup {None}]

Playing(c) == track[c] # None

\* Mutant: every sample of the board is started again.
RestartedAll(vs) == samples

\* restartSoundingSamples() asks the Sampler now, not when the chain was changed
Restarted(vs) == {v.sample : v \in vs} \cap samples

\* a voice is stopped and played anew at the entry; its file may be gone
Replayed(vs, names, ref, fail) ==
    {v \in vs : v.sample \notin names}
      \cup {[sample |-> n, nth |-> 1, at |-> ref, done |-> FALSE] :
              n \in names \ fail}

\* the entry as it is when the chain is changed
Entry(c, older) ==
    IF Entries(c) = {} THEN None ELSE Twin(Entries(c), older).id

\* applyFx(), the chain switched off: the streams return to the plain sink,
\* and nobody looks after the pads
ChainOff(c, some) ==
    /\ active' = active \ {c}
    /\ nodes' = Destroyed(nodes, Swept(c))
    /\ target' = Moved(some, c)
    /\ waits' = IF Playing(c) THEN waits \cup {Wait("back", c, {}, None)}
                              ELSE waits
    /\ UNCHANGED voices

\* applyFx(), another chain: the old one goes, the new one loads, and whatever
\* finds an entry of that name, be it the old one, takes it
ChainOn(c, some, older, fail) ==
    LET old  == Entry(c, older)
        boardSounds == c = Board /\ voices # {}
        late == IF old # None THEN {} ELSE
                  (IF some # {} THEN {Wait("apps", c, some, None)} ELSE {})
                  \cup (IF boardSounds THEN {Wait("samples", c, {}, None)} ELSE {})
    IN  /\ active' = active \cup {c}
        /\ nodes' = Loaded(Destroyed(nodes, Swept(c)), Fx(c))
        /\ target' = IF old # None THEN Moved(some, old) ELSE target
        /\ voices' = IF old # None /\ boardSounds
                       THEN Replayed(voices, Restarted(voices), old, fail)
                       ELSE voices
        /\ waits' = waits \cup late
              \cup (IF Playing(c) THEN {Wait("track", c, {}, old)} ELSE {})

\* setFxChain(): on, off or another topology (the same one only writes its
\* controls), with the streams found on the entry or on the plain sink
SetFxChain(c, on, older, fail) ==
    LET some == {s \in apps : link[s] \in {c, Entry(c, older)} \ {None}}
    IN  /\ Event /\ chains < MaxChains /\ chains' = chains + 1
        /\ on \/ c \in active
        /\ Room(nodes, 1)
        /\ IF on THEN ChainOn(c, some, older, fail) ELSE ChainOff(c, some)
        /\ hurried' = hurried
              \cup {d \in Alike[c] : \E w \in waits : w.channel = d}
              \cup {d \in {c} : \E n \in nodes : n.role = Fx(d) /\ n.state # "there"}
        /\ UNCHANGED <<routing, link, samples, pressed, track>>

Ticks(w) == w \in waits /\ waits' = waits \ {w}

\* retargetWhenPresent(): the streams remembered when the chain was changed
RetargetTick(w, older) ==
    /\ w.what = "apps" /\ Entries(w.channel) # {} /\ Ticks(w)
    /\ target' = Moved(w.apps, Entry(w.channel, older))
    /\ UNCHANGED <<active, hurried, chains, nodes, routing, link, board, track,
                   events>>

\* restartSoundingSamples(): to the entry the channel has by now
RestartTick(w, older, fail) ==
    /\ w.what = "samples" /\ CanEnter(w.channel) /\ Ticks(w)
    /\ voices' = Replayed(voices, Restarted(voices), FxTarget(w.channel, older),
                          fail)
    /\ UNCHANGED <<active, hurried, chains, nodes, routing, where, samples,
                   pressed, track, events>>

\* Mutant: any node of the name will do.
AnyEntry(w, n) == n.id \in Ids

\* movePlaybackWhenPresent(): another node than the one that had to go
Successor(w, n) == n.id # w.old

PlaybackTick(w, older) ==
    LET c == w.channel IN
    /\ Ticks(w)
    /\ \/ w.what = "back" /\ track' = [track EXCEPT ![c] = IF Playing(c) THEN c
                                                                        ELSE None]
       \/ /\ w.what = "track" /\ Entries(c) # {}
          /\ LET n == Twin(Entries(c), older)
             IN  /\ Successor(w, n)
                 /\ track' = [track EXCEPT ![c] = IF Playing(c) THEN n.id
                                                                ELSE None]
    /\ UNCHANGED <<active, hurried, chains, nodes, routing, where, board, events>>

\* the tries are used up, or nothing plays any more
GivesUp(w) ==
    /\ Ticks(w)
    /\ UNCHANGED <<active, hurried, chains, nodes, routing, where, board, track,
                   events>>

-----------------------------------------------------------------------------
(* The soundboard and its voices.                                          *)

\* playSample(): through the chain, if it is there
PlaySample(n, older) ==
    LET ref == FxTarget(Board, older) IN
    /\ Event /\ n \in samples
    /\ \E nth \in 1..MaxVoices :
         /\ \A v \in voices : v.sample = n => v.nth # nth
         /\ \A m \in 1..(nth - 1) : \E v \in voices : v.sample = n /\ v.nth = m
         /\ voices' = voices \cup {[sample |-> n, nth |-> nth, at |-> ref,
                                    done |-> FALSE]}
    /\ pressed' = pressed \cup {n}
    /\ UNCHANGED <<chain, nodes, routing, where, samples, track>>

\* addSample(): what the probe could open
AddSample(n) ==
    /\ Event /\ n \notin samples
    /\ samples' = samples \cup {n}
    /\ UNCHANGED <<chain, nodes, routing, where, voices, pressed, track>>

\* Sampler::stop(): every voice of the name
Stopped(n) == {v \in voices : v.sample # n}

StopSample(n) ==
    /\ Event /\ Stopped(n) # voices
    /\ voices' = Stopped(n)
    /\ pressed' = pressed \ {n}
    /\ UNCHANGED <<chain, nodes, routing, where, samples, track>>

RemoveSample(n) ==
    /\ Event /\ n \in samples
    /\ samples' = samples \ {n}
    /\ voices' = Stopped(n)
    /\ pressed' = pressed \ {n}
    /\ UNCHANGED <<chain, nodes, routing, where, track>>

\* onProcess() on the audio thread: the last block is in the buffer.  A voice
\* does not survive its target, and then it is never done.
VoiceDone(v) ==
    /\ v \in voices /\ ~v.done /\ v.at # Gone
    /\ voices' = (voices \ {v}) \cup {[v EXCEPT !.done = TRUE]}
    /\ UNCHANGED <<chain, nodes, routing, where, samples, pressed, track, events>>

\* the reaper, every 100 ms
Reap ==
    /\ \E v \in voices : v.done
    /\ voices' = {v \in voices : ~v.done}
    /\ pressed' = pressed \cap {v.sample : v \in voices'}
    /\ UNCHANGED <<chain, nodes, routing, where, samples, track, events>>

-----------------------------------------------------------------------------
(* A playback, as far as the chain matters, and PipeWire.                  *)

\* Player::started, into the plain sink while an active chain is still loading
TrackStarts(c, older) ==
    /\ Event /\ ~Playing(c)
    /\ track' = [track EXCEPT ![c] = FxTarget(c, older)]
    /\ waits' = IF CanEnter(c) THEN waits
                               ELSE waits \cup {Wait("track", c, {}, None)}
    /\ UNCHANGED <<active, hurried, chains, nodes, routing, where, board>>

TrackEnds(c) ==
    /\ Event /\ Playing(c)
    /\ track' = [track EXCEPT ![c] = None]
    /\ UNCHANGED <<chain, nodes, routing, where, board>>

\* with an id of PipeWire's choice: maybe that of a node which has left, and
\* which a wait still remembers
NodeArrives(n) ==
    /\ n \in nodes /\ n.state = "loading"
    /\ \E i \in {n.id} \cup ({w.old : w \in waits} \ {None}) :
         /\ \A m \in nodes \ {n} : m.id # i
         /\ nodes' = (nodes \ {n}) \cup {[n EXCEPT !.id = i, !.state = "there"]}
    /\ UNCHANGED <<chain, routing, where, board, track, events>>

\* whoever was bound to it is left without; the links go, and say so
NodeLeaves(n) ==
    LET Left(ref)  == IF ref = n.id THEN Gone ELSE ref
        lost == {s \in apps : link[s] = n.id}
    IN  /\ n \in nodes /\ n.state = "dying"
        /\ \A s \in lost : Len(routed[s]) < 2
        /\ nodes' = nodes \ {n}
        /\ target' = [s \in Apps |-> Left(target[s])]
        /\ link' = [s \in Apps |-> IF s \in lost THEN None ELSE link[s]]
        /\ routed' = [s \in Apps |-> IF s \in lost THEN Append(routed[s], None)
                                     ELSE [i \in DOMAIN routed[s] |->
                                             Left(routed[s][i])]]
        /\ voices' = {[v EXCEPT !.at = Left(@)] : v \in voices}
        /\ track' = [c \in Channels |-> Left(track[c])]
        /\ UNCHANGED <<chain, apps, shown, home, named, known, pending, chosen,
                       tripped, samples, pressed, events>>

-----------------------------------------------------------------------------
Init ==
    /\ active = {} /\ nodes = {} /\ waits = {} /\ hurried = {} /\ chains = 0
    /\ apps = {} /\ pending = {} /\ known = {} /\ chosen = {} /\ tripped = {}
    /\ shown  = [s \in Apps |-> <<>>]
    /\ target = [s \in Apps |-> None]
    /\ link   = [s \in Apps |-> None]
    /\ routed = [s \in Apps |-> <<>>]
    /\ home   = [k \in Keys |-> <<>>]
    /\ named  = [k \in Keys |-> None]
    /\ samples = Samples /\ voices = {} /\ pressed = {}
    /\ track = [c \in Channels |-> None]
    /\ events = 0

Users ==
    \/ \E s \in Apps, older \in BOOLEAN :
         \/ AppAppears(s, older)
         \/ AppVanishes(s, older)
         \/ Unroute(s, older)
         \/ \E c \in Channels, addOn \in BOOLEAN : Assign(s, <<c>>, addOn, older)
    \/ \E c \in Decks, on, older \in BOOLEAN, fail \in SUBSET Samples :
         SetFxChain(c, on, older, fail)
    \/ \E n \in Samples : \/ \E older \in BOOLEAN : PlaySample(n, older)
                          \/ AddSample(n) \/ StopSample(n) \/ RemoveSample(n)
    \/ \E c \in Decks : \/ \E older \in BOOLEAN : TrackStarts(c, older)
                        \/ TrackEnds(c)

System ==
    \/ \E s \in Apps : Link(s) \/ \E older \in BOOLEAN : StreamRouted(s, older)
    \/ \E w \in waits, older \in BOOLEAN :
         \/ RetargetTick(w, older) \/ PlaybackTick(w, older) \/ GivesUp(w)
         \/ \E fail \in SUBSET Samples : RestartTick(w, older, fail)
    \/ \E v \in voices : VoiceDone(v)
    \/ Reap
    \/ \E n \in nodes : NodeArrives(n) \/ NodeLeaves(n)

Next == Users \/ System

Spec == Init /\ [][Next]_vars

\* PipeWire answers, and Qt's event loop runs
Fairness ==
    /\ WF_vars(\E n \in nodes : NodeArrives(n) \/ NodeLeaves(n))
    /\ WF_vars(\E s \in Apps, older \in BOOLEAN : StreamRouted(s, older))

FairSpec == Spec /\ Fairness

-----------------------------------------------------------------------------
(* Properties.                                                             *)

Node == [id : Ids, state : States, role : Roles]
Voice == [sample : Samples, nth : 1..MaxVoices, at : Refs \ {None},
          done : BOOLEAN]
Lists == {s \in UNION {[1..n -> Channels] : n \in 0..Cardinality(Channels)} :
            IsInjective(s)}

\* No channel is listed twice for an application, no two nodes share an id, no
\* stream that has left is waited for its first link, and only voices, streams
\* and tracks that exist have a target.
TypeOK ==
    /\ active \subseteq Channels /\ nodes \subseteq Node
    /\ \A m, n \in nodes : m.id = n.id => m = n
    /\ waits \subseteq Waits
    /\ apps \subseteq Apps /\ pending \subseteq apps
    /\ shown \in [Apps -> Lists] /\ home \in [Keys -> Lists]
    /\ target \in [Apps -> Refs] /\ link \in [Apps -> Refs \ {Gone}]
    /\ routed \in [Apps -> Seq(Refs)] /\ \A s \in Apps : Len(routed[s]) <= 2
    /\ \A s \in Apps \ apps : target[s] = None /\ link[s] = None
    /\ named \in [Keys -> Names \cup {None}]
    /\ \A k \in Keys : named[k] = None <=> home[k] = <<>>
    /\ known \subseteq Keys /\ chosen \subseteq known
    /\ samples \subseteq Samples /\ voices \subseteq Voice
    /\ track \in [Channels -> Refs \ {Elsewhere}]
    /\ hurried \subseteq Channels /\ tripped \subseteq Keys \X Channels
    /\ events \in 0..MaxEvents /\ chains \in 0..MaxChains

\* A stream is noted for the default channel when it appears and sent there
\* when it is first linked.  Whatever happens in between, a stream of an
\* application the user has given a channel is not sent anywhere by that.
ChoiceIsFinal ==
    [][\A s \in apps \cap apps' :
          /\ s \in pending \ pending' /\ events' = events
          /\ KeyOf[s] \in chosen
          => target'[s] = target[s]]_vars

\* A pad sounds because somebody pressed it: a chain that was switched while it
\* sounded does not bring it back after it was stopped, or ended and was reaped.
NothingRevived == \A v \in voices : v.sample \in pressed

\* A playback that waits for its chain is never moved onto an entry that is on
\* its way out, unless the chain was changed again, or swept away by a change of
\* a channel whose slug its own begins with, before the last change was through.
SuccessorOnly ==
    [][\A c \in Channels \ hurried :
          \/ track'[c] \in {track[c], c, None, Gone}
          \/ track[c] = None
          \/ \E n \in nodes : n.id = track'[c] /\ n.state = "there"]_vars

Heard(k, c) == \E n \in nodes : n.state = "there" /\ n.role = Relay(k, c, named[k])
Assigned(k, c) ==
    Len(home[k]) > 1 /\ c \in Extras(home[k]) /\ Owners(k) # {}
Expected(k, c) == Assigned(k, c) /\ <<k, c>> \notin tripped


=============================================================================
