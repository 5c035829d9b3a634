------------------------------- MODULE Gain -------------------------------
(***************************************************************************)
(* Who sets the level of a node (src/src/mixer.cpp: the setters of trims,  *)
(* mutes, pans, mix masters and cells, the ducker, the audition, onNode).  *)
(*                                                                         *)
(* The daemon writes levels to three kinds of nodes and is told, later, of *)
(* every level that changed, its own writes included.  Of a channel it     *)
(* believes what it is told, after dividing out the ducking in force when  *)
(* it is told; of a mix it defends the last level it was asked for, and    *)
(* gives up on a peer that keeps writing; of a chain of cells it defends   *)
(* the layout's gains once the chain has reported them.                    *)
(*                                                                         *)
(* Volumes are attenuations in steps of equal ratio, 0 is full level and   *)
(* Silence no sound, so that a product is a sum.  A chain is looked at for *)
(* one of its cells, muted means the gain Silence.                         *)
(***************************************************************************)
EXTENDS Integers, Sequences, FiniteSets

CONSTANTS
  Channels, Mixes, Chains,  \* nodes of the three kinds
  Group,        \* the channels that share a group name
  Views,        \* what is looked at together: the nodes known at the start, those not yet there,
                \* and the bounds on commands and on writes of another client
  Levels,       \* the attenuations anyone sets
  Silence,      \* the attenuation that counts as no sound
  Depth,        \* how far a ducked channel goes down
  PanSide,      \* what a panned channel loses on the other side
  MaxWrites     \* bound: writes on their way to PipeWire

Sinks == Channels \cup Mixes
Nodes == Sinks \cup Chains
None == [none |-> TRUE]

ASSUME GainAssumption ==
  /\ IsFiniteSet(Nodes) /\ None \notin Nodes
  /\ Views \subseteq [known : SUBSET Nodes, absent : SUBSET Nodes, ops : Nat, foreign : Nat]
  /\ Group \subseteq Channels
  /\ Channels \cap Mixes = {} /\ Chains \cap (Channels \cup Mixes) = {}
  /\ Silence \in Nat /\ Levels \subseteq 0..Silence /\ 0 \in Levels
  /\ {Depth, PanSide, MaxWrites} \subseteq Nat

VARIABLES
  view,      \* the view of this behaviour
  there,     \* the nodes in PipeWire
  node,      \* what they play: left, right, mute
  wire,      \* the daemon's writes PipeWire has not carried out
  events,    \* what changed there and the Qt thread has not handled
  known,     \* m_sinks, m_cellChains
  stored,    \* m_sinks: volume and mute, the faders and buttons
  pan,       \* layout: the channels panned to one side
  ducked, duck, loud,  \* layout: duckedBy; m_duckActive; is the trigger above the threshold
  audition,  \* m_audition: its target and the levels it found, or None
  intent,    \* m_intent of the mixes, or None
  rewrites, age,  \* its counter; seconds since the last rewrite: 0, 1 to 5, more
  cell,      \* layout: the gain of the cell
  armed,     \* m_cellArmed
  pending,   \* m_pendingCellState of the sinks, or None
  flat,      \* history: the sinks last written as one level for both sides
  ops, foreign

pw == <<there, node, wire>>
ducking == <<ducked, duck, loud>>
guard == <<intent, rewrites, age>>
cells == <<cell, armed>>
bounds == <<ops, foreign>>
vars == <<view, pw, events, known, stored, pan, ducking, audition, guard, cells, pending, flat,
          bounds>>

Level(vol, mute) == [vol |-> vol, mute |-> mute]
Sides(l, r, mute) == [l |-> l, r |-> r, mute |-> mute]
Both(level) == Sides(level.vol, level.vol, level.mute)
Viewed == view.known \cup view.absent
Louder(value) == IF value.l < value.r THEN value.l ELSE value.r

\* onNodeParam: the volume of a node is that of its louder side.
Reported(value) == Level(Louder(value), value.mute)

Clamped(vol) == IF vol < 0 THEN 0 ELSE IF vol > Silence THEN Silence ELSE vol

Init ==
  \E v \in Views :
    /\ view = v
    /\ there = v.known /\ known = v.known
    /\ node = [n \in Nodes |-> Sides(0, 0, FALSE)]
    /\ wire = <<>> /\ events = <<>>
    /\ stored = [n \in Sinks |-> Level(0, FALSE)]
    /\ pan = {} /\ ducked = {} /\ duck = [c \in Channels |-> 0] /\ loud = FALSE
    /\ audition = None
    /\ intent = [m \in Mixes |-> None]
    /\ rewrites = [m \in Mixes |-> 0] /\ age = [m \in Mixes |-> 2]
    /\ cell = [k \in Chains |-> 0] /\ armed = {}
    /\ pending = [n \in Sinks |-> None]
    /\ flat = {}
    /\ ops = 0 /\ foreign = 0
-----------------------------------------------------------------------------
(* Writing *)

Send(n, value, shape) == [node |-> n, value |-> value, shape |-> shape]

\* panGains, applyChannelGain: the fader, the pan and the ducking, at what each of them is now.
ChannelGain(c, faders, panned, factor) ==
  LET v == faders[c].vol + factor[c] IN
    Send(c, Sides(v, IF c \in panned THEN v + PanSide ELSE v, faders[c].mute), "split")

\* applyChannelGain: nothing without the sink.
Driven(c, faders, panned, factor) ==
  IF c \in known THEN <<ChannelGain(c, faders, panned, factor)>> ELSE <<>>

\* writeCell, setVolume: the same for both sides.
Plain(n, level) == Send(n, Both(level), "flat")

Room(n) == Len(wire) + n <= MaxWrites
Writes(sends) == wire' = wire \o sends

\* One write for each node of a set, in whatever order its container has.
Orders(S) == {q \in [1..Cardinality(S) -> S] : {q[i] : i \in DOMAIN q} = S}

Command == ops < view.ops /\ ops' = ops + 1 /\ UNCHANGED <<view, there, node, events, known, foreign>>
OnChannels == UNCHANGED <<guard, cells, pending, audition, flat>>

\* propagateGroupTrim: the same step for everyone, clamped; from or to silence there is no step
\* and the others jump to the level.
GroupTrim(c, old, new) ==
  [n \in Sinks |->
     IF n = c THEN [stored[n] EXCEPT !.vol = new]
     ELSE IF c \in Group /\ n \in Group \cap known
     THEN [stored[n] EXCEPT !.vol =
             IF Silence \in {old, new} THEN new
             ELSE IF @ = Silence THEN @ ELSE Clamped(@ + new - old)]
     ELSE stored[n]]

\* propagateGroupMute.
GroupMute(c, mute) ==
  [n \in Sinks |-> IF n = c \/ (c \in Group /\ n \in Group \cap known)
                   THEN [stored[n] EXCEPT !.mute = mute] ELSE stored[n]]

\* The channel itself, then those of its group whose level changed.
Follow(c, faders) ==
  \E q \in Orders({n \in Channels : n # c /\ faders[n] # stored[n]}) :
    /\ Room(1 + Len(q))
    /\ Writes(<<ChannelGain(c, faders, pan, duck)>>
                \o [i \in DOMAIN q |-> ChannelGain(q[i], faders, pan, duck)])
    /\ stored' = faders

SetChannelTrim(c, vol) ==
  /\ Command
  /\ c \in known
  /\ Follow(c, GroupTrim(c, stored[c].vol, vol))
  /\ UNCHANGED <<pan, ducking>> /\ OnChannels

SetChannelMuted(c, mute) ==
  /\ Command
  /\ c \in known
  /\ Follow(c, GroupMute(c, mute))
  /\ UNCHANGED <<pan, ducking>> /\ OnChannels

SetChannelPan(c, panned) ==
  /\ Command
  /\ c \in Viewed /\ Room(1)
  /\ pan' = IF panned THEN pan \cup {c} ELSE pan \ {c}
  /\ Writes(Driven(c, stored, pan', duck))
  /\ UNCHANGED <<stored, ducking>> /\ OnChannels

\* setDucking, applyDucking: on or off, it starts from unity.
SetDucking(c, on) ==
  /\ Command
  /\ c \in Viewed /\ (c \in ducked) # on /\ Room(1)
  /\ ducked' = IF on THEN ducked \cup {c} ELSE ducked \ {c}
  /\ duck' = [duck EXCEPT ![c] = 0]
  /\ Writes(Driven(c, stored, pan, duck'))
  /\ UNCHANGED <<stored, pan, loud>> /\ OnChannels

\* tickDucking, once per meter tick: one step of the ramp, for one channel.
TickDucking(c) ==
  /\ c \in ducked /\ Room(1)
  /\ duck[c] # (IF loud THEN Depth ELSE 0)
  /\ duck' = [duck EXCEPT ![c] = IF loud THEN @ + 1 ELSE @ - 1]
  /\ Writes(Driven(c, stored, pan, duck'))
  /\ UNCHANGED <<view, there, node, events, known, stored, pan, ducked, loud, bounds>>
  /\ OnChannels

\* The trigger channel gets louder or quieter than the threshold.
TriggerChanges ==
  /\ ducked # {} /\ ops < view.ops /\ ops' = ops + 1
  /\ loud' = ~loud
  /\ UNCHANGED <<view, pw, events, known, stored, pan, ducked, duck, foreign>> /\ OnChannels

\* setMixVolume, setMixMuted: writeCell records the intent, with a fresh counter.
Intend(levels) ==
  /\ intent' = [m \in Mixes |-> IF m \in DOMAIN levels THEN levels[m] ELSE intent[m]]
  /\ rewrites' = [m \in Mixes |-> IF m \in DOMAIN levels THEN 0 ELSE rewrites[m]]
  /\ age' = [m \in Mixes |-> IF m \in DOMAIN levels THEN 2 ELSE age[m]]

SetMix(m, level) ==
  /\ Command
  /\ m \in known /\ Room(1)
  /\ level.vol = stored[m].vol \/ level.mute = stored[m].mute
  /\ stored' = [stored EXCEPT ![m] = level]
  /\ Writes(<<Plain(m, level)>>)
  /\ Intend([x \in {m} |-> level])
  /\ UNCHANGED <<pan, ducking, cells, pending, audition, flat>>

\* writeCellState: the layout, and the chain when the graph has it.
SetCell(k, vol) ==
  /\ Command
  /\ k \in Viewed /\ vol # cell[k] /\ Room(1)
  /\ cell' = [cell EXCEPT ![k] = vol]
  /\ Writes(IF k \in there THEN <<Plain(k, Level(vol, FALSE))>> ELSE <<>>)
  /\ UNCHANGED <<stored, pan, ducking, audition, guard, armed, pending, flat>>
-----------------------------------------------------------------------------
(* Audition *)

\* m_sinks, with some levels written over.
Overlay(faders, f) == [n \in Sinks |-> IF n \in DOMAIN f THEN f[n] ELSE faders[n]]

\* writeCell for sink after sink of a tier; for a channel nobody reads the intent.
WriteTier(levels) == {[i \in DOMAIN q |-> Plain(q[i], levels[q[i]])] : q \in Orders(DOMAIN levels)}

Tier(n) == (IF n \in Channels THEN Channels ELSE Mixes) \cap known

\* What stopAudition writes back: everything the audition found.
Found == IF audition = None THEN [s \in {} |-> None] ELSE audition.saved

\* The target alone at full level, the rest of its tier muted; another audition ends first.
StartAudition(n) ==
  /\ Command
  /\ n \in known \cap Sinks /\ (audition # None => audition.target # n)
  /\ LET before == Overlay(stored, Found)
         solo == [s \in Tier(n) |-> IF s = n THEN Level(0, FALSE) ELSE [before[s] EXCEPT !.mute = TRUE]] IN
       /\ \E back \in WriteTier(Found), sends \in WriteTier(solo) :
            Room(Len(back) + Len(sends)) /\ Writes(back \o sends)
       /\ stored' = Overlay(before, solo)
       /\ Intend([s \in DOMAIN Found \cup DOMAIN solo |-> stored'[s]])
       /\ audition' = [target |-> n, saved |-> [s \in Tier(n) |-> before[s]]]
  /\ UNCHANGED <<pan, ducking, cells, pending, flat>>

StopAudition ==
  /\ Command
  /\ audition # None
  /\ \E back \in WriteTier(Found) : Room(Len(back)) /\ Writes(back)
  /\ stored' = Overlay(stored, Found)
  /\ Intend(Found)
  /\ audition' = None
  /\ UNCHANGED <<pan, ducking, cells, pending, flat>>
-----------------------------------------------------------------------------
(* Undo and import: levels for sinks that come back *)

\* restorePendingCellStates for the sinks of `present`.
Restored(present, wanted) == {n \in present \cap Sinks : wanted[n] # None}

RestoreWrite(n, faders) ==
  IF n \in Channels THEN ChannelGain(n, faders, pan, duck) ELSE Plain(n, faders[n])

\* ... and then the channels that are to be panned.
Restore(present, faders, wanted, panned) ==
  LET now == Restored(present, wanted)
      after == [n \in Sinks |-> IF n \in now THEN wanted[n] ELSE faders[n]] IN
    \E q \in Orders(now), p \in Orders(panned) :
      /\ Room(Len(q) + Len(p))
      /\ Writes([i \in DOMAIN q |-> RestoreWrite(q[i], after)]
                  \o [i \in DOMAIN p |-> ChannelGain(p[i], after, pan, duck)])
      \* a mix keeps what it reported in m_sinks, its intent is what counts
      /\ stored' = [n \in Sinks |-> IF n \in Mixes THEN faders[n] ELSE after[n]]
      /\ pending' = [n \in Sinks |-> IF n \in now THEN None ELSE wanted[n]]

\* importSettings: a level for every sink, those that are there get it at once.
ImportLevels(level) ==
  /\ Command
  /\ LET wanted == [n \in Sinks |-> IF n \in Viewed THEN level ELSE None] IN
       /\ Restore(known, stored, wanted, {})
       /\ Intend([m \in Restored(known, wanted) \cap Mixes |-> level])
  /\ UNCHANGED <<pan, ducking, audition, cells, flat>>
-----------------------------------------------------------------------------
(* onNode, onNodeRemoved *)

Handles(type) == events # <<>> /\ Head(events).type = type
Handled == events' = Tail(events) /\ UNCHANGED <<view, there, node, bounds>>

\* Mutant: the level is believed as reported.
UndividedFader(c, level) == level

\* A channel reports what it is driven at; the ducking in force now is divided out.
Fader(c, level) == [level EXCEPT !.vol = @ - duck[c]]

OnChannel(c, level) ==
  /\ known' = known \cup {c}
  /\ LET faders == [stored EXCEPT ![c] = Fader(c, level)] IN
       IF c \in known
       THEN stored' = faders /\ UNCHANGED <<wire, pending>>
       ELSE Restore(known', faders, pending, pan \cap {c})
  /\ UNCHANGED <<pan, ducking, audition, guard, cells, flat>>

\* Mutant: whoever writes first within a second is given up on.
GivesUpEarly(m) == rewrites[m] >= 1 /\ age[m] > 0

\* enforceIntent gives up: three bursts, none of them in the last second or 5 s ago.
GivesUp(m) == age[m] = 1 /\ rewrites[m] >= 3

\* Mutant: a foreign mute is not noticed.
LouderOrSofter(m, level) == intent[m] # None /\ level.vol # intent[m].vol

Foreign(m, level) == intent[m] \notin {None, level}

\* enforceIntent: another level than intended is put back.
OnMixKnown(m, level) ==
  IF ~Foreign(m, level)
  THEN stored' = [stored EXCEPT ![m] = level] /\ UNCHANGED <<wire, guard>>
  ELSE IF GivesUp(m)
  THEN /\ stored' = [stored EXCEPT ![m] = level]
       /\ intent' = [intent EXCEPT ![m] = None]
       /\ UNCHANGED <<wire, rewrites, age>>
  ELSE /\ Room(1)
       /\ Writes(<<Plain(m, intent[m])>>)
       /\ stored' = [stored EXCEPT ![m] = intent[m]]
       /\ rewrites' = [rewrites EXCEPT ![m] = IF age[m] = 2 THEN 1 ELSE IF age[m] = 1 THEN @ + 1 ELSE @]
       /\ age' = [age EXCEPT ![m] = 0]
       /\ UNCHANGED intent

OnMix(m, level) ==
  /\ known' = known \cup {m}
  /\ IF m \in known
     THEN OnMixKnown(m, level) /\ UNCHANGED <<pending>>
     ELSE /\ Restore(known', [stored EXCEPT ![m] = level], pending, {})
          /\ Intend([x \in Restored(known', pending) \cap Mixes |-> pending[x]])
  /\ UNCHANGED <<pan, ducking, audition, cells, flat>>

\* The guard is live once the chain has reported the layout's gain.
Arms(k, vol) == vol = cell[k]

OnChain(k, vol) ==
  /\ known' = known \cup {k}
  /\ LET restore == IF k \in known THEN k \in armed /\ vol # cell[k] ELSE TRUE IN
       IF restore /\ k \in there
       THEN Room(1) /\ Writes(<<Plain(k, Level(cell[k], FALSE))>>)
       ELSE UNCHANGED wire
  /\ armed' = IF k \in known /\ Arms(k, vol) THEN armed \cup {k} ELSE armed
  /\ UNCHANGED <<stored, pan, ducking, audition, guard, cell, pending, flat>>

OnNode ==
  /\ Handles("node")
  /\ Handled
  /\ LET n == Head(events).node
         level == Head(events).level IN
       \/ n \in Channels /\ OnChannel(n, level)
       \/ n \in Mixes /\ OnMix(n, level)
       \/ n \in Chains /\ OnChain(n, level.vol)

\* Mutant: what was once armed stays armed.
ArmedForGood(n) == armed

Disarmed(n) == armed \ {n}

\* A chain is gone: the next of its name is not armed.
OnNodeRemoved ==
  /\ Handles("removed")
  /\ Handled
  /\ known' = known \ {Head(events).node} /\ armed' = Disarmed(Head(events).node)
  /\ UNCHANGED <<wire, stored, pan, ducking, audition, guard, cell, pending, flat>>
-----------------------------------------------------------------------------
(* PipeWire, another client, time *)

World == UNCHANGED <<view, known, stored, pan, ducking, audition, guard, cells, pending, ops>>

Tells(n, value) ==
  events' = IF Reported(value) = Reported(node[n]) THEN events
            ELSE Append(events, [type |-> "node", node |-> n, level |-> Reported(value)])

WriteLands ==
  /\ wire # <<>>
  /\ LET w == Head(wire) IN
       IF w.node \in there
       THEN /\ node' = [node EXCEPT ![w.node] = w.value]
            /\ Tells(w.node, w.value)
            /\ flat' = IF w.shape = "flat" THEN flat \cup {w.node} ELSE flat \ {w.node}
       ELSE UNCHANGED <<node, events, flat>>
  /\ wire' = Tail(wire)
  /\ UNCHANGED <<there, foreign>> /\ World

\* WirePlumber restores a level it remembers, somebody runs pw-cli.
ForeignWrite(n, level) ==
  /\ n \in there /\ foreign < view.foreign /\ foreign' = foreign + 1
  /\ level # Reported(node[n])
  /\ n \in Chains => ~level.mute
  /\ node' = [node EXCEPT ![n] = Both(level)]
  /\ Tells(n, Both(level))
  /\ flat' = flat \cup {n}
  /\ UNCHANGED <<there, wire>> /\ World

\* A sink that was asked for comes up at the level WirePlumber remembers, a chain at the gain it
\* was rendered with, or, until its graph is set up, reporting silence.
NodeArrives(n, vol) ==
  /\ n \in Viewed \ there /\ n \notin known
  /\ \A i \in DOMAIN events : events[i].node # n
  /\ n \in Chains => vol \in {cell[n], Silence}
  /\ there' = there \cup {n}
  /\ node' = [node EXCEPT ![n] = Both(Level(vol, FALSE))]
  /\ events' = Append(events, [type |-> "node", node |-> n, level |-> Level(vol, FALSE)])
  /\ flat' = flat \cup {n}
  /\ UNCHANGED <<wire, foreign>> /\ World

\* A chain is replaced; the writes on their way carry its id and find nobody.
ChainLeaves(k) ==
  /\ k \in there /\ foreign < view.foreign /\ foreign' = foreign + 1
  /\ there' = there \ {k}
  /\ events' = Append(events, [type |-> "removed", node |-> k, level |-> None])
  /\ wire' = [i \in DOMAIN wire |-> [wire[i] EXCEPT !.node = IF @ = k THEN None ELSE @]]
  /\ UNCHANGED <<node, flat>> /\ World

\* A second and more goes by; reports and writes take less than that.
SecondsPass(m) ==
  /\ age[m] < 2 /\ events = <<>> /\ wire = <<>>
  /\ age' = [age EXCEPT ![m] = @ + 1]
  /\ UNCHANGED <<view, pw, events, known, stored, pan, ducking, audition, intent, rewrites, cells,
                 pending, flat, bounds>>

Commands ==
  \/ \E c \in Channels : \/ \E v \in Levels : SetChannelTrim(c, v)
                         \/ \E b \in BOOLEAN : SetChannelMuted(c, b) \/ SetChannelPan(c, b) \/ SetDucking(c, b)
  \/ \E m \in Mixes, v \in Levels, b \in BOOLEAN : SetMix(m, Level(v, b))
  \/ \E k \in Chains, v \in Levels : SetCell(k, v)
  \/ \E n \in Sinks : StartAudition(n)
  \/ StopAudition
  \/ \E v \in Levels : ImportLevels(Level(v, FALSE))

HandleEvent == OnNode \/ OnNodeRemoved

Next ==
  \/ Commands \/ TriggerChanges \/ HandleEvent \/ WriteLands
  \/ \E c \in Channels : TickDucking(c)
  \/ \E n \in Nodes, v \in Levels, b \in BOOLEAN : ForeignWrite(n, Level(v, b))
  \/ \E n \in Nodes, v \in Levels \cup {Silence} : NodeArrives(n, v)
  \/ \E k \in Chains : ChainLeaves(k)
  \/ \E m \in Mixes : SecondsPass(m)

Spec == Init /\ [][Next]_vars

\* The event loop runs and PipeWire carries out what it is told.
FairSpec == Spec /\ WF_vars(HandleEvent) /\ WF_vars(WriteLands)
-----------------------------------------------------------------------------
LevelType == [vol : Int, mute : BOOLEAN]
Wish == LevelType \cup {None}
WriteType == [node : Nodes \cup {None}, value : [l : Int, r : Int, mute : BOOLEAN],
              shape : {"split", "flat"}]
EventType == [type : {"node"}, node : Nodes, level : LevelType]
               \cup [type : {"removed"}, node : Chains, level : {None}]

\* Besides the types: a channel or mix that is known is there, and so is one that
\* is reported on; only channels that are ducked have a factor; what is armed is
\* known; a level is kept only for a sink that is not known; an audition found sinks
\* that still are.
TypeOK ==
  /\ view \in Views /\ there \cup known \subseteq Viewed /\ known \cap Sinks \subseteq there
  /\ node \in [Nodes -> [l : Int, r : Int, mute : BOOLEAN]] /\ flat \subseteq Nodes
  /\ wire \in Seq(WriteType) /\ Len(wire) <= MaxWrites
  /\ events \in Seq(EventType)
  /\ \A i \in DOMAIN events : events[i].node \in there \cup (Chains \cap Viewed)
  /\ stored \in [Sinks -> LevelType] /\ pending \in [Sinks -> Wish]
  /\ \A n \in known \cap Sinks : pending[n] = None
  /\ pan \subseteq Channels /\ ducked \subseteq Channels /\ loud \in BOOLEAN
  /\ duck \in [Channels -> 0..Depth] /\ \A c \in Channels \ ducked : duck[c] = 0
  /\ intent \in [Mixes -> Wish] /\ rewrites \in [Mixes -> 0..3] /\ age \in [Mixes -> 0..2]
  /\ cell \in [Chains -> 0..Silence] /\ armed \subseteq known \cap Chains
  /\ audition = None \/ /\ audition.target \in DOMAIN audition.saved
                        /\ DOMAIN audition.saved \subseteq known \cap Sinks
                        /\ \A n \in DOMAIN audition.saved : audition.saved[n] \in LevelType
  /\ {ops, foreign} \subseteq Nat

\* Nothing of a node is on its way in either direction.
Settled(n) ==
  /\ \A i \in DOMAIN wire : wire[i].node # n
  /\ \A i \in DOMAIN events : events[i].node # n

\* What a report of the level a channel should play would say.
Believed(c) == Level(stored[c].vol + duck[c], stored[c].mute)

\* However writes, reports and ticks crossed, once they are through a channel plays its fader
\* under its ducking and panned: a level the mixer shows is the level that is heard.  The last
\* to write it may have known no pan, and an audition knows no ducking either.
ChannelsAddUp ==
  \A c \in Channels \cap known \cap there : Settled(c) =>
    \/ node[c] = ChannelGain(c, stored, pan, duck).value
    \/ c \in flat /\ Reported(node[c]) \in {Believed(c), stored[c]}

\* A mix is given up only after another client wrote to it again and again: of the bursts that
\* count as somebody else's at most one was a late report of the daemon's own writes.
GivesUpOnlyToForeign ==
  [][\A m \in Mixes : intent[m] # None /\ intent'[m] = None => foreign >= 3]_vars

\* A level anybody else wrote to a mix or to an armed chain does not stay.
IntentWins ==
  /\ \A m \in Mixes : []<>(m \in there \cap known /\ intent[m] # None => Reported(node[m]) = intent[m])
  /\ \A k \in Chains : []<>(k \in armed => node[k].l = cell[k])

=============================================================================
