----------------------------- MODULE GainProofs -----------------------------
(***************************************************************************)
(* Gain for any nodes, levels and bounds: the types, that fader, ducking   *)
(* and pan add up to what is heard (ChannelsAddUp), and that a mix is not  *)
(* given up without another client's doing (GivesUpOnlyToForeign).         *)
(*                                                                         *)
(* Writes and reports are on their way all the time, so the invariant says *)
(* of every channel why it will add up once they are through: a report is  *)
(* still to come, or a write that PipeWire will report, or the channel     *)
(* plays what the mixer believes.                                          *)
(***************************************************************************)
EXTENDS Gain, FiniteSetTheorems, TLAPS

\* Of the reports on a node the last one is what it plays.
Pending(n) == \E i \in DOMAIN events : events[i].node = n
LatestOf(n) ==
  \A i \in DOMAIN events :
    events[i].node = n /\ (\A j \in DOMAIN events : j > i => events[j].node # n)
    => events[i].level = Reported(node[n])

\* The writes on their way to a node: none, the last one, one that PipeWire
\* will report; and whether the last to write it knew no pan.
NoneOf(n) == \A i \in DOMAIN wire : wire[i].node # n
LastOf(i, n) == wire[i].node = n /\ \A j \in DOMAIN wire : j > i => wire[j].node # n
Differs(n) ==
  \E i \in DOMAIN wire : wire[i].node = n /\ Reported(wire[i].value) # Reported(node[n])
Unsplit(n) ==
  /\ \A i \in DOMAIN wire : LastOf(i, n) => wire[i].shape = "flat"
  /\ NoneOf(n) => n \in flat

\* Nobody writes to a sink before it is known.
AddressedOf(n) == n \notin known => NoneOf(n) /\ (n \in there => n \in flat)

\* Why a channel will add up.
ToldOf(c) ==
  \/ Pending(c) \/ Differs(c)
  \/ Reported(node[c]) = Believed(c)
  \/ Unsplit(c) /\ Reported(node[c]) = stored[c]

PanOf(c) == IF c \in pan THEN PanSide ELSE 0
PannedOf(c) ==
  /\ \A i \in DOMAIN wire : LastOf(i, c) /\ wire[i].shape = "split" =>
       wire[i].value.r = wire[i].value.l + PanOf(c)
  /\ NoneOf(c) /\ c \notin flat => node[c].r = node[c].l + PanOf(c)

\* A mix plays what it is meant to, or the daemon will hear of it.
HeardOf(m) ==
  intent[m] # None =>
    m \in known /\ (Pending(m) \/ Differs(m) \/ Reported(node[m]) = intent[m])

\* Nothing on its way, in either direction, is against the intent.
Calm(m) ==
  /\ Reported(node[m]) = intent[m]
  /\ \A i \in DOMAIN events : events[i].node = m => events[i].level = intent[m]
  /\ \A i \in DOMAIN wire : wire[i].node = m => Reported(wire[i].value) = intent[m]

\* The bursts that were counted: all but the first are somebody else's, and so
\* is the first if there is one to come.
CountedOf(m) ==
  intent[m] # None =>
    /\ rewrites[m] <= foreign + 1
    /\ rewrites[m] >= 1 /\ age[m] >= 1 => Calm(m) \/ rewrites[m] <= foreign

Latest == \A n \in Sinks : LatestOf(n)
Addressed == \A n \in Sinks : AddressedOf(n)
Told == \A c \in Channels \cap known : ToldOf(c)
Panned == \A c \in Channels \cap known : PannedOf(c)
Heard == \A m \in Mixes : HeardOf(m)
Counted == \A m \in Mixes : CountedOf(m)

\* The invariant.
IInv == TypeOK /\ Latest /\ Addressed /\ Told /\ Panned /\ Heard /\ Counted
-----------------------------------------------------------------------------
(* Levels and writes                                                       *)

Value == [l : Int, r : Int, mute : BOOLEAN]

LEMMA NoLevel == None \notin LevelType
<1>1. SUFFICES ASSUME None \in LevelType PROVE FALSE
  OBVIOUS
<1>2. DOMAIN None = {"none"} /\ DOMAIN None = {"vol", "mute"}
  BY <1>1 DEF None, LevelType
<1>3. QED
  BY <1>2

LEMMA ReportedType ==
  ASSUME NEW value \in Value
  PROVE  Reported(value) \in LevelType
BY DEF Reported, Louder, Level, LevelType, Value

LEMMA BothType ==
  ASSUME NEW level \in LevelType
  PROVE  Both(level) \in Value /\ Reported(Both(level)) = level
BY DEF Both, Sides, Reported, Louder, Level, LevelType, Value

\* A channel's gain: at the fader and the ducking, and panned.
LEMMA GainOf ==
  ASSUME NEW c \in Channels, NEW faders \in [Sinks -> LevelType], NEW panned,
         NEW factor \in [Channels -> Int]
  PROVE  LET w == ChannelGain(c, faders, panned, factor) IN
         /\ w \in WriteType /\ w.node = c /\ w.shape = "split"
         /\ Reported(w.value) = Level(faders[c].vol + factor[c], faders[c].mute)
         /\ w.value.r = w.value.l + (IF c \in panned THEN PanSide ELSE 0)
<1> DEFINE v == faders[c].vol + factor[c]
           r == IF c \in panned THEN v + PanSide ELSE v
<1>1. v \in Int /\ faders[c].mute \in BOOLEAN /\ PanSide \in Nat /\ c \in Nodes
  BY GainAssumption DEF Sinks, Nodes, LevelType
<1>2. r \in Int /\ v <= r /\ r = v + (IF c \in panned THEN PanSide ELSE 0)
  BY <1>1
<1>3. ChannelGain(c, faders, panned, factor) =
        [node |-> c, value |-> [l |-> v, r |-> r, mute |-> faders[c].mute], shape |-> "split"]
  BY DEF ChannelGain, Send, Sides
<1> HIDE DEF v, r
<1>4. Reported([l |-> v, r |-> r, mute |-> faders[c].mute]) = Level(v, faders[c].mute)
  BY <1>1, <1>2 DEF Reported, Louder, Level
<1>5. QED
  BY <1>1, <1>2, <1>3, <1>4 DEF WriteType, v

LEMMA PlainOf ==
  ASSUME NEW n \in Nodes, NEW level \in LevelType
  PROVE  LET w == Plain(n, level) IN
         /\ w \in WriteType /\ w.node = n /\ w.shape = "flat" /\ Reported(w.value) = level
BY BothType DEF Plain, Send, WriteType, Value

\* One write for each node of a set: no more, no fewer, in some order.
Sent(sends) == {sends[i] : i \in DOMAIN sends}

LEMMA OrdersOf ==
  ASSUME NEW S \in SUBSET Sinks, NEW q \in Orders(S)
  PROVE  /\ q \in Seq(S) /\ DOMAIN q = 1..Len(q)
         /\ \A i \in DOMAIN q : q[i] \in S
         /\ \A n \in S : \E i \in DOMAIN q : q[i] = n
<1>1. IsFiniteSet(S)
  BY GainAssumption, FS_Subset DEF Nodes
<1>2. Cardinality(S) \in Nat
  BY <1>1, FS_CardinalityType
<1>3. q \in [1..Cardinality(S) -> S] /\ {q[i] : i \in DOMAIN q} = S
  BY DEF Orders
<1>4. QED
  BY <1>2, <1>3

LEMMA OneSent ==
  ASSUME NEW w \in WriteType
  PROVE  <<w>> \in Seq(WriteType) /\ Len(<<w>>) = 1 /\ Sent(<<w>>) = {w}
BY DEF Sent

LEMMA SentConcat ==
  ASSUME NEW a \in Seq(WriteType), NEW b \in Seq(WriteType)
  PROVE  /\ a \o b \in Seq(WriteType) /\ Len(a \o b) = Len(a) + Len(b)
         /\ Sent(a \o b) = Sent(a) \cup Sent(b)
<1> DEFINE c == a \o b
<1>1. /\ c \in Seq(WriteType) /\ Len(c) = Len(a) + Len(b) /\ DOMAIN c = 1..(Len(a) + Len(b))
      /\ DOMAIN a = 1..Len(a) /\ DOMAIN b = 1..Len(b) /\ Len(a) \in Nat /\ Len(b) \in Nat
      /\ \A i \in 1..Len(a) : c[i] = a[i]
      /\ \A i \in 1..Len(b) : c[i + Len(a)] = b[i]
  OBVIOUS
<1> HIDE DEF c
<1>2. ASSUME NEW i \in DOMAIN c PROVE c[i] \in Sent(a) \cup Sent(b)
  <2>1. CASE i \in DOMAIN a
    BY <1>1, <2>1 DEF Sent
  <2>2. CASE i \notin DOMAIN a
    <3>1. i - Len(a) \in DOMAIN b /\ c[i] = b[i - Len(a)]
      BY <1>1, <2>2
    <3>2. QED
      BY <3>1 DEF Sent
  <2>3. QED
    BY <2>1, <2>2
<1>3. ASSUME NEW i \in DOMAIN a PROVE a[i] \in Sent(c)
  <2>1. i \in DOMAIN c /\ c[i] = a[i]
    BY <1>1
  <2>2. QED
    BY <2>1 DEF Sent
<1>4. ASSUME NEW i \in DOMAIN b PROVE b[i] \in Sent(c)
  <2>1. i + Len(a) \in DOMAIN c /\ c[i + Len(a)] = b[i]
    BY <1>1
  <2>2. QED
    BY <2>1 DEF Sent
<1>5. Sent(c) = Sent(a) \cup Sent(b)
  BY <1>2, <1>3, <1>4 DEF Sent
<1>6. QED
  BY <1>1, <1>5 DEF c

\* The gains of some channels, in the order of q.
Gains(q, faders, panned, factor) ==
  [i \in DOMAIN q |-> ChannelGain(q[i], faders, panned, factor)]

LEMMA GainsOf ==
  ASSUME NEW S \in SUBSET Channels, NEW q \in Orders(S), NEW faders \in [Sinks -> LevelType],
         NEW panned, NEW factor \in [Channels -> Int]
  PROVE  /\ Gains(q, faders, panned, factor) \in Seq(WriteType)
         /\ Len(Gains(q, faders, panned, factor)) = Len(q)
         /\ Sent(Gains(q, faders, panned, factor)) =
              {ChannelGain(c, faders, panned, factor) : c \in S}
<1> DEFINE sends == Gains(q, faders, panned, factor)
<1>1. /\ q \in Seq(S) /\ DOMAIN q = 1..Len(q)
      /\ \A i \in DOMAIN q : q[i] \in S
      /\ \A n \in S : \E i \in DOMAIN q : q[i] = n
  BY OrdersOf DEF Sinks
<1>2. \A i \in DOMAIN q : sends[i] \in WriteType
  BY <1>1, GainOf DEF Gains
<1>3. sends \in Seq(WriteType) /\ Len(sends) = Len(q)
  BY <1>1, <1>2 DEF Gains
<1>4. Sent(sends) = {ChannelGain(c, faders, panned, factor) : c \in S}
  BY <1>1 DEF Sent, Gains
<1>5. QED
  BY <1>3, <1>4

LEMMA TierOf ==
  ASSUME NEW levels, NEW S \in SUBSET Sinks, DOMAIN levels = S, \A n \in S : levels[n] \in LevelType,
         NEW sends \in WriteTier(levels)
  PROVE  /\ sends \in Seq(WriteType)
         /\ \A w \in Sent(sends) : w.shape = "flat" /\ w.node \in S
         /\ \A n \in S : \E w \in Sent(sends) : w.node = n /\ Reported(w.value) = levels[n]
<1>1. PICK q \in Orders(S) : sends = [i \in DOMAIN q |-> Plain(q[i], levels[q[i]])]
  BY DEF WriteTier
<1>2. /\ q \in Seq(S) /\ DOMAIN q = 1..Len(q)
      /\ \A i \in DOMAIN q : q[i] \in S
      /\ \A n \in S : \E i \in DOMAIN q : q[i] = n
  BY OrdersOf
<1>3. \A i \in DOMAIN q : LET w == Plain(q[i], levels[q[i]]) IN
        w \in WriteType /\ w.node = q[i] /\ w.shape = "flat" /\ Reported(w.value) = levels[q[i]]
  BY <1>2, PlainOf DEF Nodes
<1>4. sends \in Seq(WriteType)
  BY <1>1, <1>2, <1>3
<1>5. QED
  BY <1>1, <1>2, <1>3, <1>4 DEF Sent
-----------------------------------------------------------------------------
(* The queues                                                              *)

\* Writes are added behind those on their way.
LEMMA Added ==
  ASSUME wire \in Seq(WriteType), NEW sends \in Seq(WriteType), wire' = wire \o sends
  PROVE  /\ wire' \in Seq(WriteType) /\ Len(wire') = Len(wire) + Len(sends)
         /\ DOMAIN wire = 1..Len(wire) /\ DOMAIN wire' = 1..Len(wire')
         /\ \A i \in DOMAIN wire : i \in DOMAIN wire' /\ wire'[i] = wire[i]
         /\ \A i \in DOMAIN wire' : i \in DOMAIN wire \/ wire'[i] \in Sent(sends)
         /\ \A w \in Sent(sends) : \E i \in DOMAIN wire' : i > Len(wire) /\ wire'[i] = w
<1>1. /\ wire' \in Seq(WriteType) /\ Len(wire') = Len(wire) + Len(sends)
      /\ DOMAIN wire = 1..Len(wire) /\ DOMAIN wire' = 1..Len(wire') /\ DOMAIN sends = 1..Len(sends)
      /\ Len(wire) \in Nat /\ Len(sends) \in Nat
  OBVIOUS
<1>2. \A i \in 1..Len(wire') :
        wire'[i] = IF i <= Len(wire) THEN wire[i] ELSE sends[i - Len(wire)]
  OBVIOUS
<1>3. ASSUME NEW i \in DOMAIN wire', i \notin DOMAIN wire PROVE wire'[i] \in Sent(sends)
  <2>1. i - Len(wire) \in DOMAIN sends /\ wire'[i] = sends[i - Len(wire)]
    BY <1>1, <1>2, <1>3
  <2>2. QED
    BY <2>1 DEF Sent
<1>4. ASSUME NEW w \in Sent(sends) PROVE \E i \in DOMAIN wire' : i > Len(wire) /\ wire'[i] = w
  <2>1. PICK k \in DOMAIN sends : w = sends[k]
    BY DEF Sent
  <2>2. /\ Len(wire) + k \in DOMAIN wire' /\ Len(wire) + k > Len(wire)
        /\ wire'[Len(wire) + k] = w
    BY <1>1, <1>2, <2>1
  <2>3. QED
    BY <2>2
<1>5. QED
  BY <1>1, <1>2, <1>3, <1>4

\* What a step that sends leaves true of a channel: it does not touch the
\* channel, or it will hear of it, or it sends what it now believes, or an
\* audition sends what it now stores.
LEMMA ToldSent ==
  ASSUME wire \in Seq(WriteType), NEW sends \in Seq(WriteType), wire' = wire \o sends,
         node' = node, flat' = flat, NEW c \in Channels,
         \/ /\ ToldOf(c) /\ (Pending(c) => Pending(c)')
            /\ \A w \in Sent(sends) : w.node # c
            /\ stored'[c] = stored[c] /\ duck'[c] = duck[c]
         \/ Pending(c)'
         \/ Reported(node[c]) = Believed(c)'
         \/ \E w \in Sent(sends) : w.node = c /\ Reported(w.value) = Believed(c)'
         \/ /\ \E w \in Sent(sends) : w.node = c /\ Reported(w.value) = stored'[c]
            /\ \A w \in Sent(sends) : w.node = c => w.shape = "flat"
  PROVE  ToldOf(c)'
<1>1. /\ Len(wire') = Len(wire) + Len(sends)
      /\ DOMAIN wire = 1..Len(wire) /\ DOMAIN wire' = 1..Len(wire')
      /\ \A i \in DOMAIN wire : i \in DOMAIN wire' /\ wire'[i] = wire[i]
      /\ \A i \in DOMAIN wire' : i \in DOMAIN wire \/ wire'[i] \in Sent(sends)
      /\ \A w \in Sent(sends) : \E i \in DOMAIN wire' : i > Len(wire) /\ wire'[i] = w
  BY Added
<1>2. Len(wire) \in Nat /\ Len(sends) \in Nat
  OBVIOUS
<1>3. ASSUME ToldOf(c), Pending(c) => Pending(c)', \A w \in Sent(sends) : w.node # c,
             stored'[c] = stored[c], duck'[c] = duck[c]
      PROVE  ToldOf(c)'
  <2>1. CASE Differs(c)
    BY <1>1, <2>1 DEF Differs, ToldOf
  <2>2. CASE Reported(node[c]) = Believed(c)
    BY <1>3, <2>2 DEF ToldOf, Believed
  <2>3. CASE Unsplit(c) /\ Reported(node[c]) = stored[c]
    <3>1. \A i \in DOMAIN wire' : wire'[i].node = c => i \in DOMAIN wire
      BY <1>1, <1>3
    <3>2. ASSUME NEW i \in DOMAIN wire', LastOf(i, c)' PROVE wire'[i].shape = "flat"
      <4>1. i \in DOMAIN wire /\ LastOf(i, c)
        BY <1>1, <3>1, <3>2 DEF LastOf
      <4>2. QED
        BY <1>1, <2>3, <4>1 DEF Unsplit
    <3>3. NoneOf(c)' => NoneOf(c)
      BY <1>1 DEF NoneOf
    <3>4. Unsplit(c)'
      BY <2>3, <3>2, <3>3 DEF Unsplit
    <3>5. QED
      BY <1>3, <2>3, <3>4 DEF ToldOf
  <2>4. QED
    BY <1>3, <2>1, <2>2, <2>3 DEF ToldOf
<1>4. ASSUME NEW w \in Sent(sends), w.node = c
      PROVE  Differs(c)' \/ Reported(w.value) = Reported(node[c])
  BY <1>1, <1>4 DEF Differs
<1>5. ASSUME NEW w \in Sent(sends), w.node = c, \A v \in Sent(sends) : v.node = c => v.shape = "flat"
      PROVE  Unsplit(c)'
  <2>1. PICK k \in DOMAIN wire' : k > Len(wire) /\ wire'[k] = w
    BY <1>1
  <2>2. ASSUME NEW i \in DOMAIN wire', LastOf(i, c)' PROVE wire'[i].shape = "flat"
    <3>1. ~(k > i)
      BY <1>5, <2>1, <2>2 DEF LastOf
    <3>2. i \notin DOMAIN wire
      BY <1>1, <1>2, <2>1, <3>1
    <3>3. QED
      BY <1>1, <1>5, <2>2, <3>2 DEF LastOf
  <2>3. ~NoneOf(c)'
    BY <1>5, <2>1 DEF NoneOf
  <2>4. QED
    BY <2>2, <2>3 DEF Unsplit
<1>6. QED
  BY <1>3, <1>4, <1>5 DEF ToldOf

\* ... and of its pan.
LEMMA PannedSent ==
  ASSUME wire \in Seq(WriteType), NEW sends \in Seq(WriteType), wire' = wire \o sends,
         node' = node, flat' = flat, NEW c \in Channels, PannedOf(c),
         \A w \in Sent(sends) : w.node = c /\ w.shape = "split" =>
           w.value.r = w.value.l + PanOf(c)',
         (\A w \in Sent(sends) : w.node # c) => PanOf(c)' = PanOf(c)
  PROVE  PannedOf(c)'
<1>1. /\ Len(wire') = Len(wire) + Len(sends)
      /\ DOMAIN wire = 1..Len(wire) /\ DOMAIN wire' = 1..Len(wire')
      /\ \A i \in DOMAIN wire : i \in DOMAIN wire' /\ wire'[i] = wire[i]
      /\ \A i \in DOMAIN wire' : i \in DOMAIN wire \/ wire'[i] \in Sent(sends)
      /\ \A w \in Sent(sends) : \E i \in DOMAIN wire' : i > Len(wire) /\ wire'[i] = w
  BY Added
<1>2. Len(wire) \in Nat /\ Len(sends) \in Nat
  OBVIOUS
<1>3. ASSUME NEW i \in DOMAIN wire', LastOf(i, c)', wire'[i].shape = "split"
      PROVE  wire'[i].value.r = wire'[i].value.l + PanOf(c)'
  <2>1. CASE i \in DOMAIN wire
    <3>1. \A w \in Sent(sends) : w.node # c
      BY <1>1, <1>2, <1>3, <2>1 DEF LastOf
    <3>2. LastOf(i, c)
      BY <1>1, <1>3, <2>1 DEF LastOf
    <3>3. QED
      BY <1>1, <1>3, <2>1, <3>1, <3>2 DEF PannedOf
  <2>2. CASE i \notin DOMAIN wire
    BY <1>1, <1>3, <2>2 DEF LastOf
  <2>3. QED
    BY <2>1, <2>2
<1>4. ASSUME NoneOf(c)', c \notin flat PROVE node[c].r = node[c].l + PanOf(c)'
  <2>1. NoneOf(c) /\ \A w \in Sent(sends) : w.node # c
    BY <1>1, <1>4 DEF NoneOf
  <2>2. QED
    BY <1>4, <2>1 DEF PannedOf
<1>5. QED
  BY <1>3, <1>4 DEF PannedOf

\* ... and of a mix.
LEMMA HeardSent ==
  ASSUME wire \in Seq(WriteType), NEW sends \in Seq(WriteType), wire' = wire \o sends,
         node' = node, NEW m \in Mixes, known \cap Sinks \subseteq known',
         \/ HeardOf(m) /\ (Pending(m) => Pending(m)') /\ intent'[m] = intent[m]
         \/ intent'[m] = None
         \/ m \in known' /\ (Pending(m)' \/ Reported(node[m]) = intent'[m])
         \/ m \in known' /\ \E w \in Sent(sends) : w.node = m /\ Reported(w.value) = intent'[m]
  PROVE  HeardOf(m)'
<1>1. /\ \A i \in DOMAIN wire : i \in DOMAIN wire' /\ wire'[i] = wire[i]
      /\ \A w \in Sent(sends) : \E i \in DOMAIN wire' : wire'[i] = w
  BY Added
<1>2. Differs(m) => Differs(m)'
  BY <1>1 DEF Differs
<1>3. ASSUME NEW w \in Sent(sends), w.node = m
      PROVE  Differs(m)' \/ Reported(w.value) = Reported(node[m])
  BY <1>1, <1>3 DEF Differs
<1>4. QED
  BY <1>2, <1>3 DEF HeardOf, Sinks

\* ... and of what was counted against it.
LEMMA CountedSent ==
  ASSUME wire \in Seq(WriteType), NEW sends \in Seq(WriteType), wire' = wire \o sends,
         node' = node, foreign' = foreign, foreign \in Nat, NEW m \in Mixes,
         \A i \in DOMAIN events' : \E j \in DOMAIN events : events'[i] = events[j],
         \/ /\ CountedOf(m) /\ \A w \in Sent(sends) : w.node # m
            /\ intent'[m] = intent[m] /\ rewrites'[m] = rewrites[m] /\ age'[m] = age[m]
         \/ intent'[m] = None
         \/ rewrites'[m] = 0
         \/ age'[m] = 0 /\ rewrites'[m] <= foreign + 1
  PROVE  CountedOf(m)'
<1>1. \A i \in DOMAIN wire' :
        (\E j \in DOMAIN wire : wire'[i] = wire[j]) \/ wire'[i] \in Sent(sends)
  BY Added
<1>2. ASSUME \A w \in Sent(sends) : w.node # m, intent'[m] = intent[m], Calm(m) PROVE Calm(m)'
  BY <1>1, <1>2 DEF Calm
<1>3. QED
  BY <1>2 DEF CountedOf

\* The handler takes the oldest report: it is the last one on its node, and then
\* it says what the node plays, or another one is to come.
LEMMA Handling ==
  ASSUME events \in Seq(EventType), Latest, events # <<>>, events' = Tail(events), node' = node,
         NEW h, h = Head(events)
  PROVE  /\ Latest' /\ events' \in Seq(EventType)
         /\ \A n \in Nodes : n # h.node /\ Pending(n) => Pending(n)'
         /\ h.node \in Sinks => Pending(h.node)' \/ h.level = Reported(node[h.node])
         /\ \A i \in DOMAIN events' : \E j \in DOMAIN events : events'[i] = events[j]
         /\ \E j \in DOMAIN events : events[j] = h
<1>1. /\ events' \in Seq(EventType) /\ Len(events) \in Nat /\ Len(events) >= 1
      /\ DOMAIN events = 1..Len(events) /\ DOMAIN events' = 1..(Len(events) - 1)
      /\ \A i \in DOMAIN events' : i + 1 \in DOMAIN events /\ events'[i] = events[i + 1]
      /\ 1 \in DOMAIN events /\ h = events[1]
  OBVIOUS
<1>2. ASSUME NEW n \in Sinks PROVE LatestOf(n)'
  <2> SUFFICES ASSUME NEW i \in DOMAIN events', events'[i].node = n,
                      \A j \in DOMAIN events' : j > i => events'[j].node # n
               PROVE  events'[i].level = Reported(node[n])
    BY DEF LatestOf
  <2>1. ASSUME NEW j \in DOMAIN events, j > i + 1 PROVE events[j].node # n
    <3>1. j - 1 \in DOMAIN events' /\ j - 1 > i /\ events'[j - 1] = events[j]
      BY <1>1, <2>1
    <3>2. QED
      BY <3>1
  <2>2. QED
    BY <1>1, <2>1 DEF Latest, LatestOf
<1>3. ASSUME NEW n \in Nodes, n # h.node, Pending(n) PROVE Pending(n)'
  <2>1. PICK i \in DOMAIN events : events[i].node = n
    BY <1>3 DEF Pending
  <2>2. i # 1
    BY <1>1, <1>3, <2>1
  <2>3. i - 1 \in DOMAIN events' /\ events'[i - 1] = events[i]
    BY <1>1, <2>2
  <2>4. QED
    BY <2>1, <2>3 DEF Pending
<1>4. ASSUME h.node \in Sinks, ~Pending(h.node)'
      PROVE  h.level = Reported(node[h.node])
  <2>1. ASSUME NEW j \in DOMAIN events, j > 1 PROVE events[j].node # events[1].node
    <3>1. j - 1 \in DOMAIN events' /\ events'[j - 1] = events[j]
      BY <1>1, <2>1
    <3>2. QED
      BY <1>1, <1>4, <3>1 DEF Pending
  <2>2. QED
    BY <1>1, <1>4, <2>1 DEF Latest, LatestOf
<1>5. QED
  BY <1>1, <1>2, <1>3, <1>4 DEF Latest

\* A report is put behind those on their way.
LEMMA Reporting ==
  ASSUME events \in Seq(EventType), Latest, NEW e \in EventType, events' = Append(events, e),
         \A n \in Sinks : n # e.node => Reported(node'[n]) = Reported(node[n]),
         e.node \in Sinks => e.level = Reported(node'[e.node])
  PROVE  /\ Latest' /\ events' \in Seq(EventType)
         /\ \A n \in Nodes : Pending(n) => Pending(n)'
         /\ Pending(e.node)'
         /\ \A i \in DOMAIN events' : (\E j \in DOMAIN events : events'[i] = events[j]) \/ events'[i] = e
<1>1. /\ events' \in Seq(EventType) /\ Len(events) \in Nat
      /\ DOMAIN events = 1..Len(events) /\ DOMAIN events' = 1..(Len(events) + 1)
      /\ \A i \in DOMAIN events : i \in DOMAIN events' /\ events'[i] = events[i]
      /\ Len(events) + 1 \in DOMAIN events' /\ events'[Len(events) + 1] = e
      /\ \A i \in DOMAIN events' : i \in DOMAIN events \/ i = Len(events) + 1
  OBVIOUS
<1>2. ASSUME NEW n \in Sinks PROVE LatestOf(n)'
  <2> SUFFICES ASSUME NEW i \in DOMAIN events', events'[i].node = n,
                      \A j \in DOMAIN events' : j > i => events'[j].node # n
               PROVE  events'[i].level = Reported(node'[n])
    BY DEF LatestOf
  <2>1. CASE i = Len(events) + 1
    BY <1>1, <2>1
  <2>2. CASE i \in DOMAIN events
    <3>1. e.node # n
      BY <1>1, <2>2
    <3>2. \A j \in DOMAIN events : j > i => events[j].node # n
      BY <1>1
    <3>3. QED
      BY <1>1, <2>2, <3>1, <3>2 DEF Latest, LatestOf
  <2>3. QED
    BY <1>1, <2>1, <2>2
<1>3. QED
  BY <1>1, <1>2 DEF Latest, Pending

\* PipeWire carries out the oldest write.
LEMMA Landing ==
  ASSUME wire \in Seq(WriteType), wire # <<>>, wire' = Tail(wire), NEW h, h = Head(wire)
  PROVE  /\ wire' \in Seq(WriteType) /\ Len(wire') = Len(wire) - 1 /\ 1 \in DOMAIN wire
         /\ wire[1] = h /\ h \in WriteType
         /\ \A i \in DOMAIN wire' : i + 1 \in DOMAIN wire /\ wire'[i] = wire[i + 1]
         /\ \A i \in DOMAIN wire : i # 1 => i - 1 \in DOMAIN wire' /\ wire'[i - 1] = wire[i]
         /\ \A i \in DOMAIN wire' : \A n \in Nodes : LastOf(i, n)' => LastOf(i + 1, n)
         /\ \A n \in Nodes : /\ NoneOf(n) => NoneOf(n)' /\ h.node # n
                             /\ NoneOf(n)' => NoneOf(n) \/ LastOf(1, n)
<1>1. /\ wire' \in Seq(WriteType) /\ Len(wire) \in Nat /\ Len(wire) >= 1
      /\ Len(wire') = Len(wire) - 1
      /\ DOMAIN wire = 1..Len(wire) /\ DOMAIN wire' = 1..(Len(wire) - 1)
      /\ \A i \in DOMAIN wire' : i + 1 \in DOMAIN wire /\ wire'[i] = wire[i + 1]
      /\ 1 \in DOMAIN wire /\ wire[1] = h /\ h \in WriteType
  OBVIOUS
<1>2. \A i \in DOMAIN wire : i # 1 => i - 1 \in DOMAIN wire' /\ wire'[i - 1] = wire[i]
  BY <1>1
<1>3. ASSUME NEW n, NEW i \in DOMAIN wire', LastOf(i, n)' PROVE LastOf(i + 1, n)
  <2>1. ASSUME NEW j \in DOMAIN wire, j > i + 1 PROVE wire[j].node # n
    <3>1. j - 1 \in DOMAIN wire' /\ j - 1 > i /\ wire'[j - 1] = wire[j]
      BY <1>1, <1>2, <2>1
    <3>2. QED
      BY <1>3, <3>1 DEF LastOf
  <2>2. QED
    BY <1>1, <1>3, <2>1 DEF LastOf
<1>4. ASSUME NEW n \in Nodes, NoneOf(n)', ~NoneOf(n) PROVE LastOf(1, n)
  <2>1. ASSUME NEW j \in DOMAIN wire, j > 1 PROVE wire[j].node # n
    <3>1. j - 1 \in DOMAIN wire' /\ wire'[j - 1] = wire[j]
      BY <1>1, <1>2, <2>1
    <3>2. QED
      BY <1>4, <3>1 DEF NoneOf
  <2>2. QED
    BY <1>1, <1>4, <2>1 DEF NoneOf, LastOf
<1>5. \A n \in Nodes : NoneOf(n) => NoneOf(n)' /\ h.node # n
  BY <1>1 DEF NoneOf
<1>6. QED
  BY <1>1, <1>2, <1>3, <1>4, <1>5
-----------------------------------------------------------------------------
(* Commands for channels                                                   *)

\* Everything but the types.
Traffic == Latest /\ Addressed /\ Told /\ Panned /\ Heard /\ Counted

LEMMA AddressedSent ==
  ASSUME wire \in Seq(WriteType), NEW sends \in Seq(WriteType), wire' = wire \o sends,
         Addressed, UNCHANGED <<there, flat>>, known \cap Sinks \subseteq known',
         \A w \in Sent(sends) : w.node \in Sinks => w.node \in known'
  PROVE  Addressed'
<1>1. \A i \in DOMAIN wire' :
        (\E j \in DOMAIN wire : wire'[i] = wire[j]) \/ wire'[i] \in Sent(sends)
  BY Added
<1>2. QED
  BY <1>1 DEF Addressed, AddressedOf, NoneOf

\* A command writes the gains of some channels as they now are, and changes no
\* other known channel.
LEMMA ChannelStep ==
  ASSUME TypeOK, Traffic, UNCHANGED <<there, node, events, known, foreign, flat, guard>>,
         NEW S \in SUBSET (Channels \cap known),
         NEW sends \in Seq(WriteType), wire' = wire \o sends,
         Sent(sends) = {ChannelGain(c, stored', pan', duck') : c \in S},
         stored' \in [Sinks -> LevelType], duck' \in [Channels -> Int],
         \A c \in (Channels \cap known) \ S :
           stored'[c] = stored[c] /\ duck'[c] = duck[c] /\ PanOf(c)' = PanOf(c)
  PROVE  Traffic'
<1>0. wire \in Seq(WriteType) /\ foreign \in Nat /\ foreign' = foreign
  BY DEF TypeOK
<1>1. \A c \in S : LET w == ChannelGain(c, stored', pan', duck') IN
        /\ w.node = c /\ w.shape = "split" /\ w.value.r = w.value.l + PanOf(c)'
        /\ Reported(w.value) = Believed(c)'
  <2> SUFFICES ASSUME NEW c \in S
               PROVE  LET w == ChannelGain(c, stored', pan', duck') IN
                      /\ w.node = c /\ w.shape = "split" /\ w.value.r = w.value.l + PanOf(c)'
                      /\ Reported(w.value) = Believed(c)'
    OBVIOUS
  <2>1. LET w == ChannelGain(c, stored', pan', duck') IN
        /\ w.node = c /\ w.shape = "split"
        /\ Reported(w.value) = Level(stored'[c].vol + duck'[c], stored'[c].mute)
        /\ w.value.r = w.value.l + (IF c \in pan' THEN PanSide ELSE 0)
    <3>1. c \in Channels
      OBVIOUS
    <3>2. QED
      BY <3>1, GainOf
  <2>2. QED
    BY <2>1 DEF PanOf, Believed
<1>2. \A w \in Sent(sends) :
        /\ w.node \in S /\ w.shape = "split" /\ w.value.r = w.value.l + PanOf(w.node)'
        /\ Reported(w.value) = Believed(w.node)'
  BY <1>1
<1>3. \A c \in S : \E w \in Sent(sends) : w.node = c /\ Reported(w.value) = Believed(c)'
  BY <1>1
<1>4. Latest'
  BY DEF Traffic, Latest, LatestOf
<1>5. Addressed'
  BY <1>0, <1>2, AddressedSent DEF Traffic
<1>6. ASSUME NEW c \in Channels \cap known PROVE ToldOf(c)' /\ PannedOf(c)'
  <2>1. ToldOf(c) /\ PannedOf(c) /\ (Pending(c) => Pending(c)')
    BY DEF Traffic, Told, Panned, Pending
  <2>2. ToldOf(c)'
    BY <1>0, <1>2, <1>3, <2>1, ToldSent
  <2>3. \A w \in Sent(sends) : w.node = c => w.value.r = w.value.l + PanOf(c)'
    BY <1>2
  <2>4. (\A w \in Sent(sends) : w.node # c) => PanOf(c)' = PanOf(c)
    BY <1>3
  <2>5. PannedOf(c)'
    BY <1>0, <2>1, <2>3, <2>4, PannedSent
  <2>6. QED
    BY <2>2, <2>5
<1>7. ASSUME NEW m \in Mixes PROVE HeardOf(m)' /\ CountedOf(m)'
  <2>1. HeardOf(m) /\ CountedOf(m) /\ (Pending(m) => Pending(m)') /\ m \notin Channels
    BY GainAssumption DEF Traffic, Heard, Counted, Pending
  <2>2. \A w \in Sent(sends) : w.node # m
    BY <1>2, <2>1
  <2>3. HeardOf(m)'
    BY <1>0, <2>1, HeardSent DEF guard
  <2>4. CountedOf(m)'
    BY <1>0, <2>1, <2>2, CountedSent DEF guard
  <2>5. QED
    BY <2>3, <2>4
<1>8. QED
  BY <1>4, <1>5, <1>6, <1>7 DEF Traffic, Told, Panned, Heard, Counted

WireTyped == wire \in Seq(WriteType) /\ Len(wire) <= MaxWrites
FadersTyped ==
  /\ stored \in [Sinks -> LevelType] /\ pending \in [Sinks -> Wish]
  /\ \A n \in known \cap Sinks : pending[n] = None
DuckingTyped ==
  /\ pan \subseteq Channels /\ ducked \subseteq Channels /\ loud \in BOOLEAN
  /\ duck \in [Channels -> 0..Depth] /\ \A c \in Channels \ ducked : duck[c] = 0
IntentsTyped == intent \in [Mixes -> Wish] /\ rewrites \in [Mixes -> 0..3] /\ age \in [Mixes -> 0..2]
CellsTyped == cell \in [Chains -> 0..Silence] /\ armed \subseteq known \cap Chains
AuditionTyped ==
  audition = None \/ /\ audition.target \in DOMAIN audition.saved
                     /\ DOMAIN audition.saved \subseteq known \cap Sinks
                     /\ \A n \in DOMAIN audition.saved : audition.saved[n] \in LevelType

\* What a command leaves of the types to see to.
LEMMA CommandTypes ==
  ASSUME TypeOK, UNCHANGED <<view, there, node, events, known, flat, foreign>>,
         ops' \in Nat, WireTyped', FadersTyped', DuckingTyped', IntentsTyped', CellsTyped',
         AuditionTyped'
  PROVE  TypeOK'
BY DEF TypeOK, WireTyped, FadersTyped, DuckingTyped, IntentsTyped, CellsTyped, AuditionTyped, Viewed

\* The parts of the types.
LEMMA Types ==
  ASSUME TypeOK
  PROVE  /\ WireTyped /\ FadersTyped /\ DuckingTyped /\ IntentsTyped /\ CellsTyped /\ AuditionTyped
         /\ foreign \in Nat /\ ops \in Nat
BY DEF TypeOK, WireTyped, FadersTyped, DuckingTyped, IntentsTyped, CellsTyped, AuditionTyped

LEMMA WireSent ==
  ASSUME WireTyped, NEW sends \in Seq(WriteType), wire' = wire \o sends, Room(Len(sends))
  PROVE  WireTyped'
<1>1. wire' \in Seq(WriteType) /\ Len(wire') = Len(wire) + Len(sends)
  BY Added DEF WireTyped
<1>2. QED
  BY <1>1 DEF WireTyped, Room

\* A fader and its group.
LEMMA FollowStep ==
  ASSUME TypeOK, Traffic, NEW c \in Channels, c \in known, Command, OnChannels,
         NEW faders \in [Sinks -> LevelType], Follow(c, faders), UNCHANGED <<pan, ducking>>,
         \A n \in Channels : n # c /\ faders[n] # stored[n] => n \in known
  PROVE  TypeOK' /\ Traffic'
<1> DEFINE C == {n \in Channels : n # c /\ faders[n] # stored[n]}
           first == <<ChannelGain(c, faders, pan, duck)>>
<1>0. /\ WireTyped /\ FadersTyped /\ DuckingTyped /\ IntentsTyped /\ CellsTyped /\ AuditionTyped
      /\ foreign \in Nat /\ ops \in Nat
  BY Types
<1>1. PICK q \in Orders(C) :
        Room(1 + Len(q)) /\ wire' = wire \o (first \o Gains(q, faders, pan, duck)) /\ stored' = faders
  BY DEF Follow, Writes, Gains
<1>2. duck \in [Channels -> Int]
  BY <1>0 DEF DuckingTyped
<1>3. /\ Gains(q, faders, pan, duck) \in Seq(WriteType) /\ Len(Gains(q, faders, pan, duck)) = Len(q)
      /\ Sent(Gains(q, faders, pan, duck)) = {ChannelGain(d, faders, pan, duck) : d \in C}
  <2>1. C \in SUBSET Channels
    OBVIOUS
  <2> HIDE DEF C
  <2>2. QED
    BY <1>2, <2>1, GainsOf
<1>4. ChannelGain(c, faders, pan, duck) \in WriteType
  BY <1>2, GainOf
<1> DEFINE sends == first \o Gains(q, faders, pan, duck)
<1>5. /\ sends \in Seq(WriteType) /\ Len(sends) = 1 + Len(q)
      /\ Sent(sends) = {ChannelGain(c, faders, pan, duck)} \cup Sent(Gains(q, faders, pan, duck))
  <2>1. first \in Seq(WriteType) /\ Len(first) = 1 /\ Sent(first) = {ChannelGain(c, faders, pan, duck)}
    BY <1>4, OneSent
  <2> HIDE DEF first
  <2>2. QED
    BY <1>3, <2>1, SentConcat
<1> DEFINE S == {c} \cup C
<1> HIDE DEF sends
<1>6. Sent(sends) = {ChannelGain(d, stored', pan', duck') : d \in S}
  BY <1>1, <1>3, <1>5 DEF ducking
<1>7. WireTyped'
  BY <1>0, <1>1, <1>5, WireSent DEF sends
<1>8. Traffic'
  <2>1. S \in SUBSET (Channels \cap known)
    OBVIOUS
  <2>2. \A d \in (Channels \cap known) \ S :
          stored'[d] = stored[d] /\ duck'[d] = duck[d] /\ PanOf(d)' = PanOf(d)
    BY <1>1 DEF ducking, PanOf
  <2>3. UNCHANGED <<there, node, events, known, foreign, flat, guard>>
    BY DEF Command, OnChannels
  <2>4. /\ wire' = wire \o sends /\ stored' \in [Sinks -> LevelType]
        /\ duck' \in [Channels -> Int]
    BY <1>1, <1>2 DEF ducking, sends
  <2> HIDE DEF S
  <2>5. QED
    BY <1>5, <1>6, <2>1, <2>2, <2>3, <2>4, ChannelStep
<1>9. TypeOK'
  <2>1. UNCHANGED <<view, there, node, events, known, flat, foreign>> /\ ops' \in Nat
    BY <1>0 DEF Command, OnChannels
  <2>2. FadersTyped' /\ DuckingTyped' /\ IntentsTyped' /\ CellsTyped' /\ AuditionTyped'
    BY <1>0, <1>1 DEF Command, OnChannels, ducking, guard, cells, FadersTyped, DuckingTyped,
      IntentsTyped, CellsTyped, AuditionTyped
  <2>3. QED
    BY <1>7, <2>1, <2>2, CommandTypes
<1>10. QED
  BY <1>8, <1>9

LEMMA StoredTyped ==
  ASSUME TypeOK, NEW n \in Sinks
  PROVE  stored[n] \in LevelType /\ stored[n].vol \in Int /\ stored[n].mute \in BOOLEAN
BY DEF TypeOK, LevelType

LEMMA SetChannelTrimStep ==
  ASSUME TypeOK, Traffic, NEW c \in Channels, NEW v \in Levels, SetChannelTrim(c, v)
  PROVE  TypeOK' /\ Traffic'
<1> DEFINE faders == GroupTrim(c, stored[c].vol, v)
<1>1. v \in Int /\ Silence \in Int /\ \A n \in Sinks : stored[n].vol \in Int
  BY GainAssumption, StoredTyped
<1>2. \A x \in Int : Clamped(x) \in Int
  BY <1>1 DEF Clamped
<1>3. faders \in [Sinks -> LevelType]
  BY <1>1, <1>2, StoredTyped DEF GroupTrim, LevelType, Sinks
<1>4. \A n \in Channels : n # c /\ faders[n] # stored[n] => n \in known
  BY DEF GroupTrim, Sinks
<1>5. Command /\ OnChannels /\ Follow(c, faders) /\ c \in known /\ UNCHANGED <<pan, ducking>>
  BY DEF SetChannelTrim
<1> HIDE DEF faders
<1>6. QED
  BY <1>3, <1>4, <1>5, FollowStep

LEMMA SetChannelMutedStep ==
  ASSUME TypeOK, Traffic, NEW c \in Channels, NEW mute \in BOOLEAN, SetChannelMuted(c, mute)
  PROVE  TypeOK' /\ Traffic'
<1> DEFINE faders == GroupMute(c, mute)
<1>1. faders \in [Sinks -> LevelType]
  BY StoredTyped DEF GroupMute, LevelType
<1>2. \A n \in Channels : n # c /\ faders[n] # stored[n] => n \in known
  BY DEF GroupMute, Sinks
<1>3. Command /\ OnChannels /\ Follow(c, faders) /\ c \in known /\ UNCHANGED <<pan, ducking>>
  BY DEF SetChannelMuted
<1> HIDE DEF faders
<1>4. QED
  BY <1>1, <1>2, <1>3, FollowStep

\* One channel's pan or ducking.
LEMMA DrivenStep ==
  ASSUME TypeOK, Traffic, NEW c \in Channels, Room(1),
         wire' = wire \o Driven(c, stored', pan', duck'),
         UNCHANGED <<there, node, events, known, foreign, flat, guard, stored>>,
         duck' \in [Channels -> Int],
         \A d \in Channels : d # c => duck'[d] = duck[d] /\ (d \in pan' <=> d \in pan)
  PROVE  WireTyped' /\ Traffic'
<1> DEFINE sends == Driven(c, stored', pan', duck')
           S == {c} \cap known
<1>0. WireTyped /\ stored' \in [Sinks -> LevelType]
  BY DEF TypeOK, WireTyped
<1>1. ChannelGain(c, stored', pan', duck') \in WriteType
  BY <1>0, GainOf
<1>2. /\ sends \in Seq(WriteType) /\ Len(sends) \in Nat /\ Len(sends) <= 1
      /\ Sent(sends) = {ChannelGain(d, stored', pan', duck') : d \in S}
  <2>1. CASE c \in known
    <3>1. sends = <<ChannelGain(c, stored', pan', duck')>>
      BY <2>1 DEF Driven
    <3>2. S = {c}
      BY <2>1
    <3> HIDE DEF sends, S
    <3>3. QED
      BY <1>1, <3>1, <3>2, OneSent
  <2>2. CASE c \notin known
    <3>1. sends = <<>> /\ S = {}
      BY <2>2 DEF Driven
    <3> HIDE DEF sends, S
    <3>2. QED
      BY <3>1 DEF Sent
  <2>3. QED
    BY <2>1, <2>2
<1>3. WireTyped'
  <2>1. Room(Len(sends))
    <3>1. Len(wire) \in Nat /\ MaxWrites \in Nat
      BY <1>0, GainAssumption DEF WireTyped
    <3> HIDE DEF sends
    <3>2. QED
      BY <1>2, <3>1 DEF Room
  <2> HIDE DEF sends
  <2>2. QED
    BY <1>0, <1>2, <2>1, WireSent DEF sends
<1>4. Traffic'
  <2>1. \A d \in (Channels \cap known) \ S :
          stored'[d] = stored[d] /\ duck'[d] = duck[d] /\ PanOf(d)' = PanOf(d)
    BY DEF PanOf
  <2>2. S \in SUBSET (Channels \cap known)
    OBVIOUS
  <2> HIDE DEF S, sends
  <2>3. QED
    BY <1>0, <1>2, <2>1, <2>2, ChannelStep DEF sends
<1>5. QED
  BY <1>3, <1>4

LEMMA SetChannelPanStep ==
  ASSUME TypeOK, Traffic, NEW c \in Channels, NEW panned \in BOOLEAN, SetChannelPan(c, panned)
  PROVE  TypeOK' /\ Traffic'
<1>1. /\ WireTyped /\ FadersTyped /\ DuckingTyped /\ IntentsTyped /\ CellsTyped /\ AuditionTyped
      /\ foreign \in Nat /\ ops \in Nat
  BY Types
<1>2. /\ UNCHANGED <<there, node, events, known, foreign, flat, guard, stored>>
      /\ UNCHANGED <<view, cells, pending, audition, ducking>> /\ ops' \in Nat
      /\ pan' \subseteq Channels /\ \A d \in Channels : d # c => (d \in pan' <=> d \in pan)
  BY <1>1 DEF SetChannelPan, Command, OnChannels, DuckingTyped
<1>3. wire' = wire \o Driven(c, stored', pan', duck') /\ Room(1)
  BY <1>2 DEF SetChannelPan, Writes, ducking
<1>4. duck' \in [Channels -> Int] /\ duck' = duck
  BY <1>1, <1>2 DEF ducking, DuckingTyped
<1>5. WireTyped' /\ Traffic'
  BY <1>2, <1>3, <1>4, DrivenStep
<1>6. FadersTyped' /\ DuckingTyped' /\ IntentsTyped' /\ CellsTyped' /\ AuditionTyped'
  BY <1>1, <1>2 DEF ducking, guard, cells, FadersTyped, DuckingTyped, IntentsTyped, CellsTyped,
    AuditionTyped
<1>7. QED
  BY <1>2, <1>5, <1>6, CommandTypes

LEMMA SetDuckingStep ==
  ASSUME TypeOK, Traffic, NEW c \in Channels, NEW on \in BOOLEAN, SetDucking(c, on)
  PROVE  TypeOK' /\ Traffic'
<1>1. /\ WireTyped /\ FadersTyped /\ DuckingTyped /\ IntentsTyped /\ CellsTyped /\ AuditionTyped
      /\ foreign \in Nat /\ ops \in Nat
  BY Types
<1>2. /\ UNCHANGED <<there, node, events, known, foreign, flat, guard, stored>>
      /\ UNCHANGED <<view, cells, pending, audition, pan, loud>> /\ ops' \in Nat
      /\ ducked' = (IF on THEN ducked \cup {c} ELSE ducked \ {c})
      /\ duck' = [duck EXCEPT ![c] = 0]
  BY <1>1 DEF SetDucking, Command, OnChannels
<1>3. wire' = wire \o Driven(c, stored', pan', duck') /\ Room(1)
  BY <1>2 DEF SetDucking, Writes
<1>4. DuckingTyped'
  BY <1>1, <1>2, GainAssumption DEF DuckingTyped
<1>5. duck' \in [Channels -> Int] /\ \A d \in Channels : d # c => duck'[d] = duck[d]
  BY <1>1, <1>2, <1>4 DEF DuckingTyped
<1>6. WireTyped' /\ Traffic'
  BY <1>2, <1>3, <1>5, DrivenStep
<1>7. FadersTyped' /\ IntentsTyped' /\ CellsTyped' /\ AuditionTyped'
  BY <1>1, <1>2 DEF guard, cells, FadersTyped, IntentsTyped, CellsTyped, AuditionTyped
<1>8. QED
  BY <1>2, <1>4, <1>6, <1>7, CommandTypes

LEMMA TickDuckingStep ==
  ASSUME TypeOK, Traffic, NEW c \in Channels, TickDucking(c)
  PROVE  TypeOK' /\ Traffic'
<1>1. /\ WireTyped /\ FadersTyped /\ DuckingTyped /\ IntentsTyped /\ CellsTyped /\ AuditionTyped
      /\ foreign \in Nat /\ ops \in Nat
  BY Types
<1>2. /\ UNCHANGED <<there, node, events, known, foreign, flat, guard, stored>>
      /\ UNCHANGED <<view, cells, pending, audition, pan, ducked, loud>> /\ ops' \in Nat
  BY <1>1 DEF TickDucking, OnChannels, bounds
<1>3. wire' = wire \o Driven(c, stored', pan', duck') /\ Room(1)
  BY <1>2 DEF TickDucking, Writes
<1>4. /\ c \in ducked /\ duck[c] # (IF loud THEN Depth ELSE 0)
      /\ duck' = [duck EXCEPT ![c] = IF loud THEN duck[c] + 1 ELSE duck[c] - 1]
  BY DEF TickDucking
<1>5. duck[c] \in 0..Depth /\ Depth \in Nat
  BY <1>1, GainAssumption DEF DuckingTyped
<1>6. (IF loud THEN duck[c] + 1 ELSE duck[c] - 1) \in 0..Depth
  BY <1>4, <1>5
<1>7. DuckingTyped'
  BY <1>1, <1>2, <1>4, <1>6 DEF DuckingTyped
<1>8. duck' \in [Channels -> Int] /\ \A d \in Channels : d # c => duck'[d] = duck[d]
  BY <1>1, <1>4, <1>7 DEF DuckingTyped
<1>9. WireTyped' /\ Traffic'
  BY <1>2, <1>3, <1>8, DrivenStep
<1>10. FadersTyped' /\ IntentsTyped' /\ CellsTyped' /\ AuditionTyped'
  BY <1>1, <1>2 DEF guard, cells, FadersTyped, IntentsTyped, CellsTyped, AuditionTyped
<1>11. QED
  BY <1>2, <1>7, <1>9, <1>10, CommandTypes

LEMMA TriggerStep ==
  ASSUME TypeOK, Traffic, TriggerChanges
  PROVE  TypeOK' /\ Traffic'
<1>1. /\ UNCHANGED <<view, there, node, wire, events, known, stored, pan, ducked, duck, foreign>>
      /\ UNCHANGED <<guard, cells, pending, audition, flat>> /\ loud' = ~loud /\ ops' = ops + 1
  BY DEF TriggerChanges, OnChannels, pw
<1>2. TypeOK'
  BY <1>1 DEF TypeOK, guard, cells, Viewed
<1>3. Traffic'
  BY <1>1 DEF guard, cells, Traffic, Latest, LatestOf, Addressed, AddressedOf, NoneOf, LastOf,
    Differs, Unsplit, Told, ToldOf, Believed, Panned, PannedOf, PanOf, Heard, HeardOf, Counted,
    CountedOf, Calm, Pending
<1>4. QED
  BY <1>2, <1>3
-----------------------------------------------------------------------------
(* Commands for mixes and cells, and the audition                          *)

\* Sinks are written the same on both sides, at what is stored of a channel and
\* meant of a mix.
LEMMA FlatStep ==
  ASSUME TypeOK, Traffic, UNCHANGED <<there, node, events, known, foreign, flat, pan, duck>>,
         NEW S \in SUBSET (Sinks \cap known),
         NEW sends \in Seq(WriteType), wire' = wire \o sends,
         \A w \in Sent(sends) : w.shape = "flat" /\ (w.node \in Sinks => w.node \in S),
         \A c \in Channels \cap S :
           \E w \in Sent(sends) : w.node = c /\ Reported(w.value) = stored'[c],
         \A c \in Channels \ S : stored'[c] = stored[c],
         \A m \in Mixes \cap S :
           /\ \E w \in Sent(sends) : w.node = m /\ Reported(w.value) = intent'[m]
           /\ rewrites'[m] = 0,
         \A m \in Mixes \ S :
           intent'[m] = intent[m] /\ rewrites'[m] = rewrites[m] /\ age'[m] = age[m]
  PROVE  Traffic'
<1>1. wire \in Seq(WriteType) /\ foreign \in Nat
  BY DEF TypeOK
<1>2. Latest'
  BY DEF Traffic, Latest, LatestOf
<1>3. Addressed'
  BY <1>1, AddressedSent DEF Traffic
<1>4. ASSUME NEW c \in Channels \cap known PROVE ToldOf(c)' /\ PannedOf(c)'
  <2>1. ToldOf(c) /\ PannedOf(c) /\ (Pending(c) => Pending(c)') /\ c \in Sinks
    BY DEF Traffic, Told, Panned, Pending, Sinks
  <2>2. CASE c \in S
    <3>1. ToldOf(c)'
      BY <1>1, <2>2, ToldSent
    <3>2. QED
      BY <1>1, <2>1, <3>1, PannedSent DEF PanOf
  <2>3. CASE c \notin S
    <3>1. \A w \in Sent(sends) : w.node # c
      BY <2>1, <2>3
    <3>2. ToldOf(c)'
      BY <1>1, <2>1, <2>3, <3>1, ToldSent
    <3>3. QED
      BY <1>1, <2>1, <3>2, PannedSent DEF PanOf
  <2>4. QED
    BY <2>2, <2>3
<1>5. ASSUME NEW m \in Mixes PROVE HeardOf(m)' /\ CountedOf(m)'
  <2>1. HeardOf(m) /\ CountedOf(m) /\ (Pending(m) => Pending(m)') /\ m \in Sinks
    BY DEF Traffic, Heard, Counted, Pending, Sinks
  <2>2. CASE m \in S
    <3>1. HeardOf(m)'
      BY <1>1, <2>2, HeardSent
    <3>2. QED
      BY <1>1, <2>2, <3>1, CountedSent
  <2>3. CASE m \notin S
    <3>1. \A w \in Sent(sends) : w.node # m
      BY <2>1, <2>3
    <3>2. HeardOf(m)'
      BY <1>1, <2>1, <2>3, HeardSent
    <3>3. QED
      BY <1>1, <2>1, <2>3, <3>1, <3>2, CountedSent
  <2>4. QED
    BY <2>2, <2>3
<1>6. QED
  BY <1>2, <1>3, <1>4, <1>5 DEF Traffic, Told, Panned, Heard, Counted

LEMMA SetMixStep ==
  ASSUME TypeOK, Traffic, NEW m \in Mixes, NEW level \in LevelType, SetMix(m, level)
  PROVE  TypeOK' /\ Traffic'
<1>1. /\ WireTyped /\ FadersTyped /\ DuckingTyped /\ IntentsTyped /\ CellsTyped /\ AuditionTyped
      /\ foreign \in Nat /\ ops \in Nat
  BY Types
<1>2. /\ UNCHANGED <<view, there, node, events, known, foreign, flat, pan, ducking>>
      /\ UNCHANGED <<cells, pending, audition>> /\ ops' \in Nat
      /\ m \in known /\ Room(1) /\ stored' = [stored EXCEPT ![m] = level]
      /\ wire' = wire \o <<Plain(m, level)>>
  BY <1>1 DEF SetMix, Command, Writes
<1>3. /\ intent' = [n \in Mixes |-> IF n = m THEN level ELSE intent[n]]
      /\ rewrites' = [n \in Mixes |-> IF n = m THEN 0 ELSE rewrites[n]]
      /\ age' = [n \in Mixes |-> IF n = m THEN 2 ELSE age[n]]
  BY DEF SetMix, Intend
<1>4. /\ Plain(m, level) \in WriteType /\ Plain(m, level).node = m
      /\ Plain(m, level).shape = "flat" /\ Reported(Plain(m, level).value) = level
  BY PlainOf DEF Nodes, Sinks
<1> DEFINE sends == <<Plain(m, level)>>
<1>5. sends \in Seq(WriteType) /\ Len(sends) = 1 /\ Sent(sends) = {Plain(m, level)}
  BY <1>4, OneSent
<1> HIDE DEF sends
<1>6. WireTyped'
  BY <1>1, <1>2, <1>5, WireSent DEF sends
<1>7. Traffic'
  <2> DEFINE S == {m}
  <2>1. S \in SUBSET (Sinks \cap known) /\ m \notin Channels /\ m \in S /\ \A n \in S : n = m
    BY <1>2, GainAssumption DEF Sinks
  <2> HIDE DEF S
  <2>2. \A c \in Channels : stored'[c] = stored[c] /\ c \notin S
    BY <1>1, <1>2, <2>1 DEF FadersTyped
  <2>3. intent'[m] = level /\ rewrites'[m] = 0
    BY <1>3
  <2>4. \A n \in Mixes \ S :
          intent'[n] = intent[n] /\ rewrites'[n] = rewrites[n] /\ age'[n] = age[n]
    BY <1>3, <2>1
  <2>5. \A w \in Sent(sends) : w.shape = "flat" /\ (w.node \in Sinks => w.node \in S)
    BY <1>4, <1>5, <2>1
  <2>6. \E w \in Sent(sends) : w.node = m /\ Reported(w.value) = level
    BY <1>4, <1>5
  <2>7. wire' = wire \o sends /\ UNCHANGED duck
    BY <1>2 DEF sends, ducking
  <2>8. \A n \in Mixes \cap S :
          /\ \E w \in Sent(sends) : w.node = n /\ Reported(w.value) = intent'[n]
          /\ rewrites'[n] = 0
    BY <2>1, <2>3, <2>6
  <2>9. /\ \A c \in Channels \cap S :
             \E w \in Sent(sends) : w.node = c /\ Reported(w.value) = stored'[c]
        /\ \A c \in Channels \ S : stored'[c] = stored[c]
    BY <2>2
  <2>10. UNCHANGED <<there, node, events, known, foreign, flat, pan, duck>> /\ sends \in Seq(WriteType)
    BY <1>2, <1>5, <2>7
  <2>11. QED
    BY <2>1, <2>4, <2>5, <2>7, <2>8, <2>9, <2>10, FlatStep
<1>8. FadersTyped' /\ DuckingTyped' /\ IntentsTyped' /\ CellsTyped' /\ AuditionTyped'
  <2>1. FadersTyped' /\ DuckingTyped' /\ CellsTyped' /\ AuditionTyped'
    BY <1>1, <1>2 DEF ducking, cells, FadersTyped, DuckingTyped, CellsTyped, AuditionTyped
  <2>2. IntentsTyped'
    BY <1>1, <1>3 DEF IntentsTyped, Wish
  <2>3. QED
    BY <2>1, <2>2
<1>9. QED
  BY <1>2, <1>6, <1>7, <1>8, CommandTypes

LEMMA SetCellStep ==
  ASSUME TypeOK, Traffic, NEW k \in Chains, NEW v \in Levels, SetCell(k, v)
  PROVE  TypeOK' /\ Traffic'
<1>1. /\ WireTyped /\ FadersTyped /\ DuckingTyped /\ IntentsTyped /\ CellsTyped /\ AuditionTyped
      /\ foreign \in Nat /\ ops \in Nat
  BY Types
<1> DEFINE sends == IF k \in there THEN <<Plain(k, Level(v, FALSE))>> ELSE <<>>
<1>2. /\ UNCHANGED <<view, there, node, events, known, foreign, flat, pan, ducking>>
      /\ UNCHANGED <<guard, pending, audition, stored, armed>> /\ ops' \in Nat
      /\ Room(1) /\ cell' = [cell EXCEPT ![k] = v] /\ wire' = wire \o sends
  BY <1>1 DEF SetCell, Command, Writes
<1>3. v \in 0..Silence /\ Level(v, FALSE) \in LevelType
  BY GainAssumption DEF Level, LevelType
<1>4. /\ sends \in Seq(WriteType) /\ Len(sends) \in Nat /\ Len(sends) <= 1
      /\ \A w \in Sent(sends) : w.node = k /\ w.shape = "flat"
  <2>1. /\ Plain(k, Level(v, FALSE)) \in WriteType /\ Plain(k, Level(v, FALSE)).node = k
        /\ Plain(k, Level(v, FALSE)).shape = "flat"
    BY <1>3, PlainOf DEF Nodes
  <2>2. CASE k \in there
    <3> DEFINE w == Plain(k, Level(v, FALSE))
    <3>1. sends = <<w>>
      BY <2>2
    <3> HIDE DEF w, sends
    <3>2. w \in WriteType /\ w.node = k /\ w.shape = "flat"
      BY <2>1 DEF w
    <3>3. QED
      BY <3>1, <3>2, OneSent
  <2>3. CASE k \notin there
    BY <2>3 DEF Sent
  <2>4. QED
    BY <2>2, <2>3
<1> HIDE DEF sends
<1>5. WireTyped'
  <2>1. Room(Len(sends))
    BY <1>1, <1>2, <1>4, GainAssumption DEF Room, WireTyped
  <2>2. QED
    BY <1>1, <1>2, <1>4, <2>1, WireSent
<1>6. Traffic'
  <2>1. \A w \in Sent(sends) : w.node \notin Sinks
    BY <1>4, GainAssumption DEF Sinks
  <2>2. {} \in SUBSET (Sinks \cap known)
    OBVIOUS
  <2>3. QED
    BY <1>2, <1>4, <2>1, <2>2, FlatStep DEF ducking, guard
<1>7. FadersTyped' /\ DuckingTyped' /\ IntentsTyped' /\ CellsTyped' /\ AuditionTyped'
  <2>1. FadersTyped' /\ DuckingTyped' /\ IntentsTyped' /\ AuditionTyped'
    BY <1>1, <1>2 DEF ducking, guard, FadersTyped, DuckingTyped, IntentsTyped, AuditionTyped
  <2>2. CellsTyped'
    BY <1>1, <1>2, <1>3 DEF CellsTyped
  <2>3. QED
    BY <2>1, <2>2
<1>8. QED
  BY <1>2, <1>5, <1>6, <1>7, CommandTypes

\* What an audition found, and what is written over the levels.
LEMMA FoundTyped ==
  ASSUME TypeOK
  PROVE  /\ DOMAIN Found \subseteq Sinks \cap known
         /\ \A n \in DOMAIN Found : Found[n] \in LevelType
<1>1. CASE audition = None
  <2>1. DOMAIN Found = {}
    BY <1>1 DEF Found
  <2>2. QED
    BY <2>1
<1>2. CASE audition # None
  <2>1. Found = audition.saved
    BY <1>2 DEF Found
  <2>2. QED
    BY <1>2, <2>1, Types DEF AuditionTyped
<1>3. QED
  BY <1>1, <1>2

LEMMA OverlayOf ==
  ASSUME NEW faders \in [Sinks -> LevelType], NEW f, \A n \in DOMAIN f : f[n] \in LevelType
  PROVE  /\ Overlay(faders, f) \in [Sinks -> LevelType]
         /\ \A n \in Sinks : n \in DOMAIN f => Overlay(faders, f)[n] = f[n]
         /\ \A n \in Sinks : n \notin DOMAIN f => Overlay(faders, f)[n] = faders[n]
BY DEF Overlay

LEMMA IntendOf ==
  ASSUME TypeOK, NEW levels, \A n \in DOMAIN levels : levels[n] \in LevelType, Intend(levels)
  PROVE  /\ IntentsTyped'
         /\ \A m \in Mixes : m \in DOMAIN levels => intent'[m] = levels[m] /\ rewrites'[m] = 0
         /\ \A m \in Mixes : m \notin DOMAIN levels =>
              intent'[m] = intent[m] /\ rewrites'[m] = rewrites[m] /\ age'[m] = age[m]
<1>1. IntentsTyped
  BY Types
<1>2. QED
  BY <1>1 DEF Intend, IntentsTyped, Wish

LEMMA StopAuditionStep ==
  ASSUME TypeOK, Traffic, StopAudition
  PROVE  TypeOK' /\ Traffic'
<1>1. /\ WireTyped /\ FadersTyped /\ DuckingTyped /\ IntentsTyped /\ CellsTyped /\ AuditionTyped
      /\ foreign \in Nat /\ ops \in Nat
  BY Types
<1> DEFINE S == DOMAIN Found
<1>2. PICK back \in WriteTier(Found) : Room(Len(back)) /\ wire' = wire \o back
  BY DEF StopAudition, Writes
<1>3. /\ UNCHANGED <<view, there, node, events, known, foreign, flat, pan, ducking>>
      /\ UNCHANGED <<cells, pending>> /\ ops' \in Nat /\ audition' = None
      /\ stored' = Overlay(stored, Found) /\ Intend(Found)
  BY <1>1 DEF StopAudition, Command
<1>4. S \in SUBSET (Sinks \cap known) /\ \A n \in S : Found[n] \in LevelType
  BY FoundTyped
<1>5. back \in Seq(WriteType)
  BY <1>2, <1>4, TierOf
<1>6. /\ \A w \in Sent(back) : w.shape = "flat" /\ w.node \in S
      /\ \A n \in S : \E w \in Sent(back) : w.node = n /\ Reported(w.value) = Found[n]
  <2>1. DOMAIN Found = S /\ S \in SUBSET Sinks
    BY <1>4
  <2> HIDE DEF S
  <2>2. QED
    BY <1>2, <1>4, <2>1, TierOf
<1>7. /\ stored' \in [Sinks -> LevelType]
      /\ \A n \in Sinks : n \in S => stored'[n] = Found[n]
      /\ \A n \in Sinks : n \notin S => stored'[n] = stored[n]
  BY <1>1, <1>3, <1>4, OverlayOf DEF FadersTyped
<1>8. /\ IntentsTyped'
      /\ \A m \in Mixes : m \in S => intent'[m] = Found[m] /\ rewrites'[m] = 0
      /\ \A m \in Mixes : m \notin S =>
           intent'[m] = intent[m] /\ rewrites'[m] = rewrites[m] /\ age'[m] = age[m]
  BY <1>3, <1>4, IntendOf
<1> HIDE DEF S
<1>9. WireTyped'
  BY <1>1, <1>2, <1>5, WireSent
<1>10. Traffic'
  <2>1. UNCHANGED <<there, node, events, known, foreign, flat, pan, duck>>
    BY <1>3 DEF ducking
  <2>2. \A c \in Channels \cap S :
          \E w \in Sent(back) : w.node = c /\ Reported(w.value) = stored'[c]
    BY <1>6, <1>7 DEF Sinks
  <2>3. \A c \in Channels \ S : stored'[c] = stored[c]
    BY <1>7 DEF Sinks
  <2>4. \A m \in Mixes \cap S :
          /\ \E w \in Sent(back) : w.node = m /\ Reported(w.value) = intent'[m]
          /\ rewrites'[m] = 0
    BY <1>6, <1>8
  <2>5. \A m \in Mixes \ S :
          intent'[m] = intent[m] /\ rewrites'[m] = rewrites[m] /\ age'[m] = age[m]
    BY <1>8
  <2>6. \A w \in Sent(back) : w.shape = "flat" /\ (w.node \in Sinks => w.node \in S)
    BY <1>6
  <2>7. QED
    BY <1>2, <1>4, <1>5, <2>1, <2>2, <2>3, <2>4, <2>5, <2>6, FlatStep
<1>11. FadersTyped' /\ DuckingTyped' /\ CellsTyped' /\ AuditionTyped'
  BY <1>1, <1>3, <1>7 DEF ducking, cells, FadersTyped, DuckingTyped, CellsTyped, AuditionTyped
<1>12. QED
  BY <1>3, <1>8, <1>9, <1>10, <1>11, CommandTypes

LEMMA StartAuditionStep ==
  ASSUME TypeOK, Traffic, NEW n \in Sinks, StartAudition(n)
  PROVE  TypeOK' /\ Traffic'
<1>1. /\ WireTyped /\ FadersTyped /\ DuckingTyped /\ IntentsTyped /\ CellsTyped /\ AuditionTyped
      /\ foreign \in Nat /\ ops \in Nat
  BY Types
<1> DEFINE before == Overlay(stored, Found)
           solo == [s \in Tier(n) |->
                      IF s = n THEN Level(0, FALSE) ELSE [before[s] EXCEPT !.mute = TRUE]]
           F == DOMAIN Found
           T == Tier(n)
           S == F \cup T
           levels == [s \in F \cup T |-> stored'[s]]
<1>2. PICK back \in WriteTier(Found), tier \in WriteTier(solo) :
        Room(Len(back) + Len(tier)) /\ wire' = wire \o (back \o tier)
  BY DEF StartAudition, Writes
<1>3. /\ UNCHANGED <<view, there, node, events, known, foreign, flat, pan, ducking>>
      /\ UNCHANGED <<cells, pending>> /\ ops' \in Nat /\ n \in known
      /\ stored' = Overlay(before, solo) /\ Intend(levels)
      /\ audition' = [target |-> n, saved |-> [s \in T |-> before[s]]]
  BY <1>1 DEF StartAudition, Command
<1>4. F \in SUBSET (Sinks \cap known) /\ \A s \in F : Found[s] \in LevelType
  BY FoundTyped
<1>5. T \in SUBSET (Sinks \cap known) /\ n \in T
  BY <1>3 DEF Tier, Sinks
<1>6. /\ before \in [Sinks -> LevelType]
      /\ \A s \in Sinks : s \in F => before[s] = Found[s]
      /\ \A s \in Sinks : s \notin F => before[s] = stored[s]
  BY <1>1, <1>4, OverlayOf DEF FadersTyped
<1> HIDE DEF before
<1>7. DOMAIN solo = T /\ \A s \in T : solo[s] \in LevelType
  <2>1. \A level \in LevelType : [level EXCEPT !.mute = TRUE] \in LevelType
    BY DEF LevelType
  <2>2. Level(0, FALSE) \in LevelType
    BY DEF Level, LevelType
  <2>3. ASSUME NEW s \in T PROVE solo[s] \in LevelType
    <3>1. before[s] \in LevelType
      BY <1>5, <1>6
    <3>2. solo[s] = IF s = n THEN Level(0, FALSE) ELSE [before[s] EXCEPT !.mute = TRUE]
      OBVIOUS
    <3> HIDE DEF solo
    <3>3. QED
      BY <2>1, <2>2, <3>1, <3>2
  <2>4. DOMAIN solo = T
    OBVIOUS
  <2> HIDE DEF solo
  <2>5. QED
    BY <2>3, <2>4
<1> HIDE DEF solo, T
<1>8. /\ stored' \in [Sinks -> LevelType]
      /\ \A s \in Sinks : s \in T => stored'[s] = solo[s]
      /\ \A s \in Sinks : s \notin T => stored'[s] = before[s]
  BY <1>3, <1>6, <1>7, OverlayOf
<1>9. /\ back \in Seq(WriteType)
      /\ \A w \in Sent(back) : w.shape = "flat" /\ w.node \in F
      /\ \A s \in F : \E w \in Sent(back) : w.node = s /\ Reported(w.value) = Found[s]
  <2>1. DOMAIN Found = F /\ F \in SUBSET Sinks
    BY <1>4
  <2> HIDE DEF F
  <2>2. QED
    BY <1>2, <1>4, <2>1, TierOf
<1>10. /\ tier \in Seq(WriteType)
       /\ \A w \in Sent(tier) : w.shape = "flat" /\ w.node \in T
       /\ \A s \in T : \E w \in Sent(tier) : w.node = s /\ Reported(w.value) = solo[s]
  BY <1>2, <1>5, <1>7, TierOf
<1>11. /\ back \o tier \in Seq(WriteType) /\ Len(back \o tier) = Len(back) + Len(tier)
       /\ Sent(back \o tier) = Sent(back) \cup Sent(tier)
  BY <1>9, <1>10, SentConcat
<1> DEFINE sends == back \o tier
<1>12. DOMAIN levels = S /\ \A s \in S : levels[s] = stored'[s] /\ levels[s] \in LevelType
  BY <1>4, <1>5, <1>8
<1> HIDE DEF levels, F, sends
<1>13. /\ IntentsTyped'
       /\ \A m \in Mixes : m \in S => intent'[m] = stored'[m] /\ rewrites'[m] = 0
       /\ \A m \in Mixes : m \notin S =>
            intent'[m] = intent[m] /\ rewrites'[m] = rewrites[m] /\ age'[m] = age[m]
  BY <1>3, <1>12, IntendOf
<1>14. WireTyped'
  BY <1>1, <1>2, <1>11, WireSent DEF sends
<1>15. S \in SUBSET (Sinks \cap known)
  BY <1>4, <1>5
<1>16. \A s \in S : \E w \in Sent(sends) : w.node = s /\ Reported(w.value) = stored'[s]
  BY <1>4, <1>5, <1>6, <1>8, <1>9, <1>10, <1>11 DEF sends
<1>17. \A w \in Sent(sends) : w.shape = "flat" /\ w.node \in S
  BY <1>9, <1>10, <1>11 DEF sends
<1>18. \A s \in Sinks : s \notin S => stored'[s] = stored[s]
  BY <1>6, <1>8
<1> HIDE DEF S
<1>19. Traffic'
  <2>1. UNCHANGED <<there, node, events, known, foreign, flat, pan, duck>>
    BY <1>3 DEF ducking
  <2>2. \A c \in Channels \cap S :
          \E w \in Sent(sends) : w.node = c /\ Reported(w.value) = stored'[c]
    BY <1>16
  <2>3. \A c \in Channels \ S : stored'[c] = stored[c]
    BY <1>18 DEF Sinks
  <2>4. \A m \in Mixes \cap S :
          /\ \E w \in Sent(sends) : w.node = m /\ Reported(w.value) = intent'[m]
          /\ rewrites'[m] = 0
    BY <1>13, <1>16
  <2>5. \A m \in Mixes \ S :
          intent'[m] = intent[m] /\ rewrites'[m] = rewrites[m] /\ age'[m] = age[m]
    BY <1>13
  <2>6. \A w \in Sent(sends) : w.shape = "flat" /\ (w.node \in Sinks => w.node \in S)
    BY <1>17
  <2>7. wire' = wire \o sends /\ sends \in Seq(WriteType)
    BY <1>2, <1>11 DEF sends
  <2>8. QED
    BY <1>15, <2>1, <2>2, <2>3, <2>4, <2>5, <2>6, <2>7, FlatStep
<1>20. AuditionTyped'
  <2>1. /\ audition'.target = n /\ DOMAIN audition'.saved = T
        /\ \A s \in T : audition'.saved[s] = before[s]
    BY <1>3
  <2>2. QED
    BY <1>3, <1>5, <1>6, <2>1 DEF AuditionTyped
<1>21. FadersTyped' /\ DuckingTyped' /\ CellsTyped'
  BY <1>1, <1>3, <1>8 DEF ducking, cells, FadersTyped, DuckingTyped, CellsTyped
<1>22. QED
  BY <1>3, <1>13, <1>14, <1>19, <1>20, <1>21, CommandTypes
-----------------------------------------------------------------------------
(* Levels for sinks that come back                                         *)

Restores(q, faders) == [i \in DOMAIN q |-> RestoreWrite(q[i], faders)]

\* What a restore sends: the channels' gains as the mixer now believes them, the
\* mixes' levels as they are wanted.
RestoredBy(sends, now, panned, faders, wanted) ==
  /\ \A w \in Sent(sends) : w.node \in now \cup panned
  /\ \A w \in Sent(sends) : \A c \in Channels : w.node = c =>
       /\ w.value.r = w.value.l + PanOf(c)'
       /\ Reported(w.value) = Believed(c)'
  /\ \A w \in Sent(sends) : \A m \in Mixes : w.node = m => Reported(w.value) = wanted[m]
  /\ \A n \in now \cup panned : \E w \in Sent(sends) : w.node = n
  /\ \A n \in Sinks : n \notin Channels \cap now => stored'[n] = faders[n]

LEMMA RestoreSent ==
  ASSUME TypeOK, NEW present, NEW faders \in [Sinks -> LevelType], NEW wanted \in [Sinks -> Wish],
         NEW panned \in SUBSET Channels, Restore(present, faders, wanted, panned),
         UNCHANGED <<pan, ducking>>,
         \A n \in known' \cap Sinks : n \in present \/ wanted[n] = None,
         NEW now, now = Restored(present, wanted)
  PROVE  \E sends \in Seq(WriteType) :
           wire' = wire \o sends /\ WireTyped' /\ FadersTyped'
             /\ RestoredBy(sends, now, panned, faders, wanted)
<1> DEFINE after == [n \in Sinks |-> IF n \in now THEN wanted[n] ELSE faders[n]]
<1>0. WireTyped /\ DuckingTyped /\ duck \in [Channels -> Int] /\ duck' = duck /\ pan' = pan
  BY Types DEF ducking, DuckingTyped
<1>1. PICK q \in Orders(now), p \in Orders(panned) :
        /\ Room(Len(q) + Len(p))
        /\ wire' = wire \o (Restores(q, after) \o Gains(p, after, pan, duck))
        /\ stored' = [n \in Sinks |-> IF n \in Mixes THEN faders[n] ELSE after[n]]
        /\ pending' = [n \in Sinks |-> IF n \in now THEN None ELSE wanted[n]]
  BY DEF Restore, Writes, Restores, Gains
<1>2. now \in SUBSET Sinks /\ \A n \in now : wanted[n] \in LevelType
  BY DEF Restored, Wish
<1>3. /\ after \in [Sinks -> LevelType]
      /\ \A n \in now : after[n] = wanted[n]
      /\ \A n \in Sinks : n \notin now => after[n] = faders[n]
  BY <1>2
<1> HIDE DEF after
<1>5. /\ q \in Seq(now) /\ DOMAIN q = 1..Len(q)
      /\ \A i \in DOMAIN q : q[i] \in now
      /\ \A n \in now : \E i \in DOMAIN q : q[i] = n
  BY <1>2, OrdersOf
<1>6. ASSUME NEW n \in now
      PROVE  /\ RestoreWrite(n, after) \in WriteType /\ RestoreWrite(n, after).node = n
             /\ n \in Channels => RestoreWrite(n, after) = ChannelGain(n, after, pan, duck)
             /\ n \in Mixes => Reported(RestoreWrite(n, after).value) = wanted[n]
  <2>1. CASE n \in Channels
    <3>1. RestoreWrite(n, after) = ChannelGain(n, after, pan, duck) /\ n \notin Mixes
      BY <2>1, GainAssumption DEF RestoreWrite
    <3>2. ChannelGain(n, after, pan, duck) \in WriteType /\ ChannelGain(n, after, pan, duck).node = n
      BY <1>0, <1>3, <2>1, GainOf
    <3>3. QED
      BY <2>1, <3>1, <3>2
  <2>2. CASE n \notin Channels
    <3>1. RestoreWrite(n, after) = Plain(n, wanted[n]) /\ wanted[n] \in LevelType /\ n \in Nodes
      BY <1>2, <1>3, <2>2 DEF RestoreWrite, Nodes
    <3>2. /\ Plain(n, wanted[n]) \in WriteType /\ Plain(n, wanted[n]).node = n
          /\ Reported(Plain(n, wanted[n]).value) = wanted[n]
      BY <3>1, PlainOf
    <3>3. QED
      BY <2>2, <3>1, <3>2
  <2>3. QED
    BY <2>1, <2>2
<1>7. /\ Restores(q, after) \in Seq(WriteType) /\ Len(Restores(q, after)) = Len(q)
      /\ Sent(Restores(q, after)) = {RestoreWrite(n, after) : n \in now}
  <2>1. \A i \in DOMAIN q : RestoreWrite(q[i], after) \in WriteType
    BY <1>5, <1>6
  <2>2. Restores(q, after) \in Seq(WriteType) /\ Len(Restores(q, after)) = Len(q)
    BY <1>5, <2>1 DEF Restores
  <2>3. QED
    BY <1>5, <2>2 DEF Sent, Restores
<1>8. /\ Gains(p, after, pan, duck) \in Seq(WriteType) /\ Len(Gains(p, after, pan, duck)) = Len(p)
      /\ Sent(Gains(p, after, pan, duck)) = {ChannelGain(c, after, pan, duck) : c \in panned}
  BY <1>0, <1>3, GainsOf
<1> DEFINE sends == Restores(q, after) \o Gains(p, after, pan, duck)
<1>9. /\ sends \in Seq(WriteType) /\ Len(sends) = Len(q) + Len(p)
      /\ Sent(sends) = {RestoreWrite(n, after) : n \in now}
                         \cup {ChannelGain(c, after, pan, duck) : c \in panned}
  BY <1>7, <1>8, SentConcat
<1>10. wire' = wire \o sends
  BY <1>1
<1> HIDE DEF sends
<1>11. WireTyped'
  BY <1>0, <1>1, <1>9, <1>10, WireSent
<1>12. FadersTyped'
  <2>1. stored' \in [Sinks -> LevelType] /\ pending' \in [Sinks -> Wish]
    BY <1>1, <1>3 DEF Wish
  <2>2. \A n \in known' \cap Sinks : n \in now \/ wanted[n] = None
    BY DEF Restored
  <2>3. QED
    BY <1>1, <2>1, <2>2 DEF FadersTyped
<1>13. ASSUME NEW c \in Channels
       PROVE  LET w == ChannelGain(c, after, pan, duck) IN
              /\ w.node = c /\ w.value.r = w.value.l + PanOf(c)' /\ Reported(w.value) = Believed(c)'
  <2>1. stored'[c] = after[c]
    BY <1>1, GainAssumption DEF Sinks
  <2>2. LET w == ChannelGain(c, after, pan, duck) IN
        /\ w.node = c
        /\ Reported(w.value) = Level(after[c].vol + duck[c], after[c].mute)
        /\ w.value.r = w.value.l + (IF c \in pan THEN PanSide ELSE 0)
    BY <1>0, <1>3, GainOf
  <2>3. Believed(c)' = Level(after[c].vol + duck[c], after[c].mute)
    BY <1>0, <2>1 DEF Believed
  <2>4. PanOf(c)' = IF c \in pan THEN PanSide ELSE 0
    BY <1>0 DEF PanOf
  <2>5. QED
    BY <2>2, <2>3, <2>4
<1>14. ASSUME NEW w \in Sent(sends)
       PROVE  /\ w.node \in now \cup panned
              /\ \A c \in Channels : w.node = c => w = ChannelGain(c, after, pan, duck)
              /\ \A m \in Mixes : w.node = m => Reported(w.value) = wanted[m]
  <2>1. CASE \E n \in now : w = RestoreWrite(n, after)
    BY <1>6, <2>1
  <2>2. CASE \E c \in panned : w = ChannelGain(c, after, pan, duck)
    <3>1. PICK c \in panned : w = ChannelGain(c, after, pan, duck)
      BY <2>2
    <3>2. w.node = c /\ c \in Channels /\ c \notin Mixes
      BY <1>13, <3>1, GainAssumption
    <3>3. QED
      BY <3>1, <3>2
  <2>3. QED
    BY <1>9, <2>1, <2>2
<1>15. ASSUME NEW n \in now \cup panned PROVE \E w \in Sent(sends) : w.node = n
  <2>1. CASE n \in now
    BY <1>6, <1>9, <2>1
  <2>2. CASE n \in panned
    BY <1>9, <1>13, <2>2
  <2>3. QED
    BY <2>1, <2>2
<1>16. \A n \in Sinks : n \notin Channels \cap now => stored'[n] = faders[n]
  BY <1>1, <1>3 DEF Sinks
<1>17. \A w \in Sent(sends) : \A c \in Channels : w.node = c =>
         /\ w.value.r = w.value.l + PanOf(c)'
         /\ Reported(w.value) = Believed(c)'
  BY <1>13, <1>14
<1>18. RestoredBy(sends, now, panned, faders, wanted)
  BY <1>14, <1>15, <1>16, <1>17 DEF RestoredBy
<1>19. QED
  BY <1>9, <1>10, <1>11, <1>12, <1>18

LEMMA ImportLevelsStep ==
  ASSUME TypeOK, Traffic, NEW level \in LevelType, ImportLevels(level)
  PROVE  TypeOK' /\ Traffic'
<1>1. /\ WireTyped /\ FadersTyped /\ DuckingTyped /\ IntentsTyped /\ CellsTyped /\ AuditionTyped
      /\ foreign \in Nat /\ ops \in Nat
  BY Types
<1> DEFINE wanted == [n \in Sinks |-> IF n \in Viewed THEN level ELSE None]
           S == Restored(known, wanted)
<1>2. /\ UNCHANGED <<view, there, node, events, known, foreign, flat, pan, ducking>>
      /\ UNCHANGED <<cells, audition>> /\ ops' \in Nat
      /\ Restore(known, stored, wanted, {}) /\ Intend([m \in S \cap Mixes |-> level])
  BY <1>1 DEF ImportLevels, Command
<1>3. wanted \in [Sinks -> Wish]
  BY DEF Wish
<1>4. S = known \cap Sinks /\ \A n \in S : wanted[n] = level
  BY NoLevel DEF Restored, TypeOK
<1> HIDE DEF wanted
<1>5. PICK sends \in Seq(WriteType) :
        wire' = wire \o sends /\ WireTyped' /\ FadersTyped' /\ RestoredBy(sends, S, {}, stored, wanted)
  <2>1. {} \in SUBSET Channels /\ stored \in [Sinks -> LevelType] /\ known' = known
    BY <1>1, <1>2 DEF FadersTyped
  <2>2. \A n \in known' \cap Sinks : n \in known \/ wanted[n] = None
    BY <2>1
  <2> HIDE DEF S
  <2>3. UNCHANGED <<pan, ducking>> /\ Restore(known, stored, wanted, {}) /\ S = Restored(known, wanted)
    BY <1>2 DEF S
  <2>4. QED
    BY <1>3, <2>1, <2>2, <2>3, RestoreSent
<1>5a. /\ \A w \in Sent(sends) : w.node \in S
       /\ \A w \in Sent(sends) : \A c \in Channels : w.node = c =>
            /\ w.value.r = w.value.l + PanOf(c)'
            /\ Reported(w.value) = Believed(c)'
       /\ \A w \in Sent(sends) : \A m \in Mixes : w.node = m => Reported(w.value) = wanted[m]
       /\ \A n \in S : \E w \in Sent(sends) : w.node = n
  BY <1>5 DEF RestoredBy
<1> HIDE DEF S
<1>6. /\ IntentsTyped'
      /\ \A m \in Mixes : m \in S => intent'[m] = level /\ rewrites'[m] = 0
      /\ \A m \in Mixes : m \notin S =>
           intent'[m] = intent[m] /\ rewrites'[m] = rewrites[m] /\ age'[m] = age[m]
  <2> DEFINE levels == [m \in S \cap Mixes |-> level]
  <2>1. DOMAIN levels = S \cap Mixes /\ \A m \in S \cap Mixes : levels[m] = level
    OBVIOUS
  <2> HIDE DEF levels
  <2>2. Intend(levels)
    BY <1>2 DEF levels
  <2>3. QED
    BY <2>1, <2>2, IntendOf
<1>7. wire \in Seq(WriteType) /\ foreign' = foreign /\ node' = node /\ known' = known
  BY <1>1, <1>2 DEF WireTyped
<1>8. Latest'
  BY <1>2 DEF Traffic, Latest, LatestOf
<1>9. Addressed'
  BY <1>2, <1>4, <1>5, <1>5a, <1>7, AddressedSent DEF Traffic
<1>10. ASSUME NEW c \in Channels \cap known PROVE ToldOf(c)' /\ PannedOf(c)'
  <2>1. PannedOf(c) /\ c \in S
    BY <1>4 DEF Traffic, Panned, Sinks
  <2>2. \E w \in Sent(sends) : w.node = c /\ Reported(w.value) = Believed(c)'
    BY <1>5, <1>5a, <2>1
  <2>3. \A w \in Sent(sends) : w.node = c => w.value.r = w.value.l + PanOf(c)'
    BY <1>5a
  <2>4. ToldOf(c)'
    BY <1>2, <1>5, <1>5a, <1>7, <2>2, ToldSent
  <2>5. PannedOf(c)'
    BY <1>2, <1>5, <1>5a, <1>7, <2>1, <2>2, <2>3, PannedSent
  <2>6. QED
    BY <2>4, <2>5
<1>11. ASSUME NEW m \in Mixes PROVE HeardOf(m)' /\ CountedOf(m)'
  <2>1. HeardOf(m) /\ CountedOf(m) /\ (Pending(m) => Pending(m)') /\ m \in Sinks
    BY <1>2 DEF Traffic, Heard, Counted, Pending, Sinks
  <2>2. CASE m \in S
    <3>1. m \in known' /\ \E w \in Sent(sends) : w.node = m /\ Reported(w.value) = intent'[m]
      BY <1>4, <1>5, <1>5a, <1>6, <1>7, <2>2
    <3>2. HeardOf(m)'
      BY <1>5, <1>5a, <1>7, <3>1, HeardSent
    <3>3. CountedOf(m)'
      BY <1>1, <1>2, <1>5, <1>5a, <1>6, <1>7, <2>2, CountedSent
    <3>4. QED
      BY <3>2, <3>3
  <2>3. CASE m \notin S
    <3>1. \A w \in Sent(sends) : w.node # m
      BY <1>5, <1>5a, <2>3
    <3>2. HeardOf(m)'
      BY <1>5, <1>5a, <1>6, <1>7, <2>1, <2>3, HeardSent
    <3>3. CountedOf(m)'
      BY <1>1, <1>2, <1>5, <1>5a, <1>6, <1>7, <2>1, <2>3, <3>1, CountedSent
    <3>4. QED
      BY <3>2, <3>3
  <2>4. QED
    BY <2>2, <2>3
<1>12. Traffic'
  BY <1>7, <1>8, <1>9, <1>10, <1>11 DEF Traffic, Told, Panned, Heard, Counted
<1>13. DuckingTyped' /\ CellsTyped' /\ AuditionTyped'
  BY <1>1, <1>2 DEF ducking, cells, DuckingTyped, CellsTyped, AuditionTyped
<1>14. QED
  BY <1>2, <1>5, <1>6, <1>12, <1>13, CommandTypes
-----------------------------------------------------------------------------
(* Reports                                                                 *)

\* A report of one node is handled: writes to it alone, if any, and nothing
\* changes for another.
LEMMA HandledStep ==
  ASSUME TypeOK, Traffic, events # <<>>, events' = Tail(events), NEW h, h = Head(events),
         UNCHANGED <<there, node, foreign, flat, pan, duck>>,
         known \cap Sinks \subseteq known',
         \A n \in known' \cap Sinks : n \in known \/ n = h.node,
         NEW sends \in Seq(WriteType), wire' = wire \o sends,
         \A w \in Sent(sends) : w.node \in Sinks => w.node = h.node /\ w.node \in known',
         \A c \in Channels : c # h.node => stored'[c] = stored[c],
         \A m \in Mixes : m # h.node =>
           intent'[m] = intent[m] /\ rewrites'[m] = rewrites[m] /\ age'[m] = age[m],
         h.node \in Channels => ToldOf(h.node)' /\ PannedOf(h.node)',
         h.node \in Mixes => HeardOf(h.node)' /\ CountedOf(h.node)'
  PROVE  Traffic'
<1>0. wire \in Seq(WriteType) /\ foreign \in Nat /\ events \in Seq(EventType) /\ Latest
  BY DEF TypeOK, Traffic
<1>1. /\ Latest'
      /\ \A n \in Nodes : n # h.node /\ Pending(n) => Pending(n)'
      /\ \A i \in DOMAIN events' : \E j \in DOMAIN events : events'[i] = events[j]
  BY <1>0, Handling
<1>2. Addressed'
  BY <1>0, AddressedSent DEF Traffic
<1>3. ASSUME NEW c \in Channels \cap known' PROVE ToldOf(c)' /\ PannedOf(c)'
  <2>1. CASE c = h.node
    BY <2>1
  <2>2. CASE c # h.node
    <3>1. c \in known /\ c \in Sinks /\ c \in Nodes
      BY <2>2 DEF Sinks, Nodes
    <3>2. ToldOf(c) /\ PannedOf(c) /\ (Pending(c) => Pending(c)')
      BY <1>1, <2>2, <3>1 DEF Traffic, Told, Panned
    <3>3. \A w \in Sent(sends) : w.node # c
      BY <2>2, <3>1
    <3>4. PanOf(c)' = PanOf(c)
      BY DEF PanOf
    <3>5. ToldOf(c)'
      BY <1>0, <2>2, <3>2, <3>3, ToldSent
    <3>6. PannedOf(c)'
      BY <1>0, <3>2, <3>3, <3>4, PannedSent
    <3>7. QED
      BY <3>5, <3>6
  <2>3. QED
    BY <2>1, <2>2
<1>4. ASSUME NEW m \in Mixes PROVE HeardOf(m)' /\ CountedOf(m)'
  <2>1. CASE m = h.node
    BY <2>1
  <2>2. CASE m # h.node
    <3>1. m \in Sinks /\ m \in Nodes
      BY DEF Sinks, Nodes
    <3>2. HeardOf(m) /\ CountedOf(m) /\ (Pending(m) => Pending(m)')
      BY <1>1, <2>2, <3>1 DEF Traffic, Heard, Counted
    <3>3. \A w \in Sent(sends) : w.node # m
      BY <2>2, <3>1
    <3>4. HeardOf(m)'
      BY <1>0, <2>2, <3>2, HeardSent
    <3>5. CountedOf(m)'
      BY <1>0, <1>1, <2>2, <3>2, <3>3, CountedSent
    <3>6. QED
      BY <3>4, <3>5
  <2>3. QED
    BY <2>1, <2>2
<1>5. QED
  BY <1>1, <1>2, <1>3, <1>4 DEF Traffic, Told, Panned, Heard, Counted

\* What a report says, and of what.
LEMMA ReportTyped ==
  ASSUME TypeOK, Handles("node"), NEW h, h = Head(events)
  PROVE  /\ events # <<>> /\ h.node \in Nodes /\ h.level \in LevelType
         /\ h.node \in Viewed /\ (h.node \in Sinks => h.node \in there)
<1>1. events # <<>> /\ h.type = "node" /\ events \in Seq(EventType)
  BY DEF Handles, TypeOK
<1>2. 1 \in DOMAIN events /\ h = events[1] /\ h \in EventType
  BY <1>1
<1>3. events[1].node \in there \cup (Chains \cap Viewed) /\ there \subseteq Viewed
  BY <1>2 DEF TypeOK
<1>4. h.node \in Nodes /\ h.level \in LevelType
  BY <1>1, <1>2 DEF EventType
<1>5. QED
  BY <1>1, <1>2, <1>3, <1>4, GainAssumption DEF Sinks

LEMMA HandledTypes ==
  ASSUME TypeOK, Latest, events # <<>>, events' = Tail(events), NEW h, h = Head(events),
         UNCHANGED <<view, there, node, flat, foreign, ops>>,
         \A n \in known' : n \in known \/ (n \in Viewed /\ (n \in Sinks => n \in there)),
         WireTyped', FadersTyped', DuckingTyped', IntentsTyped', CellsTyped', AuditionTyped'
  PROVE  TypeOK'
<1>1. /\ events' \in Seq(EventType)
      /\ \A i \in DOMAIN events' : \E j \in DOMAIN events : events'[i] = events[j]
  <2>1. events \in Seq(EventType)
    BY DEF TypeOK
  <2>2. QED
    BY <2>1, Handling
<1>2. \A i \in DOMAIN events' : events'[i].node \in there \cup (Chains \cap Viewed)
  BY <1>1 DEF TypeOK
<1>3. known' \cap Sinks \subseteq there /\ known' \subseteq Viewed
  BY DEF TypeOK
<1>4. QED
  BY <1>1, <1>2, <1>3 DEF TypeOK, WireTyped, FadersTyped, DuckingTyped, IntentsTyped, CellsTyped,
    AuditionTyped, Viewed

\* A channel that is known, and one that comes up.
LEMMA OnChannelStep ==
  ASSUME TypeOK, Traffic, Handles("node"), Handled, NEW h, h = Head(events),
         NEW c \in Channels, c = h.node, OnChannel(c, h.level)
  PROVE  TypeOK' /\ Traffic'
<1>1. /\ WireTyped /\ FadersTyped /\ DuckingTyped /\ IntentsTyped /\ CellsTyped /\ AuditionTyped
      /\ foreign \in Nat /\ ops \in Nat /\ wire \in Seq(WriteType) /\ events \in Seq(EventType)
  BY Types DEF WireTyped, TypeOK
<1>2. /\ events # <<>> /\ h.level \in LevelType /\ c \in Viewed /\ c \in there
      /\ c \in Sinks /\ c \notin Mixes
  BY ReportTyped, GainAssumption DEF Sinks
<1>3. /\ events' = Tail(events) /\ UNCHANGED <<view, there, node, ops, foreign, flat>>
      /\ UNCHANGED <<pan, ducking, audition, guard, cells>> /\ known' = known \cup {c}
  BY DEF Handled, OnChannel, bounds
<1> DEFINE faders == [stored EXCEPT ![c] = Fader(c, h.level)]
<1>4. faders \in [Sinks -> LevelType] /\ faders[c] = Fader(c, h.level)
      /\ \A n \in Sinks : n # c => faders[n] = stored[n]
  <2>1. duck[c] \in Int
    BY <1>1 DEF DuckingTyped
  <2>2. Fader(c, h.level) \in LevelType
    BY <1>2, <2>1 DEF Fader, LevelType
  <2>3. QED
    BY <1>1, <1>2, <2>2 DEF FadersTyped
<1> HIDE DEF faders
\* after division by the ducking in force the mixer believes what it was told
<1>5. stored'[c] = Fader(c, h.level) => Believed(c)' = h.level
  <2>1. duck[c] \in Int /\ duck'[c] = duck[c]
    BY <1>1, <1>3 DEF ducking, DuckingTyped
  <2>2. QED
    BY <1>2, <2>1 DEF Believed, Fader, Level, LevelType
<1>6. Pending(c)' \/ h.level = Reported(node[c])
  BY <1>1, <1>2, <1>3, Handling DEF Traffic
<1>7. DuckingTyped' /\ IntentsTyped' /\ CellsTyped' /\ AuditionTyped'
  BY <1>1, <1>3 DEF ducking, guard, cells, DuckingTyped, IntentsTyped, CellsTyped, AuditionTyped
<1>8. /\ known \cap Sinks \subseteq known' /\ UNCHANGED <<there, node, foreign, flat, pan, duck>>
      /\ \A n \in known' \cap Sinks : n \in known \/ n = h.node
      /\ \A m \in Mixes : m # h.node =>
           intent'[m] = intent[m] /\ rewrites'[m] = rewrites[m] /\ age'[m] = age[m]
      /\ \A n \in known' : n \in known \/ (n \in Viewed /\ (n \in Sinks => n \in there))
  BY <1>2, <1>3 DEF ducking, guard
<1>9. CASE c \in known
  <2>1. stored' = faders /\ UNCHANGED <<wire, pending>>
    BY <1>9 DEF OnChannel, faders
  <2> DEFINE sends == <<>>
  <2>2. sends \in Seq(WriteType) /\ wire' = wire \o sends /\ Sent(sends) = {}
    BY <1>1, <2>1 DEF Sent
  <2> HIDE DEF sends
  <2>3. ToldOf(c)'
    BY <1>1, <1>3, <1>4, <1>5, <1>6, <2>1, <2>2, ToldSent
  <2>4. PannedOf(c)'
    <3>1. PannedOf(c) /\ PanOf(c)' = PanOf(c)
      BY <1>3, <1>9 DEF Traffic, Panned, PanOf
    <3>2. QED
      BY <1>1, <1>3, <2>2, <3>1, PannedSent
  <2>5. \A d \in Channels : d # h.node => stored'[d] = stored[d]
    BY <1>4, <2>1 DEF Sinks
  <2>6. Traffic'
    BY <1>1, <1>2, <1>3, <1>8, <2>2, <2>3, <2>4, <2>5, HandledStep
  <2>7. WireTyped' /\ FadersTyped'
    BY <1>1, <1>3, <1>4, <1>9, <2>1 DEF WireTyped, FadersTyped
  <2>8. QED
    BY <1>2, <1>3, <1>7, <1>8, <2>6, <2>7, HandledTypes DEF Traffic
<1>10. CASE c \notin known
  <2> DEFINE now == Restored(known', pending)
             panned == pan \cap {c}
  <2>1. Restore(known', faders, pending, panned)
    BY <1>10 DEF OnChannel, faders
  <2>2. now \subseteq {c} /\ panned \in SUBSET Channels
    BY <1>1, <1>3 DEF Restored, FadersTyped
  <2> HIDE DEF now, panned
  <2>3. PICK sends \in Seq(WriteType) :
          wire' = wire \o sends /\ WireTyped' /\ FadersTyped'
            /\ RestoredBy(sends, now, panned, faders, pending)
    <3>1. pending \in [Sinks -> Wish] /\ now = Restored(known', pending)
      BY <1>1 DEF FadersTyped, now
    <3>2. \A n \in known' \cap Sinks : n \in known' \/ pending[n] = None
      OBVIOUS
    <3>3. QED
      BY <1>3, <1>4, <2>1, <2>2, <3>1, <3>2, RestoreSent
  <2>4. /\ \A w \in Sent(sends) : w.node = c /\ w.value.r = w.value.l + PanOf(c)'
                                  /\ Reported(w.value) = Believed(c)'
        /\ Sent(sends) # {} \/ stored'[c] = Fader(c, h.level)
        /\ \A d \in Channels : d # c => stored'[d] = stored[d]
    <3>1. \A w \in Sent(sends) : w.node = c
      BY <2>2, <2>3 DEF RestoredBy, panned
    <3>2. \A d \in Channels : d # c => stored'[d] = stored[d]
      BY <1>4, <2>2, <2>3 DEF RestoredBy, Sinks
    <3>3. Sent(sends) # {} \/ stored'[c] = Fader(c, h.level)
      <4>1. CASE c \in now
        BY <2>3, <4>1 DEF RestoredBy
      <4>2. CASE c \notin now
        BY <1>2, <1>4, <2>3, <4>2 DEF RestoredBy
      <4>3. QED
        BY <4>1, <4>2
    <3>4. QED
      BY <2>3, <3>1, <3>2, <3>3 DEF RestoredBy
  <2>5. ToldOf(c)'
    BY <1>1, <1>3, <1>5, <1>6, <2>3, <2>4, ToldSent
  <2>6. PannedOf(c)'
    \* nobody has written to it yet, and it came up as one level for both sides
    <3>1. NoneOf(c) /\ c \in flat
      BY <1>2, <1>10 DEF Traffic, Addressed, AddressedOf
    <3>2. PannedOf(c) /\ ((\A w \in Sent(sends) : w.node # c) => PanOf(c)' = PanOf(c))
      BY <1>3, <3>1 DEF PannedOf, NoneOf, LastOf, PanOf
    <3>3. QED
      BY <1>1, <1>3, <2>3, <2>4, <3>2, PannedSent
  <2>7. \A w \in Sent(sends) : w.node \in Sinks => w.node = h.node /\ w.node \in known'
    BY <1>3, <2>4
  <2>8. Traffic'
    BY <1>1, <1>2, <1>3, <1>8, <2>3, <2>4, <2>5, <2>6, <2>7, HandledStep
  <2>9. QED
    BY <1>2, <1>3, <1>7, <1>8, <2>3, <2>8, HandledTypes DEF Traffic
<1>11. QED
  BY <1>9, <1>10

\* A mix that is known: heard, given up, or put back.
LEMMA OnMixKnownStep ==
  ASSUME TypeOK, Traffic, Handles("node"), Handled, NEW h, h = Head(events),
         NEW m \in Mixes, m = h.node, OnMix(m, h.level), m \in known
  PROVE  TypeOK' /\ Traffic'
<1>1. /\ WireTyped /\ FadersTyped /\ DuckingTyped /\ IntentsTyped /\ CellsTyped /\ AuditionTyped
      /\ foreign \in Nat /\ ops \in Nat /\ wire \in Seq(WriteType) /\ events \in Seq(EventType)
  BY Types DEF WireTyped, TypeOK
<1>2. events # <<>> /\ h.level \in LevelType /\ m \in Sinks /\ m \in Nodes /\ m \notin Channels
  BY ReportTyped, GainAssumption DEF Sinks, Nodes
<1>3. /\ events' = Tail(events) /\ UNCHANGED <<view, there, node, ops, foreign, flat>>
      /\ UNCHANGED <<pan, ducking, audition, cells, pending>> /\ OnMixKnown(m, h.level)
      /\ known' = known
  BY DEF Handled, OnMix, bounds
<1>4. HeardOf(m) /\ CountedOf(m)
  BY DEF Traffic, Heard, Counted
<1>5. /\ Pending(m)' \/ h.level = Reported(node[m])
      /\ \A i \in DOMAIN events' : \E j \in DOMAIN events : events'[i] = events[j]
      /\ \E j \in DOMAIN events : events[j] = h
  BY <1>1, <1>2, <1>3, Handling DEF Traffic
<1>6. \E level \in LevelType : stored' = [stored EXCEPT ![m] = level]
  BY <1>1, <1>2, <1>3 DEF OnMixKnown, Foreign, IntentsTyped, Wish
<1>7. FadersTyped' /\ \A c \in Channels : c # h.node => stored'[c] = stored[c]
  BY <1>1, <1>2, <1>3, <1>6 DEF FadersTyped, Sinks
<1>8. /\ IntentsTyped'
      /\ \A n \in Mixes : n # m =>
           intent'[n] = intent[n] /\ rewrites'[n] = rewrites[n] /\ age'[n] = age[n]
  <2>1. CASE UNCHANGED guard
    BY <1>1, <2>1 DEF guard, IntentsTyped
  <2>2. CASE intent' = [intent EXCEPT ![m] = None] /\ UNCHANGED <<rewrites, age>>
    BY <1>1, <2>2 DEF IntentsTyped, Wish
  <2>3. CASE /\ ~GivesUp(m) /\ age' = [age EXCEPT ![m] = 0] /\ intent' = intent
             /\ rewrites' = [rewrites EXCEPT ![m] =
                  IF age[m] = 2 THEN 1 ELSE IF age[m] = 1 THEN rewrites[m] + 1 ELSE rewrites[m]]
    <3>1. rewrites[m] \in 0..3 /\ age[m] \in 0..2
      BY <1>1 DEF IntentsTyped
    <3>2. (IF age[m] = 2 THEN 1 ELSE IF age[m] = 1 THEN rewrites[m] + 1 ELSE rewrites[m]) \in 0..3
      BY <2>3, <3>1 DEF GivesUp
    <3>3. QED
      BY <1>1, <2>3, <3>2 DEF IntentsTyped
  <2>4. QED
    BY <1>3, <2>1, <2>2, <2>3 DEF OnMixKnown
<1>9. \E sends \in Seq(WriteType) :
        /\ wire' = wire \o sends /\ Room(Len(sends))
        /\ \A w \in Sent(sends) : w.node = m
        /\ HeardOf(m)' /\ CountedOf(m)'
  <2>1. CASE ~Foreign(m, h.level)
    <3>1. wire' = wire /\ UNCHANGED guard
      BY <1>3, <2>1 DEF OnMixKnown
    <3> DEFINE sends == <<>>
    <3>2. sends \in Seq(WriteType) /\ wire' = wire \o sends /\ Sent(sends) = {} /\ Len(sends) = 0
      BY <1>1, <3>1 DEF Sent
    <3> HIDE DEF sends
    <3>3. Room(Len(sends))
      BY <1>1, <3>2 DEF Room, WireTyped
    <3>4. intent[m] # None => h.level = intent[m]
      BY <2>1 DEF Foreign
    <3>5. HeardOf(m)'
      <4>1. intent'[m] = None \/ Pending(m)' \/ Reported(node[m]) = intent'[m]
        BY <1>5, <3>1, <3>4 DEF guard
      <4>2. m \in known'
        BY <1>3
      <4>3. QED
        BY <1>1, <1>3, <3>2, <4>1, <4>2, HeardSent
    <3>6. CountedOf(m)'
      BY <1>1, <1>3, <1>4, <1>5, <3>1, <3>2, CountedSent DEF guard
    <3>7. QED
      BY <3>2, <3>3, <3>5, <3>6
  <2>2. CASE Foreign(m, h.level) /\ GivesUp(m)
    <3>1. wire' = wire /\ intent'[m] = None
      BY <1>1, <1>3, <2>2 DEF OnMixKnown, IntentsTyped
    <3> DEFINE sends == <<>>
    <3>2. sends \in Seq(WriteType) /\ wire' = wire \o sends /\ Sent(sends) = {} /\ Len(sends) = 0
      BY <1>1, <3>1 DEF Sent
    <3> HIDE DEF sends
    <3>3. Room(Len(sends))
      BY <1>1, <3>2 DEF Room, WireTyped
    <3>4. HeardOf(m)' /\ CountedOf(m)'
      BY <3>1 DEF HeardOf, CountedOf
    <3>5. QED
      BY <3>2, <3>3, <3>4
  <2>3. CASE Foreign(m, h.level) /\ ~GivesUp(m)
    <3>1. /\ wire' = wire \o <<Plain(m, intent[m])>> /\ Room(1) /\ intent' = intent
          /\ rewrites' = [rewrites EXCEPT ![m] =
               IF age[m] = 2 THEN 1 ELSE IF age[m] = 1 THEN rewrites[m] + 1 ELSE rewrites[m]]
          /\ age' = [age EXCEPT ![m] = 0]
      BY <1>3, <2>3 DEF OnMixKnown, Writes
    <3>2. intent[m] \in LevelType /\ intent[m] # None /\ h.level # intent[m]
      BY <1>1, <2>3 DEF Foreign, IntentsTyped, Wish
    <3> DEFINE w == Plain(m, intent[m])
               sends == <<w>>
    <3>3. w \in WriteType /\ w.node = m /\ Reported(w.value) = intent[m]
      BY <1>2, <3>2, PlainOf
    <3> HIDE DEF w
    <3>4. sends \in Seq(WriteType) /\ Len(sends) = 1 /\ Sent(sends) = {w} /\ wire' = wire \o sends
      BY <3>1, <3>3, OneSent DEF w
    <3> HIDE DEF sends
    <3>5. HeardOf(m)'
      <4>1. m \in known' /\ \E x \in Sent(sends) : x.node = m /\ Reported(x.value) = intent'[m]
        BY <1>3, <3>1, <3>3, <3>4
      <4>2. QED
        BY <1>1, <1>3, <3>4, <4>1, HeardSent
    <3>6. CountedOf(m)'
      \* what it was told is against the intent, so bursts are to be counted
      <4>1. ~Calm(m)
        BY <1>2, <1>5, <3>2 DEF Calm
      <4>2. rewrites[m] \in 0..3 /\ age[m] \in 0..2
        BY <1>1 DEF IntentsTyped
      <4>3. /\ rewrites[m] <= foreign + 1
            /\ rewrites[m] >= 1 /\ age[m] >= 1 => rewrites[m] <= foreign
        BY <1>4, <3>2, <4>1 DEF CountedOf
      <4>4. /\ rewrites'[m] =
                 IF age[m] = 2 THEN 1 ELSE IF age[m] = 1 THEN rewrites[m] + 1 ELSE rewrites[m]
            /\ age'[m] = 0
        BY <1>1, <3>1 DEF IntentsTyped
      <4>5. rewrites'[m] <= foreign + 1
        BY <1>1, <4>2, <4>3, <4>4
      <4>6. QED
        BY <1>1, <1>3, <1>5, <3>4, <4>4, <4>5, CountedSent
    <3>7. \A x \in Sent(sends) : x.node = m
      BY <3>3, <3>4
    <3>8. QED
      BY <3>1, <3>4, <3>5, <3>6, <3>7
  <2>4. QED
    BY <2>1, <2>2, <2>3
<1>10. PICK sends \in Seq(WriteType) :
         /\ wire' = wire \o sends /\ Room(Len(sends))
         /\ \A w \in Sent(sends) : w.node = m
         /\ HeardOf(m)' /\ CountedOf(m)'
  BY <1>9
<1>11. WireTyped'
  BY <1>1, <1>10, WireSent
<1>12. Traffic'
  <2>1. UNCHANGED <<there, node, foreign, flat, pan, duck>>
    BY <1>3 DEF ducking
  <2>2. /\ known \cap Sinks \subseteq known'
        /\ \A n \in known' \cap Sinks : n \in known \/ n = h.node
        /\ \A w \in Sent(sends) : w.node \in Sinks => w.node = h.node /\ w.node \in known'
    BY <1>3, <1>10
  <2>3. QED
    BY <1>1, <1>2, <1>3, <1>7, <1>8, <1>10, <2>1, <2>2, HandledStep
<1>13. DuckingTyped' /\ CellsTyped' /\ AuditionTyped'
  BY <1>1, <1>3 DEF ducking, cells, DuckingTyped, CellsTyped, AuditionTyped
<1>14. QED
  BY <1>2, <1>3, <1>7, <1>8, <1>11, <1>12, <1>13, HandledTypes DEF Traffic

\* A mix that comes up.
LEMMA OnMixNewStep ==
  ASSUME TypeOK, Traffic, Handles("node"), Handled, NEW h, h = Head(events),
         NEW m \in Mixes, m = h.node, OnMix(m, h.level), m \notin known
  PROVE  TypeOK' /\ Traffic'
<1>1. /\ WireTyped /\ FadersTyped /\ DuckingTyped /\ IntentsTyped /\ CellsTyped /\ AuditionTyped
      /\ foreign \in Nat /\ ops \in Nat /\ wire \in Seq(WriteType) /\ events \in Seq(EventType)
  BY Types DEF WireTyped, TypeOK
<1>2. /\ events # <<>> /\ h.level \in LevelType /\ m \in Viewed /\ m \in there
      /\ m \in Sinks /\ m \in Nodes /\ m \notin Channels
  BY ReportTyped, GainAssumption DEF Sinks, Nodes
<1> DEFINE now == Restored(known', pending)
           faders == [stored EXCEPT ![m] = h.level]
<1>3. /\ events' = Tail(events) /\ UNCHANGED <<view, there, node, ops, foreign, flat>>
      /\ UNCHANGED <<pan, ducking, audition, cells>> /\ known' = known \cup {m}
      /\ Restore(known', faders, pending, {})
      /\ Intend([x \in now \cap Mixes |-> pending[x]])
  BY DEF Handled, OnMix, bounds
<1>4. faders \in [Sinks -> LevelType] /\ \A n \in Sinks : n # m => faders[n] = stored[n]
  BY <1>1, <1>2 DEF FadersTyped
<1>5. now \subseteq {m} /\ \A n \in now : pending[n] \in LevelType
  BY <1>1, <1>3 DEF Restored, FadersTyped, Wish
<1> HIDE DEF faders
<1>6. /\ IntentsTyped'
      /\ \A n \in Mixes : n \in now => intent'[n] = pending[n] /\ rewrites'[n] = 0
      /\ \A n \in Mixes : n \notin now =>
           intent'[n] = intent[n] /\ rewrites'[n] = rewrites[n] /\ age'[n] = age[n]
  <2> DEFINE levels == [x \in now \cap Mixes |-> pending[x]]
  <2>1. DOMAIN levels = now \cap Mixes /\ \A n \in now \cap Mixes : levels[n] = pending[n]
    OBVIOUS
  <2> HIDE DEF levels
  <2>2. Intend(levels)
    BY <1>3 DEF levels
  <2> HIDE DEF now
  <2>3. QED
    BY <1>5, <2>1, <2>2, IntendOf
<1>7. PICK sends \in Seq(WriteType) :
        wire' = wire \o sends /\ WireTyped' /\ FadersTyped'
          /\ RestoredBy(sends, now, {}, faders, pending)
  <2>1. pending \in [Sinks -> Wish] /\ {} \in SUBSET Channels
    BY <1>1 DEF FadersTyped
  <2>2. \A n \in known' \cap Sinks : n \in known' \/ pending[n] = None
    OBVIOUS
  <2>3. now = Restored(known', pending)
    OBVIOUS
  <2> HIDE DEF now
  <2>4. QED
    BY <1>3, <1>4, <2>1, <2>2, <2>3, RestoreSent
<1> HIDE DEF now
<1>8. /\ \A w \in Sent(sends) : w.node = m /\ m \in now /\ Reported(w.value) = pending[m]
      /\ m \in now => \E w \in Sent(sends) : w.node = m
      /\ \A c \in Channels : stored'[c] = stored[c]
  <2>1. \A w \in Sent(sends) : w.node = m /\ m \in now
    BY <1>5, <1>7 DEF RestoredBy
  <2>2. \A c \in Channels : stored'[c] = stored[c]
    BY <1>2, <1>4, <1>5, <1>7 DEF RestoredBy, Sinks
  <2>3. QED
    BY <1>7, <2>1, <2>2 DEF RestoredBy
<1>9. HeardOf(m)' /\ CountedOf(m)'
  <2>1. CASE m \in now
    <3>1. m \in known' /\ \E w \in Sent(sends) : w.node = m /\ Reported(w.value) = intent'[m]
      BY <1>3, <1>6, <1>8, <2>1
    <3>2. HeardOf(m)'
      BY <1>1, <1>3, <1>7, <3>1, HeardSent
    <3>3. \A i \in DOMAIN events' : \E j \in DOMAIN events : events'[i] = events[j]
      BY <1>1, <1>2, <1>3, Handling DEF Traffic
    <3>4. CountedOf(m)'
      BY <1>1, <1>3, <1>6, <1>7, <2>1, <3>3, CountedSent
    <3>5. QED
      BY <3>2, <3>4
  <2>2. CASE m \notin now
    <3>1. intent'[m] = None
      BY <1>6, <2>2 DEF Traffic, Heard, HeardOf
    <3>2. QED
      BY <3>1 DEF HeardOf, CountedOf
  <2>3. QED
    BY <2>1, <2>2
<1>10. Traffic'
  <2>1. UNCHANGED <<there, node, foreign, flat, pan, duck>>
    BY <1>3 DEF ducking
  <2>2. /\ known \cap Sinks \subseteq known'
        /\ \A n \in known' \cap Sinks : n \in known \/ n = h.node
        /\ \A w \in Sent(sends) : w.node \in Sinks => w.node = h.node /\ w.node \in known'
    BY <1>3, <1>8
  <2>3. \A n \in Mixes : n # h.node =>
          intent'[n] = intent[n] /\ rewrites'[n] = rewrites[n] /\ age'[n] = age[n]
    BY <1>5, <1>6
  <2>4. QED
    BY <1>1, <1>2, <1>3, <1>7, <1>8, <1>9, <2>1, <2>2, <2>3, HandledStep
<1>11. DuckingTyped' /\ CellsTyped' /\ AuditionTyped'
  BY <1>1, <1>3 DEF ducking, cells, DuckingTyped, CellsTyped, AuditionTyped
<1>12. \A n \in known' : n \in known \/ (n \in Viewed /\ (n \in Sinks => n \in there))
  BY <1>2, <1>3
<1>13. QED
  BY <1>2, <1>3, <1>6, <1>7, <1>10, <1>11, <1>12, HandledTypes DEF Traffic

\* Chains: the cell's gain is put back, or the next of its name is not armed.
LEMMA OnChainStep ==
  ASSUME TypeOK, Traffic, Handles("node"), Handled, NEW h, h = Head(events),
         NEW k \in Chains, k = h.node, OnChain(k, h.level.vol)
  PROVE  TypeOK' /\ Traffic'
<1>1. /\ WireTyped /\ FadersTyped /\ DuckingTyped /\ IntentsTyped /\ CellsTyped /\ AuditionTyped
      /\ foreign \in Nat /\ ops \in Nat /\ wire \in Seq(WriteType)
  BY Types DEF WireTyped
<1>2. events # <<>> /\ k \in Viewed /\ k \notin Sinks /\ k \in Nodes
  BY ReportTyped, GainAssumption DEF Sinks, Nodes
<1>3. /\ events' = Tail(events) /\ UNCHANGED <<view, there, node, ops, foreign, flat>>
      /\ UNCHANGED <<stored, pan, ducking, audition, guard, cell, pending>>
      /\ known' = known \cup {k}
      /\ armed' = IF k \in known /\ Arms(k, h.level.vol) THEN armed \cup {k} ELSE armed
  BY DEF Handled, OnChain, bounds
<1>4. \E sends \in Seq(WriteType) :
        wire' = wire \o sends /\ Room(Len(sends)) /\ \A w \in Sent(sends) : w.node = k
  <2>1. CASE wire' = wire \o <<Plain(k, Level(cell[k], FALSE))>> /\ Room(1)
    <3> DEFINE w == Plain(k, Level(cell[k], FALSE))
               sends == <<w>>
    <3>1. Level(cell[k], FALSE) \in LevelType
      BY <1>1, GainAssumption DEF Level, LevelType, CellsTyped
    <3>2. w \in WriteType /\ w.node = k
      BY <1>2, <3>1, PlainOf
    <3> HIDE DEF w
    <3>3. sends \in Seq(WriteType) /\ Len(sends) = 1 /\ Sent(sends) = {w}
      BY <3>2, OneSent
    <3>4. wire' = wire \o sends
      BY <2>1 DEF w
    <3> HIDE DEF sends
    <3>5. QED
      BY <2>1, <3>2, <3>3, <3>4
  <2>2. CASE wire' = wire
    <3> DEFINE sends == <<>>
    <3>1. sends \in Seq(WriteType) /\ wire' = wire \o sends /\ Sent(sends) = {} /\ Len(sends) = 0
      BY <1>1, <2>2 DEF Sent
    <3> HIDE DEF sends
    <3>2. Room(Len(sends))
      BY <1>1, <3>1 DEF Room, WireTyped
    <3>3. QED
      BY <3>1, <3>2
  <2>3. QED
    BY <2>1, <2>2 DEF OnChain, Writes
<1>5. PICK sends \in Seq(WriteType) :
        wire' = wire \o sends /\ Room(Len(sends)) /\ \A w \in Sent(sends) : w.node = k
  BY <1>4
<1>6. Traffic'
  <2>1. UNCHANGED <<there, node, foreign, flat, pan, duck>>
    BY <1>3 DEF ducking
  <2>2. /\ known \cap Sinks \subseteq known'
        /\ \A n \in known' \cap Sinks : n \in known \/ n = h.node
        /\ \A w \in Sent(sends) : w.node \in Sinks => w.node = h.node /\ w.node \in known'
        /\ \A c \in Channels : c # h.node => stored'[c] = stored[c]
        /\ \A m \in Mixes : m # h.node =>
             intent'[m] = intent[m] /\ rewrites'[m] = rewrites[m] /\ age'[m] = age[m]
        /\ h.node \notin Channels /\ h.node \notin Mixes
    BY <1>2, <1>3, <1>5 DEF guard, Sinks
  <2>3. QED
    BY <1>2, <1>3, <1>5, <2>1, <2>2, HandledStep
<1>7. WireTyped'
  BY <1>1, <1>5, WireSent
<1>8. DuckingTyped' /\ IntentsTyped' /\ FadersTyped' /\ CellsTyped' /\ AuditionTyped'
  <2>1. known' \cap Sinks = known \cap Sinks
    BY <1>2, <1>3
  <2>2. FadersTyped' /\ AuditionTyped'
    BY <1>1, <1>3, <2>1 DEF FadersTyped, AuditionTyped
  <2>3. QED
    BY <1>1, <1>3, <2>2 DEF ducking, guard, DuckingTyped, IntentsTyped, CellsTyped
<1>9. \A n \in known' : n \in known \/ (n \in Viewed /\ (n \in Sinks => n \in there))
  BY <1>2, <1>3
<1>10. QED
  BY <1>2, <1>3, <1>6, <1>7, <1>8, <1>9, HandledTypes DEF Traffic

LEMMA OnNodeStep ==
  ASSUME TypeOK, Traffic, OnNode
  PROVE  TypeOK' /\ Traffic'
<1> DEFINE h == Head(events)
<1>1. Handles("node") /\ Handled
  BY DEF OnNode
<1>2. \/ h.node \in Channels /\ OnChannel(h.node, h.level)
      \/ h.node \in Mixes /\ OnMix(h.node, h.level)
      \/ h.node \in Chains /\ OnChain(h.node, h.level.vol)
  BY DEF OnNode
<1>3. h = Head(events)
  OBVIOUS
<1> HIDE DEF h
<1>4. QED
  BY <1>1, <1>2, <1>3, OnChannelStep, OnMixKnownStep, OnMixNewStep, OnChainStep

LEMMA OnNodeRemovedStep ==
  ASSUME TypeOK, Traffic, OnNodeRemoved
  PROVE  TypeOK' /\ Traffic'
<1> DEFINE h == Head(events)
<1>1. /\ WireTyped /\ FadersTyped /\ DuckingTyped /\ IntentsTyped /\ CellsTyped /\ AuditionTyped
      /\ foreign \in Nat /\ ops \in Nat /\ wire \in Seq(WriteType) /\ events \in Seq(EventType)
  BY Types DEF WireTyped, TypeOK
<1>2. /\ events # <<>> /\ h.type = "removed"
      /\ events' = Tail(events) /\ UNCHANGED <<view, there, node, ops, foreign, flat>>
      /\ UNCHANGED <<wire, stored, pan, ducking, audition, guard, cell, pending>>
      /\ known' = known \ {h.node} /\ armed' = armed \ {h.node}
  BY DEF OnNodeRemoved, Handles, Handled, Disarmed, bounds
<1>3. h \in EventType /\ h = Head(events)
  BY <1>1, <1>2
<1> HIDE DEF h
<1>4. h.node \in Chains /\ h.node \notin Sinks
  BY <1>2, <1>3, GainAssumption DEF EventType, Sinks
<1> DEFINE sends == <<>>
<1>5. sends \in Seq(WriteType) /\ wire' = wire \o sends /\ Sent(sends) = {}
  BY <1>1, <1>2 DEF Sent
<1> HIDE DEF sends
<1>6. known' \cap Sinks = known \cap Sinks
  BY <1>2, <1>4
<1>7. Traffic'
  <2>1. UNCHANGED <<there, node, foreign, flat, pan, duck>>
    BY <1>2 DEF ducking
  <2>2. /\ known \cap Sinks \subseteq known'
        /\ \A n \in known' \cap Sinks : n \in known \/ n = h.node
        /\ \A w \in Sent(sends) : w.node \in Sinks => w.node = h.node /\ w.node \in known'
        /\ \A c \in Channels : c # h.node => stored'[c] = stored[c]
        /\ \A m \in Mixes : m # h.node =>
             intent'[m] = intent[m] /\ rewrites'[m] = rewrites[m] /\ age'[m] = age[m]
        /\ h.node \notin Channels /\ h.node \notin Mixes
    BY <1>2, <1>4, <1>5, <1>6 DEF guard, Sinks
  <2>3. QED
    BY <1>2, <1>3, <1>5, <2>1, <2>2, HandledStep
<1>8. /\ WireTyped' /\ DuckingTyped' /\ IntentsTyped' /\ FadersTyped' /\ CellsTyped'
      /\ AuditionTyped'
  <2>1. FadersTyped' /\ AuditionTyped'
    BY <1>1, <1>2, <1>6 DEF FadersTyped, AuditionTyped
  <2>2. QED
    BY <1>1, <1>2, <2>1 DEF ducking, guard, WireTyped, DuckingTyped, IntentsTyped, CellsTyped
<1>9. \A n \in known' : n \in known
  BY <1>2
<1>10. QED
  BY <1>2, <1>3, <1>7, <1>8, <1>9, HandledTypes DEF Traffic
-----------------------------------------------------------------------------
(* PipeWire, another client, time                                          *)

\* The writes on their way to a node are what they were.
SameWrites(n) ==
  /\ \A i \in DOMAIN wire' : LastOf(i, n)' =>
       \E j \in DOMAIN wire : LastOf(j, n) /\ wire'[i].shape = wire[j].shape
                                           /\ wire'[i].value = wire[j].value
  /\ NoneOf(n)' <=> NoneOf(n)
  /\ \A i \in DOMAIN wire : wire[i].node = n =>
       \E j \in DOMAIN wire' : wire'[j].node = n /\ wire'[j].value = wire[i].value
  /\ \A i \in DOMAIN wire' : wire'[i].node = n =>
       \E j \in DOMAIN wire : wire[j].node = n /\ wire'[i].value = wire[j].value

\* Everything but what the reports say, of one node.
SoundOf(n) ==
  /\ AddressedOf(n)
  /\ n \in Channels \cap known => ToldOf(n) /\ PannedOf(n)
  /\ n \in Mixes => HeardOf(n) /\ CountedOf(n)

LEMMA Sound ==
  /\ Traffic <=> Latest /\ \A n \in Sinks : SoundOf(n)
  /\ Traffic' <=> Latest' /\ \A n \in Sinks : SoundOf(n)'
<1>1. Traffic <=> Latest /\ \A n \in Sinks : SoundOf(n)
  BY DEF Traffic, Addressed, Told, Panned, Heard, Counted, SoundOf, Sinks
<1>2. Traffic' <=> Latest' /\ \A n \in Sinks : SoundOf(n)'
  BY DEF Traffic, Addressed, Told, Panned, Heard, Counted, SoundOf, Sinks
<1>3. QED
  BY <1>1, <1>2

\* A node nobody wrote to, in a step that only PipeWire takes.
LEMMA OtherStep ==
  ASSUME NEW n \in Sinks, SoundOf(n), SameWrites(n), node'[n] = node[n], n \in flat' <=> n \in flat,
         n \in there' <=> n \in there, Pending(n) => Pending(n)',
         \A i \in DOMAIN events' : events'[i].node = n =>
           \E j \in DOMAIN events : events'[i] = events[j],
         UNCHANGED <<known, stored, pan, duck, intent, rewrites, age>>,
         foreign \in Nat, foreign' \in Nat, foreign' >= foreign,
         n \in Mixes => rewrites[n] \in Nat
  PROVE  SoundOf(n)'
<1>1. AddressedOf(n)'
  BY DEF SoundOf, AddressedOf, SameWrites
<1>2. Differs(n) => Differs(n)'
  BY DEF Differs, SameWrites
<1>3. Unsplit(n) => Unsplit(n)'
  BY DEF Unsplit, SameWrites
<1>4. ToldOf(n) => ToldOf(n)'
  BY <1>2, <1>3 DEF ToldOf, Believed
<1>5. PannedOf(n) => PannedOf(n)'
  BY DEF PannedOf, SameWrites, PanOf
<1>6. HeardOf(n) => HeardOf(n)'
  BY <1>2 DEF HeardOf
<1>7. Calm(n) => Calm(n)'
  BY DEF Calm, SameWrites
<1>8. n \in Mixes /\ CountedOf(n) => CountedOf(n)'
  BY <1>7 DEF CountedOf
<1>9. QED
  BY <1>1, <1>4, <1>5, <1>6, <1>8 DEF SoundOf

LEMMA WorldTypes ==
  ASSUME TypeOK, World, there' \subseteq Viewed, known \cap Sinks \subseteq there',
         node' \in [Nodes -> Value], flat' \subseteq Nodes, WireTyped', events' \in Seq(EventType),
         \A i \in DOMAIN events' : events'[i].node \in there' \cup (Chains \cap Viewed),
         foreign' \in Nat
  PROVE  TypeOK'
BY DEF TypeOK, World, WireTyped, Viewed, Value, ducking, guard, cells

\* A channel or mix that another client, or PipeWire, sets: it is on its way to
\* the daemon.
LEMMA ForeignWriteStep ==
  ASSUME TypeOK, Traffic, NEW n \in Nodes, NEW level \in LevelType, ForeignWrite(n, level)
  PROVE  TypeOK' /\ Traffic'
<1>1. /\ events \in Seq(EventType) /\ foreign \in Nat /\ node \in [Nodes -> Value]
      /\ intent \in [Mixes -> Wish] /\ rewrites \in [Mixes -> 0..3]
      /\ \A i \in DOMAIN events : events[i].node \in there \cup (Chains \cap Viewed)
      /\ there \subseteq Viewed /\ known \cap Sinks \subseteq there /\ flat \subseteq Nodes
      /\ WireTyped
  BY Types DEF TypeOK, Value
<1> DEFINE e == [type |-> "node", node |-> n, level |-> level]
<1>2. Both(level) \in Value /\ Reported(Both(level)) = level
  BY BothType
<1>3. /\ n \in there /\ foreign' = foreign + 1 /\ node' = [node EXCEPT ![n] = Both(level)]
      /\ events' = Append(events, e) /\ flat' = flat \cup {n} /\ wire' = wire /\ there' = there
      /\ World
  BY <1>2 DEF ForeignWrite, Tells
<1>4. e \in EventType /\ e.node = n /\ e.level = level
  BY DEF EventType
<1> HIDE DEF e
<1>5. node' \in [Nodes -> Value] /\ node'[n] = Both(level) /\ \A x \in Nodes : x # n => node'[x] = node[x]
  BY <1>1, <1>2, <1>3
<1>6. /\ Latest' /\ events' \in Seq(EventType)
      /\ \A x \in Nodes : Pending(x) => Pending(x)'
      /\ Pending(n)'
      /\ \A i \in DOMAIN events' : (\E j \in DOMAIN events : events'[i] = events[j]) \/ events'[i] = e
  <2>1. \A x \in Sinks : x # e.node => Reported(node'[x]) = Reported(node[x])
    BY <1>4, <1>5 DEF Nodes
  <2>2. e.node \in Sinks => e.level = Reported(node'[e.node])
    BY <1>2, <1>4, <1>5
  <2>3. QED
    BY <1>1, <1>3, <1>4, <2>1, <2>2, Reporting DEF Traffic
<1>7. UNCHANGED <<known, stored, pan, duck, intent, rewrites, age>>
  BY <1>3 DEF World, ducking, guard
<1>8. ASSUME NEW x \in Sinks PROVE SoundOf(x)'
  <2>1. SoundOf(x) /\ x \in Nodes
    BY Sound DEF Nodes
  <2>2. SameWrites(x)
    BY <1>3 DEF SameWrites, NoneOf, LastOf
  <2>3. CASE x # n
    <3>1. \A i \in DOMAIN events' : events'[i].node = x =>
            \E j \in DOMAIN events : events'[i] = events[j]
      BY <1>4, <1>6, <2>3
    <3>2. x \in Mixes => rewrites[x] \in Nat
      BY <1>1
    <3>3. foreign' \in Nat /\ foreign' >= foreign
      BY <1>1, <1>3
    <3>4. node'[x] = node[x] /\ (x \in flat' <=> x \in flat) /\ (x \in there' <=> x \in there)
      BY <1>3, <1>5, <2>1, <2>3
    <3>5. QED
      BY <1>1, <1>6, <1>7, <2>1, <2>2, <3>1, <3>2, <3>3, <3>4, OtherStep
  <2>4. CASE x = n
    <3>1. AddressedOf(x)'
      BY <1>3, <1>7, <2>1, <2>2, <2>4 DEF SoundOf, AddressedOf, SameWrites
    <3>3. ToldOf(x)'
      BY <1>6, <2>4 DEF ToldOf
    <3>4. PannedOf(x) => PannedOf(x)'
      BY <1>3, <1>7, <2>2, <2>4 DEF PannedOf, SameWrites, PanOf
    <3>5. x \in Mixes => HeardOf(x)'
      BY <1>6, <1>7, <2>1, <2>4 DEF SoundOf, HeardOf
    <3>6. x \in Mixes => CountedOf(x)'
      BY <1>1, <1>3, <1>7, <2>1 DEF SoundOf, CountedOf
    <3>7. QED
      BY <1>7, <2>1, <3>1, <3>3, <3>4, <3>5, <3>6 DEF SoundOf
  <2>5. QED
    BY <2>3, <2>4
<1>9. Traffic'
  BY <1>6, <1>8, Sound
<1>10. TypeOK'
  <2>1. \A i \in DOMAIN events' : events'[i].node \in there' \cup (Chains \cap Viewed)
    BY <1>1, <1>3, <1>4, <1>6
  <2>2. WireTyped'
    BY <1>1, <1>3 DEF WireTyped
  <2>3. QED
    BY <1>1, <1>3, <1>5, <1>6, <2>1, <2>2, WorldTypes
<1>11. QED
  BY <1>9, <1>10

LEMMA NodeArrivesStep ==
  ASSUME TypeOK, Traffic, NEW n \in Nodes, NEW vol \in Int, NodeArrives(n, vol)
  PROVE  TypeOK' /\ Traffic'
<1>1. /\ events \in Seq(EventType) /\ foreign \in Nat /\ node \in [Nodes -> Value]
      /\ intent \in [Mixes -> Wish] /\ rewrites \in [Mixes -> 0..3]
      /\ \A i \in DOMAIN events : events[i].node \in there \cup (Chains \cap Viewed)
      /\ there \subseteq Viewed /\ known \cap Sinks \subseteq there /\ flat \subseteq Nodes
      /\ WireTyped
  BY Types DEF TypeOK, Value
<1> DEFINE level == Level(vol, FALSE)
           e == [type |-> "node", node |-> n, level |-> level]
<1>2. level \in LevelType /\ Both(level) \in Value /\ Reported(Both(level)) = level
  <2>1. level \in LevelType
    BY DEF Level, LevelType
  <2> HIDE DEF level
  <2>2. QED
    BY <2>1, BothType
<1>3. /\ n \in Viewed /\ n \notin known /\ foreign' = foreign
      /\ node' = [node EXCEPT ![n] = Both(level)]
      /\ events' = Append(events, e) /\ flat' = flat \cup {n} /\ wire' = wire
      /\ there' = there \cup {n} /\ World
  BY DEF NodeArrives
<1> HIDE DEF level
<1>4. e \in EventType /\ e.node = n /\ e.level = level
  BY <1>2 DEF EventType
<1> HIDE DEF e
<1>5. node' \in [Nodes -> Value] /\ node'[n] = Both(level) /\ \A x \in Nodes : x # n => node'[x] = node[x]
  BY <1>1, <1>2, <1>3
<1>6. /\ Latest' /\ events' \in Seq(EventType)
      /\ \A x \in Nodes : Pending(x) => Pending(x)'
      /\ \A i \in DOMAIN events' : (\E j \in DOMAIN events : events'[i] = events[j]) \/ events'[i] = e
  <2>1. \A x \in Sinks : x # e.node => Reported(node'[x]) = Reported(node[x])
    BY <1>4, <1>5 DEF Nodes
  <2>2. e.node \in Sinks => e.level = Reported(node'[e.node])
    BY <1>2, <1>4, <1>5
  <2>3. QED
    BY <1>1, <1>3, <1>4, <2>1, <2>2, Reporting DEF Traffic
<1>7. UNCHANGED <<known, stored, pan, duck, intent, rewrites, age>>
  BY <1>3 DEF World, ducking, guard
<1>8. ASSUME NEW x \in Sinks PROVE SoundOf(x)'
  <2>1. SoundOf(x) /\ x \in Nodes
    BY Sound DEF Nodes
  <2>2. SameWrites(x)
    BY <1>3 DEF SameWrites, NoneOf, LastOf
  <2>3. CASE x # n
    <3>1. \A i \in DOMAIN events' : events'[i].node = x =>
            \E j \in DOMAIN events : events'[i] = events[j]
      BY <1>4, <1>6, <2>3
    <3>2. x \in Mixes => rewrites[x] \in Nat
      BY <1>1
    <3>3. foreign' \in Nat /\ foreign' >= foreign
      BY <1>1, <1>3
    <3>4. node'[x] = node[x] /\ (x \in flat' <=> x \in flat) /\ (x \in there' <=> x \in there)
      BY <1>3, <1>5, <2>1, <2>3
    <3>5. QED
      BY <1>1, <1>6, <1>7, <2>1, <2>2, <3>1, <3>2, <3>3, <3>4, OtherStep
  <2>4. CASE x = n
    <3>1. AddressedOf(x)'
      BY <1>3, <1>7, <2>1, <2>2, <2>4 DEF SoundOf, AddressedOf, SameWrites
    <3>2. x \in Mixes => intent'[x] = None
      BY <1>3, <1>7, <2>1, <2>4 DEF SoundOf, HeardOf
    <3>3. QED
      BY <1>3, <1>7, <2>4, <3>1, <3>2 DEF SoundOf, HeardOf, CountedOf
  <2>5. QED
    BY <2>3, <2>4
<1>9. Traffic'
  BY <1>6, <1>8, Sound
<1>10. TypeOK'
  <2>1. \A i \in DOMAIN events' : events'[i].node \in there' \cup (Chains \cap Viewed)
    BY <1>1, <1>3, <1>4, <1>6
  <2>2. WireTyped'
    BY <1>1, <1>3 DEF WireTyped
  <2>3. there' \subseteq Viewed /\ known \cap Sinks \subseteq there' /\ flat' \subseteq Nodes
    BY <1>1, <1>3
  <2>4. QED
    BY <1>1, <1>3, <1>5, <1>6, <2>1, <2>2, <2>3, WorldTypes
<1>11. QED
  BY <1>9, <1>10

LEMMA ChainLeavesStep ==
  ASSUME TypeOK, Traffic, NEW k \in Chains, ChainLeaves(k)
  PROVE  TypeOK' /\ Traffic'
<1>1. /\ events \in Seq(EventType) /\ foreign \in Nat /\ node \in [Nodes -> Value]
      /\ rewrites \in [Mixes -> 0..3]
      /\ \A i \in DOMAIN events : events[i].node \in there \cup (Chains \cap Viewed)
      /\ there \subseteq Viewed /\ known \cap Sinks \subseteq there /\ flat \subseteq Nodes
      /\ wire \in Seq(WriteType) /\ Len(wire) <= MaxWrites
  BY Types DEF TypeOK, Value
<1> DEFINE e == [type |-> "removed", node |-> k, level |-> None]
<1>2. /\ k \in there /\ foreign' = foreign + 1 /\ UNCHANGED <<node, flat>>
      /\ there' = there \ {k} /\ events' = Append(events, e) /\ World
      /\ wire' = [i \in DOMAIN wire |-> [wire[i] EXCEPT !.node = IF @ = k THEN None ELSE @]]
  BY DEF ChainLeaves
<1>3. e \in EventType /\ e.node = k
  BY DEF EventType
<1> HIDE DEF e
<1>4. k \notin Sinks /\ None \notin Sinks
  BY GainAssumption DEF Sinks, Nodes
<1>5. /\ wire' \in Seq(WriteType) /\ Len(wire') = Len(wire) /\ DOMAIN wire' = DOMAIN wire
      /\ \A i \in DOMAIN wire : /\ wire'[i].value = wire[i].value /\ wire'[i].shape = wire[i].shape
                                /\ \A n \in Sinks : wire'[i].node = n <=> wire[i].node = n
  <2>1. ASSUME NEW w \in WriteType
        PROVE  LET v == [w EXCEPT !.node = IF @ = k THEN None ELSE @] IN
               /\ v \in WriteType /\ v.value = w.value /\ v.shape = w.shape
               /\ \A n \in Sinks : v.node = n <=> w.node = n
    BY <1>4 DEF WriteType
  <2>2. \A i \in DOMAIN wire : wire[i] \in WriteType
    BY <1>1
  <2>3. \A i \in DOMAIN wire :
          wire'[i] \in WriteType /\ wire'[i].value = wire[i].value /\ wire'[i].shape = wire[i].shape
          /\ \A n \in Sinks : wire'[i].node = n <=> wire[i].node = n
    BY <1>2, <2>1, <2>2
  <2>4. DOMAIN wire' = DOMAIN wire /\ DOMAIN wire = 1..Len(wire) /\ Len(wire) \in Nat
    BY <1>1, <1>2
  <2>5. wire' = [i \in 1..Len(wire) |-> wire'[i]]
    BY <1>2, <2>4
  <2>6. wire' \in Seq(WriteType) /\ Len(wire') = Len(wire)
    BY <2>3, <2>4, <2>5
  <2>7. QED
    BY <2>3, <2>4, <2>6
<1>6. /\ Latest' /\ events' \in Seq(EventType)
      /\ \A x \in Nodes : Pending(x) => Pending(x)'
      /\ \A i \in DOMAIN events' : (\E j \in DOMAIN events : events'[i] = events[j]) \/ events'[i] = e
  <2>1. \A x \in Sinks : x # e.node => Reported(node'[x]) = Reported(node[x])
    BY <1>2
  <2>2. e.node \notin Sinks
    BY <1>3, <1>4
  <2>3. QED
    BY <1>1, <1>2, <1>3, <2>1, <2>2, Reporting DEF Traffic
<1>7. UNCHANGED <<known, stored, pan, duck, intent, rewrites, age>>
  BY <1>2 DEF World, ducking, guard
<1>8. ASSUME NEW x \in Sinks PROVE SoundOf(x)'
  <2>1. SoundOf(x) /\ x \in Nodes /\ x # k
    BY <1>4, Sound DEF Nodes
  <2>2. SameWrites(x)
    BY <1>5 DEF SameWrites, NoneOf, LastOf
  <2>3. \A i \in DOMAIN events' : events'[i].node = x =>
          \E j \in DOMAIN events : events'[i] = events[j]
    BY <1>3, <1>6, <2>1
  <2>4. x \in Mixes => rewrites[x] \in Nat
    BY <1>1
  <2>5. foreign' \in Nat /\ foreign' >= foreign
    BY <1>1, <1>2
  <2>6. node'[x] = node[x] /\ (x \in flat' <=> x \in flat) /\ (x \in there' <=> x \in there)
    BY <1>2, <2>1
  <2>7. QED
    BY <1>1, <1>6, <1>7, <2>1, <2>2, <2>3, <2>4, <2>5, <2>6, OtherStep
<1>9. Traffic'
  BY <1>6, <1>8, Sound
<1>10. TypeOK'
  <2>1. \A i \in DOMAIN events' : events'[i].node \in there' \cup (Chains \cap Viewed)
    BY <1>1, <1>2, <1>3, <1>6
  <2>2. WireTyped'
    BY <1>1, <1>5 DEF WireTyped
  <2>3. there' \subseteq Viewed /\ known \cap Sinks \subseteq there' /\ flat' \subseteq Nodes
    BY <1>1, <1>2, <1>4
  <2>4. foreign' \in Nat /\ node' \in [Nodes -> Value]
    BY <1>1, <1>2
  <2>5. QED
    BY <1>2, <1>6, <2>1, <2>2, <2>3, <2>4, WorldTypes
<1>11. QED
  BY <1>9, <1>10

\* The oldest write is carried out: what it changes is reported, and what it does
\* not change was true of the node already.
LEMMA WriteLandsStep ==
  ASSUME TypeOK, Traffic, WriteLands, NEW h, h = Head(wire), NEW n, n = h.node
  PROVE  TypeOK' /\ Traffic'
<1>1. /\ events \in Seq(EventType) /\ foreign \in Nat /\ node \in [Nodes -> Value]
      /\ rewrites \in [Mixes -> 0..3]
      /\ \A i \in DOMAIN events : events[i].node \in there \cup (Chains \cap Viewed)
      /\ there \subseteq Viewed /\ known \cap Sinks \subseteq there /\ flat \subseteq Nodes
      /\ wire \in Seq(WriteType) /\ Len(wire) <= MaxWrites /\ Latest
  BY Types DEF TypeOK, Value, Traffic
<1>2. /\ wire # <<>> /\ wire' = Tail(wire) /\ foreign' = foreign /\ there' = there /\ World
      /\ h.node \notin there => UNCHANGED <<node, events, flat>>
      /\ h.node \in there =>
           /\ node' = [node EXCEPT ![h.node] = h.value]
           /\ Tells(h.node, h.value)
           /\ flat' = IF h.shape = "flat" THEN flat \cup {h.node} ELSE flat \ {h.node}
  BY DEF WriteLands
<1>4. /\ wire' \in Seq(WriteType) /\ Len(wire') = Len(wire) - 1 /\ 1 \in DOMAIN wire
      /\ wire[1] = h /\ h \in WriteType
      /\ \A i \in DOMAIN wire' : i + 1 \in DOMAIN wire /\ wire'[i] = wire[i + 1]
      /\ \A i \in DOMAIN wire : i # 1 => i - 1 \in DOMAIN wire' /\ wire'[i - 1] = wire[i]
      /\ \A i \in DOMAIN wire' : \A x \in Nodes : LastOf(i, x)' => LastOf(i + 1, x)
      /\ \A x \in Nodes : /\ NoneOf(x) => NoneOf(x)' /\ h.node # x
                          /\ NoneOf(x)' => NoneOf(x) \/ LastOf(1, x)
  BY <1>1, <1>2, Landing
<1>5. h.value \in Value /\ Reported(h.value) \in LevelType /\ h.shape \in {"split", "flat"}
  BY <1>4, ReportedType DEF WriteType, Value
<1>6. UNCHANGED <<known, stored, pan, duck, intent, rewrites, age>>
  BY <1>2 DEF World, ducking, guard
<1>7. WireTyped'
  <2>1. Len(wire) \in Nat /\ MaxWrites \in Nat
    BY <1>1, GainAssumption
  <2>2. QED
    BY <1>1, <1>4, <2>1 DEF WireTyped
<1>8. ASSUME NEW x \in Sinks, x # h.node PROVE SameWrites(x)
  <2>1. x \in Nodes
    BY DEF Nodes
  <2>2. \A i \in DOMAIN wire : wire[i].node = x => i # 1
    BY <1>4, <1>8
  <2>3. \A i \in DOMAIN wire' : LastOf(i, x)' => i + 1 \in DOMAIN wire /\ LastOf(i + 1, x)
    BY <1>4, <2>1
  <2>4. NoneOf(x)' <=> NoneOf(x)
    <3>1. ~LastOf(1, x)
      BY <1>4, <1>8 DEF LastOf
    <3>2. QED
      BY <1>4, <2>1, <3>1
  <2>5. \A i \in DOMAIN wire : wire[i].node = x =>
          \E j \in DOMAIN wire' : wire'[j].node = x /\ wire'[j].value = wire[i].value
    BY <1>4, <2>2
  <2>6. \A i \in DOMAIN wire' : wire'[i].node = x =>
          \E j \in DOMAIN wire : wire[j].node = x /\ wire'[i].value = wire[j].value
    BY <1>4
  <2>7. \A i \in DOMAIN wire' : LastOf(i, x)' =>
          \E j \in DOMAIN wire : LastOf(j, x) /\ wire'[i].shape = wire[j].shape
                                              /\ wire'[i].value = wire[j].value
    BY <1>4, <2>3
  <2>8. QED
    BY <2>4, <2>5, <2>6, <2>7 DEF SameWrites
<1>9. CASE h.node \notin there
  <2>1. UNCHANGED <<node, events, flat>>
    BY <1>2, <1>9
  <2>2. Latest'
    BY <1>1, <2>1 DEF Latest, LatestOf
  <2>3. ASSUME NEW x \in Sinks PROVE SoundOf(x)'
    <3>1. SoundOf(x) /\ x \in Nodes
      BY Sound DEF Nodes
    \* a sink that was written to is known, and a known one is there
    <3>2. x # h.node
      <4>1. x \notin known => NoneOf(x)
        BY <3>1 DEF SoundOf, AddressedOf
      <4>2. QED
        BY <1>1, <1>4, <1>9, <3>1, <4>1
    <3>3. SameWrites(x)
      BY <1>8, <3>2
    <3>4. (Pending(x) => Pending(x)') /\ (x \in Mixes => rewrites[x] \in Nat)
      BY <1>1, <2>1 DEF Pending
    <3>5. QED
      BY <1>1, <1>2, <1>6, <2>1, <3>1, <3>3, <3>4, OtherStep
  <2>4. TypeOK'
    BY <1>1, <1>2, <1>7, <2>1, WorldTypes
  <2>5. QED
    BY <2>2, <2>3, <2>4, Sound
<1>10. CASE h.node \in there
  <2> DEFINE e == [type |-> "node", node |-> n, level |-> Reported(h.value)]
  <2>1. n \in Nodes
    BY <1>4, <1>10, GainAssumption DEF WriteType, TypeOK, Viewed
  <2>2. /\ node' \in [Nodes -> Value] /\ node'[n] = h.value
        /\ \A x \in Nodes : x # n => node'[x] = node[x]
    BY <1>1, <1>2, <1>5, <1>10, <2>1
  <2>3. e \in EventType /\ e.node = n /\ e.level = Reported(h.value)
    BY <1>5, <2>1 DEF EventType
  <2>4. /\ Reported(h.value) = Reported(node[n]) => events' = events
        /\ Reported(h.value) # Reported(node[n]) => events' = Append(events, e)
    BY <1>2, <1>10 DEF Tells
  <2> HIDE DEF e
  <2>5. /\ Latest' /\ events' \in Seq(EventType)
        /\ \A x \in Nodes : Pending(x) => Pending(x)'
        /\ Reported(h.value) # Reported(node[n]) => Pending(n)'
        /\ \A i \in DOMAIN events' : (\E j \in DOMAIN events : events'[i] = events[j]) \/ events'[i] = e
    <3>1. CASE Reported(h.value) # Reported(node[n])
      <4>1. \A x \in Sinks : x # e.node => Reported(node'[x]) = Reported(node[x])
        BY <2>2, <2>3 DEF Nodes
      <4>2. e.node \in Sinks => e.level = Reported(node'[e.node])
        BY <2>2, <2>3
      <4>3. events' = Append(events, e)
        BY <2>4, <3>1
      <4>4. QED
        BY <1>1, <2>3, <4>1, <4>2, <4>3, Reporting
    <3>2. CASE Reported(h.value) = Reported(node[n])
      <4>1. events' = events
        BY <2>4, <3>2
      <4>2. \A x \in Sinks : Reported(node'[x]) = Reported(node[x])
        BY <2>2, <3>2 DEF Nodes
      <4>3. Latest'
        BY <1>1, <4>1, <4>2 DEF Latest, LatestOf
      <4>4. QED
        BY <1>1, <3>2, <4>1, <4>3 DEF Pending
    <3>3. QED
      BY <3>1, <3>2
  <2>6. ASSUME NEW x \in Sinks, x # n PROVE SoundOf(x)'
    <3>1. SoundOf(x) /\ x \in Nodes
      BY Sound DEF Nodes
    <3>2. SameWrites(x)
      BY <1>8, <2>6
    <3>3. \A i \in DOMAIN events' : events'[i].node = x =>
            \E j \in DOMAIN events : events'[i] = events[j]
      BY <2>3, <2>5, <2>6
    <3>4. (Pending(x) => Pending(x)') /\ (x \in Mixes => rewrites[x] \in Nat)
      BY <1>1, <2>5, <3>1
    <3>5. node'[x] = node[x] /\ (x \in flat' <=> x \in flat)
      BY <1>2, <1>10, <2>2, <2>6, <3>1
    <3>6. QED
      BY <1>1, <1>2, <1>6, <3>1, <3>2, <3>3, <3>4, <3>5, OtherStep
  <2>7. ASSUME n \in Sinks PROVE SoundOf(n)'
    <3>1. SoundOf(n) /\ n \in known
      <4>1. SoundOf(n)
        BY <2>7, Sound
      <4>2. ~NoneOf(n)
        BY <1>4, <2>1
      <4>3. QED
        BY <4>1, <4>2 DEF SoundOf, AddressedOf
    <3>2. AddressedOf(n)'
      BY <1>6, <3>1 DEF AddressedOf
    <3>2b. ASSUME n \in Channels PROVE PannedOf(n)'
      <4>1. PannedOf(n) /\ PanOf(n)' = PanOf(n)
        BY <1>6, <3>1, <3>2b DEF SoundOf, PanOf
      <4>2. ASSUME NEW i \in DOMAIN wire', LastOf(i, n)', wire'[i].shape = "split"
            PROVE  wire'[i].value.r = wire'[i].value.l + PanOf(n)'
        <5>1. LastOf(i + 1, n) /\ i + 1 \in DOMAIN wire /\ wire'[i] = wire[i + 1]
          BY <1>4, <2>1, <4>2
        <5>2. QED
          BY <4>1, <4>2, <5>1 DEF PannedOf
      <4>3. ASSUME NoneOf(n)', n \notin flat' PROVE node'[n].r = node'[n].l + PanOf(n)'
        <5>1. LastOf(1, n)
          BY <1>4, <2>1, <4>3
        <5>2. h.shape = "split"
          BY <1>2, <1>5, <1>10, <4>3
        <5>3. h.value.r = h.value.l + PanOf(n)
          BY <1>4, <4>1, <5>1, <5>2 DEF PannedOf
        <5>4. QED
          BY <2>2, <4>1, <5>3
      <4>4. QED
        BY <4>2, <4>3 DEF PannedOf
    \* if it is reported on nothing more is to be said; if not, it played this already
    <3>3. CASE Reported(h.value) = Reported(node[n])
      <4>1. events' = events /\ Reported(node'[n]) = Reported(node[n])
        BY <2>2, <2>4, <3>3
      <4>2. Differs(n) => Differs(n)'
        <5>1. ASSUME NEW i \in DOMAIN wire, wire[i].node = n,
                     Reported(wire[i].value) # Reported(node[n])
              PROVE  Differs(n)'
          <6>1. i # 1
            BY <1>4, <3>3, <5>1
          <6>2. i - 1 \in DOMAIN wire' /\ wire'[i - 1] = wire[i]
            BY <1>4, <6>1
          <6>3. QED
            BY <4>1, <5>1, <6>2 DEF Differs
        <5>2. QED
          BY <5>1 DEF Differs
      <4>3. Unsplit(n) => Unsplit(n)'
        <5>1. ASSUME Unsplit(n), NEW i \in DOMAIN wire', LastOf(i, n)' PROVE wire'[i].shape = "flat"
          BY <1>4, <2>1, <5>1 DEF Unsplit
        <5>2. ASSUME Unsplit(n), NoneOf(n)' PROVE n \in flat'
          <6>1. LastOf(1, n)
            BY <1>4, <2>1, <5>2
          <6>2. h.shape = "flat"
            BY <1>4, <5>2, <6>1 DEF Unsplit
          <6>3. QED
            BY <1>2, <1>10, <6>2
        <5>3. QED
          BY <5>1, <5>2 DEF Unsplit
      <4>4. Calm(n) => Calm(n)'
        BY <1>4, <1>6, <4>1 DEF Calm
      <4>5. Pending(n) => Pending(n)'
        BY <2>1, <2>5
      <4>6. ToldOf(n) => ToldOf(n)'
        BY <1>6, <4>1, <4>2, <4>3, <4>5 DEF ToldOf, Believed
      <4>7. HeardOf(n) => HeardOf(n)'
        BY <1>6, <4>1, <4>2, <4>5 DEF HeardOf
      <4>8. CountedOf(n) => CountedOf(n)'
        BY <1>2, <1>6, <4>4 DEF CountedOf
      <4>9. QED
        BY <1>6, <3>1, <3>2, <3>2b, <4>6, <4>7, <4>8 DEF SoundOf
    <3>4. CASE Reported(h.value) # Reported(node[n])
      <4>1. Pending(n)'
        BY <2>5, <3>4
      <4>2. ToldOf(n)' /\ HeardOf(n)'
        BY <1>6, <3>1, <4>1 DEF ToldOf, HeardOf
      \* it did not play what is intended, so what was counted is somebody else's
      <4>3. ~Calm(n)
        BY <1>4, <3>4 DEF Calm
      <4>4. CountedOf(n) => CountedOf(n)'
        BY <1>2, <1>6, <4>3 DEF CountedOf
      <4>5. QED
        BY <3>1, <3>2, <3>2b, <4>2, <4>4 DEF SoundOf
    <3>5. QED
      BY <3>3, <3>4
  <2>8. Traffic'
    BY <2>5, <2>6, <2>7, Sound
  <2>9. TypeOK'
    <3>1. flat' \subseteq Nodes
      BY <1>1, <1>2, <1>10, <2>1
    <3>2. \A i \in DOMAIN events' : events'[i].node \in there' \cup (Chains \cap Viewed)
      BY <1>1, <1>2, <1>10, <2>3, <2>5
    <3>3. QED
      BY <1>1, <1>2, <1>7, <2>2, <2>5, <3>1, <3>2, WorldTypes
  <2>10. QED
    BY <2>8, <2>9
<1>11. QED
  BY <1>9, <1>10

\* After a second without writes and reports a mix plays what it is meant to.
LEMMA SecondsPassStep ==
  ASSUME TypeOK, Traffic, NEW m \in Mixes, SecondsPass(m)
  PROVE  TypeOK' /\ Traffic'
<1>1. /\ age[m] < 2 /\ events = <<>> /\ wire = <<>> /\ age' = [age EXCEPT ![m] = age[m] + 1]
      /\ UNCHANGED <<view, there, node, wire, events, known, stored, pan, ducked, duck, loud>>
      /\ UNCHANGED <<audition, intent, rewrites, cell, armed, pending, flat, ops, foreign>>
  BY DEF SecondsPass, pw, ducking, cells, bounds
<1>2. age \in [Mixes -> 0..2] /\ rewrites \in [Mixes -> 0..3] /\ intent \in [Mixes -> Wish]
  BY DEF TypeOK
<1>3. TypeOK'
  <2>1. age' \in [Mixes -> 0..2]
    BY <1>1, <1>2
  <2>2. QED
    BY <1>1, <2>1 DEF TypeOK, Viewed
<1>4. ASSUME NEW n \in Mixes PROVE HeardOf(n)' /\ CountedOf(n)'
  <2>1. HeardOf(n) /\ CountedOf(n)
    BY DEF Traffic, Heard, Counted
  <2>2. ~Pending(n) /\ ~Differs(n)
    BY <1>1 DEF Pending, Differs
  <2>3. intent[n] # None => Calm(n)
    BY <1>1, <2>1, <2>2 DEF HeardOf, Calm
  <2>4. Calm(n) => Calm(n)'
    BY <1>1 DEF Calm
  <2>5. CountedOf(n)'
    BY <1>1, <2>1, <2>3, <2>4 DEF CountedOf
  <2>6. HeardOf(n)'
    BY <1>1, <2>1 DEF HeardOf, Pending, Differs
  <2>7. QED
    BY <2>5, <2>6
<1>5. Latest' /\ Addressed' /\ Told' /\ Panned'
  BY <1>1 DEF Traffic, Latest, LatestOf, Addressed, AddressedOf, NoneOf, LastOf, Differs, Unsplit,
    Told, ToldOf, Believed, Panned, PannedOf, PanOf, Pending
<1>6. QED
  BY <1>3, <1>4, <1>5 DEF Traffic, Heard, Counted
-----------------------------------------------------------------------------
(* The specification                                                       *)

LEMMA InitIInv == Init => IInv
<1> SUFFICES ASSUME Init PROVE IInv
  OBVIOUS
<1>1. PICK v \in Views : view = v /\ there = v.known /\ known = v.known
  BY DEF Init
<1>2. /\ node = [n \in Nodes |-> Sides(0, 0, FALSE)]
      /\ wire = <<>> /\ events = <<>>
      /\ stored = [n \in Sinks |-> Level(0, FALSE)]
      /\ pan = {} /\ ducked = {} /\ duck = [c \in Channels |-> 0] /\ loud = FALSE
      /\ audition = None
      /\ intent = [m \in Mixes |-> None]
      /\ rewrites = [m \in Mixes |-> 0] /\ age = [m \in Mixes |-> 2]
      /\ cell = [k \in Chains |-> 0] /\ armed = {}
      /\ pending = [n \in Sinks |-> None]
      /\ flat = {} /\ ops = 0 /\ foreign = 0
  BY DEF Init
<1>3. Depth \in Nat /\ MaxWrites \in Nat /\ Silence \in Nat /\ v.known \subseteq Nodes
  BY GainAssumption
<1>4. TypeOK
  <2>1. view \in Views /\ there \cup known \subseteq Viewed /\ known \cap Sinks \subseteq there
    BY <1>1 DEF Viewed
  <2>2. node \in [Nodes -> [l : Int, r : Int, mute : BOOLEAN]] /\ flat \subseteq Nodes
    BY <1>2 DEF Sides
  <2>3. wire \in Seq(WriteType) /\ Len(wire) <= MaxWrites /\ events \in Seq(EventType)
        /\ \A i \in DOMAIN events : events[i].node \in there \cup (Chains \cap Viewed)
    BY <1>2, <1>3
  <2>4. stored \in [Sinks -> LevelType] /\ pending \in [Sinks -> Wish]
        /\ \A n \in known \cap Sinks : pending[n] = None
    BY <1>2 DEF Level, LevelType, Wish
  <2>5. /\ pan \subseteq Channels /\ ducked \subseteq Channels /\ loud \in BOOLEAN
        /\ duck \in [Channels -> 0..Depth] /\ \A c \in Channels \ ducked : duck[c] = 0
    <3>1. 0 \in 0..Depth
      BY <1>3
    <3>2. QED
      BY <1>2, <3>1
  <2>6. intent \in [Mixes -> Wish] /\ rewrites \in [Mixes -> 0..3] /\ age \in [Mixes -> 0..2]
    BY <1>2 DEF Wish
  <2>7. cell \in [Chains -> 0..Silence] /\ armed \subseteq known \cap Chains /\ audition = None
        /\ {ops, foreign} \subseteq Nat
    BY <1>2, <1>3
  <2>8. QED
    BY <2>1, <2>2, <2>3, <2>4, <2>5, <2>6, <2>7 DEF TypeOK
<1>5. Latest
  BY <1>2 DEF Latest, LatestOf
<1>6. Addressed
  BY <1>1, <1>2 DEF Addressed, AddressedOf, NoneOf
<1>7. ASSUME NEW c \in Channels \cap known PROVE ToldOf(c) /\ PannedOf(c)
  <2>1. node[c] = Sides(0, 0, FALSE) /\ stored[c] = Level(0, FALSE) /\ duck[c] = 0 /\ PanOf(c) = 0
    BY <1>2 DEF Nodes, Sinks, PanOf
  <2>2. Reported(node[c]) = Believed(c)
    BY <2>1 DEF Reported, Believed, Louder, Sides, Level
  <2>3. node[c].r = node[c].l + PanOf(c)
    BY <2>1 DEF Sides
  <2>4. DOMAIN wire = {}
    BY <1>2
  <2>5. QED
    BY <2>2, <2>3, <2>4 DEF ToldOf, PannedOf, LastOf
<1>8. Heard /\ Counted
  BY <1>2 DEF Heard, HeardOf, Counted, CountedOf
<1>9. QED
  BY <1>4, <1>5, <1>6, <1>7, <1>8 DEF IInv, Told, Panned

LEMMA NextIInv == IInv /\ [Next]_vars => IInv'
<1> SUFFICES ASSUME IInv, [Next]_vars PROVE IInv'
  OBVIOUS
<1>1. TypeOK /\ Traffic
  BY DEF IInv, Traffic
<1>2. SUFFICES TypeOK' /\ Traffic'
  BY DEF IInv, Traffic
<1>3. CASE Commands
  <2>1. \A v \in Levels, b \in BOOLEAN : v \in Int /\ Level(v, b) \in LevelType
    BY GainAssumption DEF Level, LevelType
  <2>2. ASSUME NEW c \in Channels, NEW v \in Levels, SetChannelTrim(c, v) PROVE TypeOK' /\ Traffic'
    BY <1>1, <2>2, SetChannelTrimStep
  <2>3. ASSUME NEW c \in Channels, NEW b \in BOOLEAN,
               SetChannelMuted(c, b) \/ SetChannelPan(c, b) \/ SetDucking(c, b)
        PROVE  TypeOK' /\ Traffic'
    BY <1>1, <2>3, SetChannelMutedStep, SetChannelPanStep, SetDuckingStep
  <2>4. ASSUME NEW m \in Mixes, NEW v \in Levels, NEW b \in BOOLEAN, SetMix(m, Level(v, b))
        PROVE  TypeOK' /\ Traffic'
    BY <1>1, <2>1, <2>4, SetMixStep
  <2>5. ASSUME NEW k \in Chains, NEW v \in Levels, SetCell(k, v) PROVE TypeOK' /\ Traffic'
    BY <1>1, <2>5, SetCellStep
  <2>6. ASSUME NEW n \in Sinks, StartAudition(n) PROVE TypeOK' /\ Traffic'
    BY <1>1, <2>6, StartAuditionStep
  <2>7. ASSUME NEW v \in Levels, ImportLevels(Level(v, FALSE)) PROVE TypeOK' /\ Traffic'
    BY <1>1, <2>1, <2>7, ImportLevelsStep
  <2>8. QED
    BY <1>1, <1>3, <2>2, <2>3, <2>4, <2>5, <2>6, <2>7, StopAuditionStep DEF Commands
<1>4. CASE HandleEvent
  BY <1>1, <1>4, OnNodeStep, OnNodeRemovedStep DEF HandleEvent
<1>5. CASE WriteLands
  <2>1. PICK h : h = Head(wire)
    OBVIOUS
  <2>2. PICK n : n = h.node
    OBVIOUS
  <2>3. QED
    BY <1>1, <1>5, <2>1, <2>2, WriteLandsStep
<1>6. CASE \E n \in Nodes, v \in Levels, b \in BOOLEAN : ForeignWrite(n, Level(v, b))
  <2>1. \A v \in Levels, b \in BOOLEAN : Level(v, b) \in LevelType
    BY GainAssumption DEF Level, LevelType
  <2>2. QED
    BY <1>1, <1>6, <2>1, ForeignWriteStep
<1>7. CASE \E n \in Nodes, v \in Levels \cup {Silence} : NodeArrives(n, v)
  <2>1. \A v \in Levels \cup {Silence} : v \in Int
    BY GainAssumption
  <2>2. QED
    BY <1>1, <1>7, <2>1, NodeArrivesStep
<1>8. CASE UNCHANGED vars
  <2>1. /\ UNCHANGED <<view, there, node, wire, events, known, stored, pan, ducked, duck, loud>>
        /\ UNCHANGED <<audition, intent, rewrites, age, cell, armed, pending, flat, ops, foreign>>
    BY <1>8 DEF vars, pw, ducking, guard, cells, bounds
  <2>2. TypeOK'
    BY <1>1, <2>1 DEF TypeOK, Viewed
  <2>3. Traffic'
    BY <1>1, <2>1 DEF Traffic, Latest, LatestOf, Addressed, AddressedOf, NoneOf, LastOf, Differs,
      Unsplit, Told, ToldOf, Believed, Panned, PannedOf, PanOf, Heard, HeardOf, Counted, CountedOf,
      Calm, Pending
  <2>4. QED
    BY <2>2, <2>3
<1>9. QED
  BY <1>1, <1>3, <1>4, <1>5, <1>6, <1>7, <1>8, TriggerStep, TickDuckingStep, ChainLeavesStep,
    SecondsPassStep DEF Next

LEMMA Invariance == Spec => []IInv
<1>1. QED
  BY InitIInv, NextIInv, PTL DEF Spec
-----------------------------------------------------------------------------
\* The types, and what goes with them: a sink the daemon knows, or is told of, is there; a level
\* that is to be restored waits only for a sink that is not; an audition ends on sinks that still
\* are (mixer.cpp: onNode 2291-2364, restorePendingCellStates 2196-2217, stopAudition 1809-1823).
THEOREM TypeCorrect == Spec => []TypeOK
<1>1. IInv => TypeOK
  BY DEF IInv
<1>2. QED
  BY <1>1, Invariance, PTL

\* However the daemon's writes, PipeWire's reports, the ducking ramp, an audition and another
\* client cross: when they are through, a channel plays its fader under its ducking and panned
\* (mixer.cpp: onNode 2311-2317 divides the ducking of now out of a level that may be older,
\* applyChannelGain 936-944).
THEOREM ChannelsAlwaysAddUp == Spec => []ChannelsAddUp
<1>1. ASSUME IInv, NEW c \in Channels \cap known \cap there, Settled(c)
      PROVE  \/ node[c] = ChannelGain(c, stored, pan, duck).value
             \/ c \in flat /\ Reported(node[c]) \in {Believed(c), stored[c]}
  <2>1. NoneOf(c) /\ ~Pending(c) /\ ~Differs(c)
    BY <1>1 DEF Settled, NoneOf, Pending, Differs
  <2>2. ToldOf(c) /\ PannedOf(c)
    BY <1>1 DEF IInv, Told, Panned
  <2>3. /\ node[c] \in Value /\ stored[c].vol \in Int /\ stored[c].mute \in BOOLEAN
        /\ duck[c] \in Int /\ PanSide \in Nat
    BY <1>1, GainAssumption DEF IInv, TypeOK, Value, Nodes, Sinks, LevelType
  <2>4. CASE c \in flat
    BY <2>1, <2>2, <2>4 DEF ToldOf
  <2>5. CASE c \notin flat
    <3>1. Reported(node[c]) = Believed(c) /\ node[c].r = node[c].l + PanOf(c)
      BY <2>1, <2>2, <2>5 DEF ToldOf, PannedOf, Unsplit
    <3>2. /\ node[c].l = stored[c].vol + duck[c] /\ node[c].mute = stored[c].mute
          /\ node[c].r = node[c].l + (IF c \in pan THEN PanSide ELSE 0)
      BY <2>3, <3>1 DEF Reported, Believed, Louder, Level, PanOf, Value
    <3>3. node[c] = [l |-> node[c].l, r |-> node[c].r, mute |-> node[c].mute]
      BY <2>3 DEF Value
    <3>4. QED
      BY <2>3, <3>2, <3>3 DEF ChannelGain, Send, Sides
  <2>6. QED
    BY <2>4, <2>5
<1>2. IInv => ChannelsAddUp
  BY <1>1 DEF ChannelsAddUp
<1>3. QED
  BY <1>2, Invariance, PTL

\* A mix's intent is given up only when another client has written three times: of the bursts
\* enforceIntent counts (mixer.cpp 2267-2282), one at most is a late report of the daemon's own writes.
THEOREM GivesUpRightly == Spec => GivesUpOnlyToForeign
<1>1. ASSUME IInv, [Next]_vars, NEW m \in Mixes, intent[m] # None, intent'[m] = None
      PROVE  foreign >= 3
  <2>1. TypeOK /\ TypeOK' /\ CountedOf(m) /\ rewrites[m] \in Nat /\ foreign \in Nat
    <3>1. TypeOK /\ CountedOf(m)
      BY <1>1 DEF IInv, Counted
    <3>2. TypeOK'
      BY <1>1, NextIInv DEF IInv
    <3>3. QED
      BY <3>1, <3>2 DEF TypeOK
  <2>2. ~\E levels : Intend(levels) /\ \A n \in DOMAIN levels : levels[n] \in LevelType
    BY <1>1, <2>1, IntendOf, NoLevel
  <2>3. intent' # intent
    BY <1>1
  <2>4. ~Commands
    <3>1. ~\E n \in Mixes, v \in Levels, b \in BOOLEAN : SetMix(n, Level(v, b))
      <4>1. ASSUME NEW n \in Mixes, NEW level \in LevelType, SetMix(n, level) PROVE FALSE
        <5> DEFINE levels == [x \in {n} |-> level]
        <5>1. Intend(levels) /\ \A x \in DOMAIN levels : levels[x] \in LevelType
          BY <4>1 DEF SetMix
        <5> HIDE DEF levels
        <5>2. QED
          BY <2>2, <5>1
      <4>2. \A v \in Levels, b \in BOOLEAN : Level(v, b) \in LevelType
        BY GainAssumption DEF Level, LevelType
      <4>3. QED
        BY <4>1, <4>2
    <3>2. ~\E n \in Sinks : StartAudition(n)
      <4>1. ASSUME NEW n \in Sinks, StartAudition(n) PROVE FALSE
        <5>1. PICK S : Intend([s \in DOMAIN Found \cup S |-> stored'[s]]) /\ S \subseteq Sinks
          <6> DEFINE before == Overlay(stored, Found)
                     solo == [s \in Tier(n) |->
                                IF s = n THEN Level(0, FALSE) ELSE [before[s] EXCEPT !.mute = TRUE]]
          <6>1. Intend([s \in DOMAIN Found \cup DOMAIN solo |-> stored'[s]])
            BY <4>1 DEF StartAudition
          <6>2. DOMAIN solo \subseteq Sinks
            BY DEF Tier, Sinks
          <6>3. QED
            BY <6>1, <6>2
        <5> DEFINE levels == [s \in DOMAIN Found \cup S |-> stored'[s]]
        <5>2. \A s \in DOMAIN levels : levels[s] \in LevelType
          BY <2>1, <5>1, FoundTyped DEF TypeOK
        <5>3. Intend(levels)
          BY <5>1
        <5> HIDE DEF levels
        <5>4. QED
          BY <2>2, <5>2, <5>3
      <4>2. QED
        BY <4>1
    <3>3. ~StopAudition
      BY <2>1, <2>2, FoundTyped DEF StopAudition
    <3>4. ~\E v \in Levels : ImportLevels(Level(v, FALSE))
      <4>1. ASSUME NEW level \in LevelType, ImportLevels(level) PROVE FALSE
        <5>1. PICK S : Intend([n \in S |-> level])
          BY <4>1 DEF ImportLevels
        <5> DEFINE levels == [n \in S |-> level]
        <5>2. Intend(levels) /\ \A n \in DOMAIN levels : levels[n] \in LevelType
          BY <5>1
        <5> HIDE DEF levels
        <5>3. QED
          BY <2>2, <5>2
      <4>2. \A v \in Levels : Level(v, FALSE) \in LevelType
        BY GainAssumption DEF Level, LevelType
      <4>3. QED
        BY <4>1, <4>2
    <3>5. QED
      BY <2>3, <3>1, <3>2, <3>3, <3>4 DEF Commands, SetChannelTrim, SetChannelMuted, SetChannelPan,
        SetDucking, SetCell, OnChannels, guard
  <2>5. HandleEvent
    BY <1>1, <2>3, <2>4 DEF Next, vars, guard, TriggerChanges, OnChannels, WriteLands, World,
      TickDucking, ForeignWrite, NodeArrives, ChainLeaves, SecondsPass
  <2>6. PICK n \in Mixes : /\ events # <<>> /\ n = Head(events).node
                           /\ OnMix(n, Head(events).level)
    BY <2>3, <2>5 DEF HandleEvent, OnNode, OnNodeRemoved, OnChannel, OnChain, Handles, guard
  <2>7. n \in known
    <3>1. ASSUME n \notin known PROVE FALSE
      <4>1. PICK S \in SUBSET Sinks : /\ Intend([x \in S |-> pending[x]])
                                     /\ \A x \in S : pending[x] # None
        BY <2>6, <3>1 DEF OnMix, Restored, Sinks
      <4> DEFINE levels == [x \in S |-> pending[x]]
      <4>2. Intend(levels) /\ \A x \in DOMAIN levels : levels[x] \in LevelType
        BY <2>1, <4>1 DEF TypeOK, Wish
      <4> HIDE DEF levels
      <4>3. QED
        BY <2>2, <4>2
    <3>2. QED
      BY <3>1
  <2>8. GivesUp(n) /\ Foreign(n, Head(events).level) /\ intent' = [intent EXCEPT ![n] = None]
    BY <2>3, <2>6, <2>7 DEF OnMix, OnMixKnown, guard
  <2>9. m = n
    BY <1>1, <2>1, <2>8 DEF TypeOK
  \* a report against the intent, and it is not the first burst that is given up on
  <2>10. ~Calm(m)
    <3>1. events # <<>> /\ events \in Seq(EventType) /\ Head(events).node = m
      BY <2>1, <2>6, <2>9 DEF TypeOK
    <3>2. QED
      BY <2>8, <2>9, <3>1 DEF Calm, Foreign
  <2>11. rewrites[m] >= 3 /\ age[m] = 1
    BY <2>8, <2>9 DEF GivesUp
  <2>12. QED
    BY <1>1, <2>1, <2>10, <2>11 DEF CountedOf
<1>2. IInv /\ [Next]_vars =>
        [\A m \in Mixes : intent[m] # None /\ intent'[m] = None => foreign >= 3]_vars
  BY <1>1
<1>3. QED
  BY <1>2, Invariance, PTL DEF Spec, GivesUpOnlyToForeign
=============================================================================
