------------------------------- MODULE Client -------------------------------
(***************************************************************************)
(* What a frontend shows of the daemon: the objects kmixdeckd exports on   *)
(* the session bus (src/src/daemon/service.cpp) and the mirror of them     *)
(* that MixerClient keeps (src/src/frontend/mixerclient.cpp).              *)
(*                                                                         *)
(* The daemon publishes a channel when it is in Mixer::m_channels, a list  *)
(* that reconcile() and onNode() fill and onNodeRemoved() and a lost       *)
(* PipeWire empty; the layout is another list.  Signals reach the client   *)
(* in the order they were sent, calls reach the daemon in the order they   *)
(* were made, and refresh() waits for a snapshot while signals queue up    *)
(* behind it.  The mixes are fixed: every channel has one cell.            *)
(***************************************************************************)
EXTENDS Integers, Sequences, FiniteSets, SequencesExt

CONSTANTS Channels,     \* the slugs a channel may have
          Accepted,     \* values the daemon takes for a device or a fader
          Refused,      \* a value it refuses: an unknown device, a loop
          None,         \* no entry
          Desk,         \* the channels the daemon starts with, in order
          MaxEvents,    \* commands, faults and whole layouts, all together
          MaxFaults,    \* crashes of the daemon and losses of PipeWire
          MaxEdits      \* whole layouts put in place: Import, the file

Chan(c) == <<"channel", c>>
Cell(c) == <<"cell", c>>
Paths   == {Chan(c) : c \in Channels} \cup {Cell(c) : c \in Channels}
ChannelOf(p) == p[2]

Orders == {s \in UNION {[1..n -> Channels] : n \in 0..Cardinality(Channels)} :
             IsInjective(s)}

\* what GetManagedObjects may answer
Answers == [values : [Paths -> Accepted \cup {None}], order : Orders]

ASSUME ClientAssumption ==
    /\ IsFiniteSet(Channels) /\ Desk \in Orders
    /\ 0 \in Accepted /\ Refused \notin Accepted /\ None \notin Accepted
    /\ Refused # None /\ Refused \notin Answers
    /\ {MaxEvents, MaxFaults, MaxEdits} \subseteq Nat

VARIABLES
    up,         \* kmixdeckd owns org.kmixdeck1
    pw,         \* Mixer::m_connected
    due,        \* the reconcile() 400 ms after the connect is still to come
    layout,     \* m_layout.channels, as saved
    live,       \* m_channels
    sink,       \* each channel's sink, as Graph's snapshot has it
    leaving,    \* sinks the snapshot dropped, nodeRemoved still queued
    value,      \* per object path: the input device, the cell's fader
    objects,    \* m_objects: the paths exported
    calls,      \* method calls on the way to the daemon
    sent,       \* signals and replies on the way to the client
    waiting,    \* refresh() blocks in GetManagedObjects
    answer,     \* what it got, or None
    available,  \* m_available
    mirror,     \* m_channels and m_cells of the client
    order,      \* m_channelOrder of the client
    silent,     \* history: paths no signal speaks for, because the daemon
                \* changed the value without one or refused a local write
    events, faults, edits

daemon == <<up, pw, due, layout, live, sink, leaving, value, objects>>
bus    == <<calls, sent>>
client == <<waiting, answer, available, mirror, order>>
counts == <<events, faults, edits>>
vars   == <<daemon, bus, client, silent, counts>>

\* null: not there; asked: requested of PipeWire; there; doomed: its removal
\* was asked for and the graph still lists it
SinkStates == {"null", "asked", "there", "doomed"}

Seen(c) == pw /\ sink[c] \in {"there", "doomed"}

\* one more thing happens to the desk
Event == events < MaxEvents /\ events' = events + 1

-----------------------------------------------------------------------------
(* The daemon's side of the bus.                                           *)

\* the paths syncObjects() wants: a cell needs its channel in both lists
Wanted(lay, liv) ==
    {Chan(c) : c \in Range(liv)}
      \cup {Cell(c) : c \in Range(liv) \cap Range(lay)}

Removed(p)  == [kind |-> "removed", path |-> p]
Added(p, v) == [kind |-> "props", path |-> p, value |-> v]
Listed(liv) == [kind |-> "order", order |-> liv]

\* layoutChanged: leave first, then export, then the order of the channels
Published(want, val, liv) ==
    LET gone == objects \ want
        new  == want \ objects
        Exported(part) == [i \in 1..Cardinality(part) |->
                              Added(SetToSeq(part)[i], val[SetToSeq(part)[i]])]
    IN  [i \in 1..Cardinality(gone) |-> Removed(SetToSeq(gone)[i])]
          \o Exported({p \in new : p[1] = "channel"})
          \o Exported({p \in new : p[1] = "cell"})
          \o <<Listed(liv)>>

\* every later step of a command sees the lists this one leaves behind
LayoutChanged(lay, liv, val, first) ==
    LET want == Wanted(lay, liv)
    IN  /\ objects' = want
        /\ sent' = sent \o Published(want, val, liv) \o first
        /\ silent' = silent \cap objects \cap want

\* mutant: the channels already listed are listed again
ReconciledTwice(lay, liv) == lay \o liv

\* a list, then what another has that it lacks
Joined(list, more) ==
    LET upTo[n \in 0..Len(more)] ==
          IF n = 0 THEN list
          ELSE IF more[n] \in Range(upTo[n - 1]) THEN upTo[n - 1]
          ELSE Append(upTo[n - 1], more[n])
    IN  upTo[Len(more)]

\* m_channels after reconcile(): what the layout has, in its order, then the
\* adopted ones
Reconciled(lay, liv) == Joined(lay, liv)

\* requestNullNode(): not while the graph lists a node of that name
Requested(lay, snk) ==
    [c \in Channels |-> IF c \in Range(lay) /\ snk[c] = "null" THEN "asked"
                                                               ELSE snk[c]]

Reconcile ==
    /\ up /\ pw /\ due
    /\ due' = FALSE
    /\ live' = Reconciled(layout, live)
    /\ sink' = Requested(layout, sink)
    /\ LayoutChanged(layout, live', value, <<>>)
    /\ UNCHANGED <<up, pw, layout, leaving, value, calls, client, counts>>

\* addChannel(), then its reply to the caller
AddChannel(c, reply) ==
    IF c \in Range(layout)
      THEN UNCHANGED <<daemon, sent, silent>>
      ELSE /\ layout' = Append(layout, c)
           /\ IF pw THEN /\ live' = Reconciled(layout', live)
                         /\ sink' = Requested(layout', sink)
                         /\ LayoutChanged(layout', live', value, reply)
                    ELSE /\ sent' = sent \o reply
                         /\ UNCHANGED <<live, sink, objects, silent>>
           /\ UNCHANGED <<up, pw, due, leaving, value>>

\* removeChannel(): the sink is destroyed when the graph knows it, and the
\* layout forgets the cells and inputs
RemoveChannel(c) ==
    IF c \notin Range(layout)
      THEN UNCHANGED <<daemon, sent, silent>>
      ELSE /\ layout' = RemoveFirst(layout, c)
           /\ live' = RemoveFirst(live, c)
           /\ sink' = [sink EXCEPT ![c] = IF Seen(c) THEN "doomed" ELSE @]
           /\ value' = [value EXCEPT ![Chan(c)] = 0, ![Cell(c)] = 0]
           /\ LayoutChanged(layout', live', value', <<>>)
           /\ UNCHANGED <<up, pw, due, leaving>>

\* moveChannel(): both lists, each as far as it reaches
MoveChannel(c, index) ==
    LET Moved(s) == IF c \in Range(s)
                      THEN InsertAt(RemoveFirst(s, c),
                                    IF index < Len(s) THEN index ELSE Len(s), c)
                      ELSE s
    IN  IF c \notin Range(layout)
          THEN UNCHANGED <<daemon, sent, silent>>
          ELSE /\ layout' = Moved(layout)
               /\ live' = Moved(live)
               /\ LayoutChanged(layout', live', value, <<>>)
               /\ UNCHANGED <<up, pw, due, sink, leaving, value>>

\* a property Set on an exported path; what is refused is only logged
SetValue(p, v) ==
    IF p \in objects /\ v \in Accepted /\ ChannelOf(p) \in Range(layout)
      THEN /\ value' = [value EXCEPT ![p] = v]
           /\ sent' = Append(sent, Added(p, v))
           /\ silent' = silent \ {p}
           /\ UNCHANGED <<up, pw, due, layout, live, sink, leaving, objects>>
      ELSE silent' = silent \cup {p} /\ UNCHANGED <<daemon, sent>>

\* GetManagedObjects
ManagedObjects ==
    [values |-> [p \in Paths |-> IF p \in objects THEN value[p] ELSE None],
     order  |-> live]

HandleCall ==
    /\ up /\ calls # <<>>
    /\ calls' = Tail(calls)
    /\ LET call == Head(calls) IN
         /\ \/ /\ call.op = "add"
               /\ AddChannel(call.arg, <<>>) /\ UNCHANGED answer
            \/ /\ call.op = "addWithSource"
               /\ AddChannel(call.arg, <<[kind |-> "reply", channel |-> call.arg]>>)
               /\ UNCHANGED answer
            \/ call.op = "remove" /\ RemoveChannel(call.arg) /\ UNCHANGED answer
            \/ call.op = "set" /\ SetValue(call.arg, call.value) /\ UNCHANGED answer
            \/ /\ call.op = "managed"
               /\ answer' = ManagedObjects
               \* an older signal still on its way is absorbed after it
               /\ silent' = {p \in silent : \E i \in DOMAIN sent :
                               sent[i].kind = "props" /\ sent[i].path = p}
               /\ UNCHANGED <<daemon, sent>>
    /\ UNCHANGED <<waiting, available, mirror, order, counts>>

\* the same commands from the command line, the web page, another window
OtherFrontend ==
    /\ up /\ Event
    /\ \/ \E c \in Channels : AddChannel(c, <<>>)
       \/ \E c \in Channels : RemoveChannel(c)
       \/ \E c \in Channels, index \in 1..Len(layout) : MoveChannel(c, index)
       \/ \E p \in objects, v \in Accepted : value[p] # v /\ SetValue(p, v)
    /\ UNCHANGED <<calls, client, faults, edits>>

\* importSettings(), or a foreign edit of layout.json: m_layout is replaced,
\* m_channels only grows; Import announces every channel, neither the cells
ReplaceLayout(lay, val, announced) ==
    LET liv == IF pw THEN Reconciled(lay, live)
               ELSE IF announced THEN live
               ELSE Joined(live, lay)
        want == Wanted(lay, liv)
        told == {p \in objects \cap want : p[1] = "channel" /\ announced
                                             /\ ChannelOf(p) \in Range(lay)}
    IN  /\ layout' = lay /\ live' = liv /\ value' = val
        /\ sink' = IF pw THEN Requested(lay, sink) ELSE sink
        /\ objects' = want
        /\ sent' = sent \o Published(want, val, liv)
                        \o [i \in 1..Cardinality(told) |->
                               Added(SetToSeq(told)[i], val[SetToSeq(told)[i]])]
        /\ silent' = {p \in objects \cap want :
                        p \notin told /\ (p \in silent \/ val[p] # value[p])}

WholeLayout ==
    /\ up /\ edits < MaxEdits /\ Event
    /\ edits' = edits + 1
    /\ \E lay \in Orders, v \in Accepted \ {0}, announced \in BOOLEAN :
          ReplaceLayout(lay, [p \in Paths |-> IF ChannelOf(p) \in Range(lay)
                                                THEN v ELSE 0], announced)
    /\ UNCHANGED <<up, pw, due, leaving, calls, client, faults>>

-----------------------------------------------------------------------------
(* PipeWire and the daemon's life.                                         *)

\* a node event of a channel sink; a channel nobody lists is adopted
OnNode(c, snk) ==
    /\ sink' = snk
    /\ IF c \in Range(live)
         THEN /\ sent' = IF Chan(c) \in objects
                           THEN Append(sent, Added(Chan(c), value[Chan(c)]))
                           ELSE sent
              /\ silent' = silent \ {Chan(c)}
              /\ UNCHANGED <<live, objects>>
         ELSE /\ live' = Append(live, c)
              /\ LayoutChanged(layout, live', value, <<>>)

SinkArrives(c) ==
    /\ up /\ pw /\ sink[c] = "asked" /\ c \notin leaving
    /\ OnNode(c, [sink EXCEPT ![c] = "there"])
    /\ UNCHANGED <<up, pw, due, layout, leaving, value, calls, client, counts>>

\* a parameter of a sink that is being destroyed still reports
SinkEchoes(c) ==
    /\ up /\ pw /\ sink[c] = "doomed" /\ c \notin Range(live)
    /\ OnNode(c, sink)
    /\ UNCHANGED <<up, pw, due, layout, leaving, value, calls, client, counts>>

\* the loop thread drops the sink from the snapshot and queues nodeRemoved
SinkGoes(c) ==
    /\ up /\ pw /\ sink[c] = "doomed"
    /\ sink' = [sink EXCEPT ![c] = "null"]
    /\ leaving' = leaving \cup {c}
    /\ UNCHANGED <<up, pw, due, layout, live, value, objects, bus, client,
                   silent, counts>>

OnNodeRemoved(c) ==
    /\ up /\ c \in leaving
    /\ leaving' = leaving \ {c}
    /\ IF c \in Range(live)
         THEN /\ live' = RemoveFirst(live, c)
              /\ LayoutChanged(layout, live', value, <<>>)
         ELSE UNCHANGED <<live, objects, sent, silent>>
    /\ UNCHANGED <<up, pw, due, layout, sink, value, calls, client, counts>>

\* Graph::connected: the registry replays, reconcile() follows
PwConnects ==
    /\ up /\ ~pw
    /\ pw' = TRUE /\ due' = TRUE
    /\ \E found \in Orders :
           /\ Range(found) = {c \in Channels : sink[c] = "there"} \ Range(live)
           /\ live' = live \o found
           /\ IF found = <<>> THEN UNCHANGED <<objects, sent, silent>>
                              ELSE LayoutChanged(layout, live', value, <<>>)
    /\ UNCHANGED <<up, layout, sink, leaving, value, calls, client, counts>>

\* Graph::disconnected: every runtime list is dropped
PwLost ==
    /\ up /\ pw /\ faults < MaxFaults /\ Event
    /\ faults' = faults + 1
    /\ pw' = FALSE /\ due' = FALSE
    /\ live' = <<>>
    /\ sink' = [c \in Channels |-> "null"] /\ leaving' = {}
    /\ LayoutChanged(layout, live', value, <<>>)
    /\ UNCHANGED <<up, layout, value, calls, client, edits>>

\* the process ends: its calls are never answered, its sinks stay
Crash ==
    /\ up /\ faults < MaxFaults /\ Event
    /\ faults' = faults + 1
    /\ up' = FALSE /\ pw' = FALSE /\ due' = FALSE
    /\ live' = <<>> /\ objects' = {} /\ leaving' = {}
    /\ sink' = [c \in Channels |->
                  CASE sink[c] = "asked"  -> "there"
                    [] sink[c] = "doomed" -> "null"
                    [] OTHER -> sink[c]]
    /\ calls' = <<>>
    /\ sent' = Append(sent, [kind |-> "gone"])
    /\ answer' = IF waiting /\ answer = None THEN Refused ELSE answer
    /\ silent' = {}
    /\ UNCHANGED <<layout, value, waiting, available, mirror, order, edits>>

\* Restart=on-failure, or the bus activates it for a call: everything is
\* exported before the name is taken
Start ==
    /\ ~up
    /\ up' = TRUE
    /\ live' = layout
    /\ objects' = Wanted(layout, layout)
    /\ sent' = Append(sent, [kind |-> "owner"])
    /\ UNCHANGED <<pw, due, layout, sink, leaving, value, calls, client, silent,
                   counts>>

-----------------------------------------------------------------------------
(* The client.  Nothing of it runs while refresh() waits.                  *)

Call(c) == calls' = Append(calls, c)

\* an entry of the mirror is written before the daemon is asked
Write(p, v) ==
    /\ mirror' = [mirror EXCEPT ![p] = v]
    /\ Call([op |-> "set", arg |-> p, value |-> v])

\* a gesture on something the window shows, or a command of its menus
UserActs ==
    /\ ~waiting /\ available /\ Event
    /\ \/ \E p \in Paths, v \in Accepted \cup {Refused} :
            mirror[p] \notin {None, v} /\ Write(p, v)
       \/ \E op \in {"add", "addWithSource"}, c \in Channels \ Range(order) :
            Call([op |-> op, arg |-> c]) /\ UNCHANGED mirror
       \/ \E c \in Range(order) : Call([op |-> "remove", arg |-> c]) /\ UNCHANGED mirror
    /\ UNCHANGED <<daemon, sent, waiting, answer, available, order, silent,
                   faults, edits>>

\* absorb() of one object's properties
Absorb(p, v) ==
    /\ mirror' = [mirror EXCEPT ![p] = v]
    /\ order' = IF p[1] = "channel" /\ ChannelOf(p) \notin Range(order)
                  THEN Append(order, ChannelOf(p)) ELSE order

\* onInterfacesRemoved()
Drop(p) ==
    /\ mirror' = [mirror EXCEPT ![p] = None]
    /\ order' = IF p[1] = "channel" THEN RemoveFirst(order, ChannelOf(p)) ELSE order

\* mutant: a new owner of the name is not asked for its objects
AskForNothing == UNCHANGED <<waiting, calls>>

AskForAll ==
    /\ waiting' = TRUE
    /\ Call([op |-> "managed"])

Receive ==
    /\ ~waiting /\ sent # <<>>
    /\ sent' = Tail(sent)
    /\ LET m == Head(sent) IN
         \/ /\ m.kind = "props"
            /\ Absorb(m.path, m.value)
            /\ UNCHANGED <<calls, waiting, available>>
         \/ /\ m.kind = "removed"
            /\ Drop(m.path)
            /\ UNCHANGED <<calls, waiting, available>>
         \/ /\ m.kind = "order"     \* an empty list says nothing
            /\ order' = IF m.order = <<>> THEN order ELSE m.order
            /\ UNCHANGED <<calls, waiting, available, mirror>>
         \/ /\ m.kind = "reply"     \* addChannelWithSource(), second half
            /\ \E v \in Accepted \ {0} : Write(Chan(m.channel), v)
            /\ UNCHANGED <<waiting, available, order>>
         \/ /\ m.kind = "gone"
            /\ available' = FALSE
            /\ UNCHANGED <<calls, waiting, mirror, order>>
         \/ /\ m.kind = "owner"
            /\ AskForAll
            /\ UNCHANGED <<available, mirror, order>>
    /\ UNCHANGED <<daemon, answer, silent, counts>>

\* mutant: what queued up behind the snapshot is thrown away
RefreshAlone ==
    /\ waiting /\ answer # None
    /\ waiting' = FALSE /\ answer' = None /\ sent' = <<>>
    /\ available' = (answer # Refused)
    /\ mirror' = IF answer = Refused THEN [p \in Paths |-> None] ELSE answer.values
    /\ order' = IF answer = Refused THEN <<>> ELSE answer.order
    /\ UNCHANGED <<daemon, calls, silent, counts>>

\* refresh(), after the call: the mirror is rebuilt from the snapshot
Refresh ==
    /\ waiting /\ answer # None
    /\ waiting' = FALSE /\ answer' = None
    /\ IF answer = Refused
         THEN /\ available' = FALSE
              /\ mirror' = [p \in Paths |-> None] /\ order' = <<>>
         ELSE /\ available' = TRUE
              /\ mirror' = answer.values /\ order' = answer.order
    /\ UNCHANGED <<daemon, bus, silent, counts>>

-----------------------------------------------------------------------------
\* a daemon that has been up for a while, and a client whose constructor has
\* just called refresh()
Init ==
    /\ up = TRUE /\ pw = TRUE /\ due = FALSE
    /\ layout = Desk /\ live = Desk
    /\ sink = [c \in Channels |-> IF c \in Range(layout) THEN "there" ELSE "null"]
    /\ value = [p \in Paths |-> 0]
    /\ objects = Wanted(layout, layout) /\ leaving = {}
    /\ calls = <<[op |-> "managed"]>> /\ sent = <<>>
    /\ waiting = TRUE /\ answer = None /\ available = FALSE
    /\ mirror = [p \in Paths |-> None] /\ order = <<>>
    /\ silent = {} /\ events = 0 /\ faults = 0 /\ edits = 0

DaemonNext == HandleCall \/ Reconcile \/ PwConnects \/ Start
PwNext == \E c \in Channels : SinkArrives(c) \/ SinkGoes(c) \/ OnNodeRemoved(c)
ClientNext == Receive \/ Refresh

Next ==
    \/ DaemonNext \/ PwNext \/ ClientNext
    \/ UserActs \/ OtherFrontend \/ WholeLayout
    \/ PwLost \/ Crash
    \/ \E c \in Channels : SinkEchoes(c)

Spec == Init /\ [][Next]_vars

\* Qt's event loops serve what is queued, PipeWire answers, systemd or the bus
\* brings the daemon back
FairSpec == Spec /\ WF_vars(DaemonNext) /\ WF_vars(PwNext) /\ WF_vars(ClientNext)
-----------------------------------------------------------------------------
Messages ==
    [kind : {"props"}, path : Paths, value : Accepted]
      \cup [kind : {"removed"}, path : Paths]
      \cup [kind : {"order"}, order : Orders]
      \cup [kind : {"reply"}, channel : Channels]
      \cup [kind : {"gone", "owner"}]

Requests ==
    [op : {"add", "addWithSource", "remove"}, arg : Channels]
      \cup [op : {"set"}, arg : Paths, value : Accepted \cup {Refused}]
      \cup [op : {"managed"}]

\* Type invariant.  It says that neither list of the daemon, nor the client's,
\* ever names a channel twice (mixer.cpp 288 and 2320, mixerclient.cpp 136).
TypeOK ==
    /\ {up, pw, due, waiting, available} \subseteq BOOLEAN
    /\ {layout, live, order} \subseteq Orders
    /\ sink \in [Channels -> SinkStates]
    /\ value \in [Paths -> Accepted]
    /\ leaving \subseteq Channels /\ objects \subseteq Paths /\ silent \subseteq Paths
    /\ sent \in Seq(Messages) /\ calls \in Seq(Requests)
    /\ answer \in Answers \cup {None, Refused}
    /\ mirror \in [Paths -> Accepted \cup {Refused, None}]
    /\ events \in 0..MaxEvents /\ faults \in 0..MaxFaults /\ edits \in 0..MaxEdits

\* nothing is on its way, in either direction
Quiet == up /\ sent = <<>> /\ calls = <<>> /\ ~waiting

Shown(p) == IF p[1] = "channel" THEN ChannelOf(p) \in Range(order)
                                ELSE mirror[p] # None

\* what the daemon has is what the window shows: but for a write it refused,
\* which no reply reports, and a value it changed without a signal
Mirrors ==
    /\ available
    /\ order = live
    /\ \A p \in Paths : Shown(p) <=> p \in objects
    /\ \A p \in objects : mirror[p] = value[p] \/ p \in silent

\* "A mirror of org.kmixdeck1 kept live via ObjectManager + PropertiesChanged"
\* (mixerclient.h 4): when the bus is idle, the client shows every object the
\* daemon exports and no other, in the daemon's order, with its values, however
\* signals, local writes, snapshots and restarts interleaved.
MirrorIsTrue == Quiet => Mirrors

\* After the last command and the last crash the client ends up connected and
\* true to the daemon again: onNameOwnerChanged() refreshes after every start
\* and no refresh stays unanswered (mixerclient.cpp 48-65, 180-187).
MirrorReturns == <>[](available /\ (Quiet => Mirrors)) /\ []<>Quiet
=============================================================================
