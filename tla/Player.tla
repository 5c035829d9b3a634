-------------------------------- MODULE Player --------------------------------
(***************************************************************************)
(* Playback into a channel, CT-10: src/src/pipewire/player.cpp and the     *)
(* calls Mixer makes into it.                                              *)
(*                                                                         *)
(* Three kinds of threads share a track.  The Qt thread queues, starts,    *)
(* reaps and ends tracks; one worker thread per sounding track reads the   *)
(* client's file descriptor and fills a ring; the real-time callback       *)
(* empties the ring into the PipeWire stream and, at the end, drains it.   *)
(* The Qt thread ends a track in steps (stop flag, stream, join, close)    *)
(* while the other two go on, and does nothing else until it is through.   *)
(*                                                                         *)
(* Audio is counted in blocks: a track holds len blocks, the worker has    *)
(* put fed of them into the ring, the callback handed that many to the     *)
(* stream; the ring holds fed - handed.  Time is abstract: a deadline may  *)
(* pass at any moment after its clock started.  Ids are bounded by MaxId   *)
(* (quint32 in the code).                                                  *)
(***************************************************************************)
EXTENDS Integers, Sequences

CONSTANTS
  Channels,    \* channel slugs
  MaxId,       \* bound: track ids handed out
  Files,       \* the ids whose descriptor never stalls (regular files, not pipes)
  QueueLimit,  \* kQueueLimit, sounding and waiting tracks of one channel
  RingSize,    \* kRingBytes, in blocks
  MaxLen,      \* bound: blocks in a track
  MaxDrops,    \* bound: times PipeWire goes away
  MaxToggles   \* bound: changes of the set of channels that may play

ASSUME PlayerAssumption ==
  /\ MaxId \in Nat /\ MaxLen \in Nat /\ MaxDrops \in Nat /\ MaxToggles \in Nat
  /\ QueueLimit \in Nat \ {0} /\ RingSize \in Nat \ {0}
  /\ Files \subseteq 1..MaxId

Ids == 1..MaxId

VARIABLES
  queue,     \* m_queues: channel -> ids, front is sounding
  nextId,    \* m_nextId
  running,   \* Track::running, as a set of ids
  allowed,   \* channels that exist and have playback on (LayoutChannel::playback)
  connected, \* Graph::isConnected
  verdict,   \* how the Qt thread decided to end a track; "none" before
  follow,    \* startFollowing of the finish() calls under way
  cur, step, \* the track finish() works on (0: none) and where it stands
  ended,     \* ids whose end was announced
  len, fed, handed,
  worker,    \* "none", "open", "rate", "read", "push", "gone"
  rt,        \* the process callback: "out", or in a cycle having read eof ("eof", "more")
  stream,    \* ids with a pw_stream
  fdOpen,    \* ids whose descriptor is open
  stop, rated, eof, drainRequested, drained, failed,  \* the atomics, as sets of ids
  clock,     \* the deadline that runs: "none", "negotiate", "drain", and "...Late"
  drops, toggles

ring == <<len, fed, handed>>
ending == <<verdict, follow, cur, step, ended>>
rtFlags == <<eof, drainRequested, drained, rated>>
mixer == <<allowed, connected>>
counters == <<drops, toggles>>
vars == <<queue, nextId, running, mixer, ending, ring, worker, rt, stream, fdOpen,
          stop, rtFlags, failed, clock, counters>>

Results == {"played", "stopped", "error"}

Queued(c) == {queue[c][i] : i \in 1..Len(queue[c])}
Tracks == UNION {Queued(c) : c \in Channels}
Filled(id) == fed[id] - handed[id]
Doomed == {id \in Ids : verdict[id] # "none"}
Idle == Doomed = {}      \* the Qt thread is back in its event loop

Init ==
  /\ queue = [c \in Channels |-> <<>>]
  /\ nextId = 1
  /\ running = {}
  /\ allowed \in SUBSET Channels
  /\ connected = TRUE
  /\ verdict = [id \in Ids |-> "none"]
  /\ follow = FALSE /\ cur = 0 /\ step = "pick"
  /\ ended = {}
  /\ len = [id \in Ids |-> 0] /\ fed = len /\ handed = len
  /\ worker = [id \in Ids |-> "none"]
  /\ rt = [id \in Ids |-> "out"]
  /\ stream = {} /\ fdOpen = {}
  /\ stop = {} /\ rated = {} /\ eof = {} /\ drainRequested = {} /\ drained = {} /\ failed = {}
  /\ clock = [id \in Ids |-> "none"]
  /\ drops = 0 /\ toggles = 0
-----------------------------------------------------------------------------
(* The Qt thread: starting tracks *)

\* startNext on the front track of a channel (`next` holds it, or is empty) while the track
\* `gone` is deleted.  It is not `ok` when there is no target node or no stream can be made:
\* then the reaper ends the track, never startNext itself.
StartNext(next, ok, gone) ==
  /\ running' = (running \ {gone}) \cup next
  /\ failed' = (failed \ {gone}) \cup (next \ ok)
  /\ stream' = stream \cup ok
  /\ clock' = [id \in Ids |-> IF id \in next THEN "negotiate"
                             ELSE IF id = gone THEN "none" ELSE clock[id]]
  /\ worker' = [id \in Ids |-> IF id \in ok THEN "open"
                              ELSE IF id = gone /\ worker[id] = "gone" THEN "none"
                              ELSE worker[id]]

\* Mixer::play's own checks.
MayPlay(c) == c \in allowed /\ Len(queue[c]) < QueueLimit

\* Mutant: every accepted track starts at once.
PlayAtOnce(c, blocks) ==
  /\ Idle
  /\ nextId <= MaxId
  /\ MayPlay(c) /\ connected
  /\ nextId' = nextId + 1
  /\ queue' = [queue EXCEPT ![c] = Append(@, nextId)]
  /\ fdOpen' = fdOpen \cup {nextId}
  /\ len' = [len EXCEPT ![nextId] = blocks]
  /\ \E ok \in SUBSET {nextId} : StartNext({nextId}, ok, 0)
  /\ UNCHANGED <<mixer, ending, fed, handed, rt, stop, rtFlags, counters>>

\* Mixer::play, then Player::enqueue: refused when playback is off, PipeWire is away or the
\* queue is full; a refused descriptor is closed and never becomes a track.
Play(c, blocks) ==
  /\ Idle
  /\ nextId <= MaxId
  /\ MayPlay(c) /\ connected
  /\ nextId' = nextId + 1
  /\ queue' = [queue EXCEPT ![c] = Append(@, nextId)]
  /\ fdOpen' = fdOpen \cup {nextId}
  /\ len' = [len EXCEPT ![nextId] = blocks]
  /\ LET next == IF queue[c] = <<>> THEN {nextId} ELSE {}
     IN  \E ok \in SUBSET next : StartNext(next, ok, 0)
  /\ UNCHANGED <<mixer, ending, fed, handed, rt, stop, rtFlags, counters>>
-----------------------------------------------------------------------------
(* The Qt thread: deciding to end tracks *)

\* Every track of `ids` is to end with the verdict why[id].
Doom(ids, why, following) ==
  /\ verdict' = [id \in Ids |-> IF id \in ids THEN why[id] ELSE verdict[id]]
  /\ follow' = IF ids = {} THEN follow ELSE following
  /\ UNCHANGED <<queue, nextId, running, cur, step, ended, ring, worker, rt, stream,
                 fdOpen, stop, rtFlags, failed>>

Same(why) == [id \in Ids |-> why]

\* Player::stop with an id: the next track starts only if the sounding one was stopped.
StopOne(id) ==
  /\ Idle
  /\ id \in Tracks
  /\ Doom({id}, Same("stopped"), id \in running)
  /\ UNCHANGED <<mixer, clock, counters>>

\* Player::stop with id 0: the sounding track and every waiting one.
StopChannel(c) ==
  /\ Idle
  /\ queue[c] # <<>>
  /\ Doom(Queued(c), Same("stopped"), FALSE)
  /\ UNCHANGED <<mixer, clock, counters>>

\* dropUnwantedPlayback: what is queued on channels that may not play.
Unwanted(cs) == UNION {Queued(c) : c \in Channels \ cs}

\* setChannelPlayback, removeChannel, and dropUnwantedPlayback after an import or a foreign
\* edit: a channel that may no longer play loses all its tracks.
AllowOnly(cs) ==
  /\ Idle
  /\ toggles < MaxToggles
  /\ cs # allowed
  /\ allowed' = cs
  /\ toggles' = toggles + 1
  /\ Doom(Unwanted(cs), Same("stopped"), FALSE)
  /\ UNCHANGED <<connected, clock, drops>>

\* Graph::disconnected: stopAll while the loop still exists, then the Mixer's teardown.
Disconnected ==
  /\ Idle
  /\ connected /\ drops < MaxDrops
  /\ connected' = FALSE
  /\ drops' = drops + 1
  /\ Doom(Tracks, Same("error"), FALSE)
  /\ UNCHANGED <<allowed, clock, toggles>>

Reconnected ==
  /\ Idle
  /\ ~connected
  /\ connected' = TRUE
  /\ UNCHANGED <<queue, nextId, running, allowed, ending, ring, worker, rt, stream, fdOpen,
                 stop, rtFlags, failed, clock, counters>>

\* Mutant: no limit on the wait for `drained`.
VerdictWithoutDrainTimeout(id) ==
  CASE id \in failed -> "error"
    [] id \notin failed /\ id \in drained -> "played"
    [] OTHER -> IF id \notin rated /\ clock[id] = "negotiateLate" THEN "error" ELSE "none"

\* What the reaper thinks of a sounding track.
Verdict(id) ==
  CASE id \in failed -> "error"
    [] id \notin failed /\ id \in drained -> "played"
    [] id \notin failed \cup drained /\ id \in drainRequested ->
         IF clock[id] = "drainLate" THEN "played" ELSE "none"
    [] OTHER -> IF id \notin rated /\ clock[id] = "negotiateLate" THEN "error" ELSE "none"

Sounding == {id \in running : \E c \in Channels : queue[c] # <<>> /\ id = Head(queue[c])}

\* Player::reap, every 50 ms: collect the tracks that are over, and start the drain clock
\* of those that were just asked to drain.
Reap ==
  /\ Idle
  /\ Doom({id \in Sounding : Verdict(id) # "none"}, [id \in Ids |-> Verdict(id)], TRUE)
  /\ clock' = [id \in Ids |->
                 IF /\ id \in Sounding /\ Verdict(id) = "none"
                    /\ id \in drainRequested /\ clock[id] \notin {"drain", "drainLate"}
                 THEN "drain" ELSE clock[id]]
  /\ UNCHANGED <<mixer, counters>>
-----------------------------------------------------------------------------
(* The Qt thread: finish(), one call after the other *)

\* A queue without its i-th track (QList::removeOne).
Without(q, i) == [k \in 1..(Len(q) - 1) |-> IF k < i THEN q[k] ELSE q[k + 1]]

\* Waiting tracks end before the sounding one: stop(channel, 0) and stopAll go from the back.
FinishStop(c, i) ==
  /\ step = "pick"
  /\ queue[c][i] \in Doomed
  /\ \A k \in (i + 1)..Len(queue[c]) : queue[c][k] \notin Doomed
  /\ cur' = queue[c][i]
  /\ stop' = stop \cup {cur'}
  /\ step' = "destroy"
  /\ UNCHANGED <<queue, nextId, running, mixer, verdict, follow, ended, ring, worker, rt,
                 stream, fdOpen, rtFlags, failed, clock, counters>>

\* pw_stream_destroy waits for the callback that runs; none can start after it.
FinishDestroy ==
  /\ step = "destroy"
  /\ rt[cur] = "out"
  /\ stream' = stream \ {cur}
  /\ step' = "join"
  /\ UNCHANGED <<queue, nextId, running, mixer, verdict, follow, cur, ended, ring, worker,
                 rt, fdOpen, stop, rtFlags, failed, clock, counters>>

\* Mutant: the worker is left to itself.
FinishDetach ==
  /\ step = "join"
  /\ step' = "close"
  /\ UNCHANGED <<queue, nextId, running, mixer, verdict, follow, cur, ended, ring, worker,
                 rt, stream, fdOpen, stop, rtFlags, failed, clock, counters>>

FinishJoin ==
  /\ step = "join"
  /\ worker[cur] \in {"none", "gone"}
  /\ step' = "close"
  /\ UNCHANGED <<queue, nextId, running, mixer, verdict, follow, cur, ended, ring, worker,
                 rt, stream, fdOpen, stop, rtFlags, failed, clock, counters>>

\* delete t: the fields of a track are gone with it.
Forget(f, id, v) == [f EXCEPT ![id] = v]

\* Close the descriptor, leave the queue, announce the end, start the next track if asked to.
FinishClose(c, i) ==
  /\ step = "close"
  /\ queue[c][i] = cur
  /\ fdOpen' = fdOpen \ {cur}
  /\ ended' = ended \cup {cur}
  /\ verdict' = Forget(verdict, cur, "none")
  /\ len' = Forget(len, cur, 0) /\ fed' = Forget(fed, cur, 0) /\ handed' = Forget(handed, cur, 0)
  /\ stop' = stop \ {cur} /\ rated' = rated \ {cur} /\ eof' = eof \ {cur}
  /\ drainRequested' = drainRequested \ {cur} /\ drained' = drained \ {cur}
  /\ LET rest == Without(queue[c], i)
         next == IF follow /\ rest # <<>> /\ rest[1] \notin running THEN {rest[1]} ELSE {} IN
       /\ queue' = [queue EXCEPT ![c] = rest]
       /\ \E ok \in SUBSET next : StartNext(next, ok, cur)
  /\ cur' = 0
  /\ step' = "pick"
  /\ UNCHANGED <<nextId, mixer, follow, rt, counters>>
-----------------------------------------------------------------------------
(* The worker thread of a track: decodeWorker *)

\* The worker moves on; what else it touches is left to the action.
WorkerTo(id, pc) == worker' = [worker EXCEPT ![id] = pc]
WorkerOnly ==
  UNCHANGED <<queue, nextId, running, mixer, ending, len, handed, rt, stream, fdOpen, stop,
              rated, drainRequested, drained, clock, counters>>

\* Anything it cannot read, probe, decode or convert: the track fails.
WorkerFails(id) ==
  /\ worker[id] \in {"open", "rate", "read"}
  /\ worker[id] = "rate" => id \in rated
  /\ WorkerTo(id, "gone")
  /\ failed' = failed \cup {id}
  /\ WorkerOnly /\ UNCHANGED <<fed, eof>>

\* avformat_open_input and the codec lookup: reads the descriptor.
WorkerOpens(id) ==
  /\ worker[id] = "open"
  /\ WorkerTo(id, "rate")
  /\ WorkerOnly /\ UNCHANGED <<fed, eof, failed>>

\* Wait for the negotiated rate, build the resampler.
WorkerRated(id) ==
  /\ worker[id] = "rate"
  /\ id \in rated
  /\ WorkerTo(id, "read")
  /\ WorkerOnly /\ UNCHANGED <<fed, eof, failed>>

\* av_read_frame and decode: a block to push, or the end of the input.
WorkerReads(id) ==
  /\ worker[id] = "read"
  /\ fed[id] < len[id]
  /\ WorkerTo(id, "push")
  /\ WorkerOnly /\ UNCHANGED <<fed, eof, failed>>

\* Everything is in the ring; an input that decoded to nothing is a failure.
WorkerAtEof(id) ==
  /\ worker[id] = "read"
  /\ fed[id] = len[id]
  /\ WorkerTo(id, "gone")
  /\ IF len[id] = 0
       THEN failed' = failed \cup {id} /\ UNCHANGED eof
       ELSE eof' = eof \cup {id} /\ UNCHANGED failed
  /\ WorkerOnly /\ UNCHANGED fed

\* push() waits for room.
WorkerPushes(id) ==
  /\ worker[id] = "push"
  /\ Filled(id) < RingSize
  /\ fed' = [fed EXCEPT ![id] = @ + 1]
  /\ WorkerTo(id, "read")
  /\ WorkerOnly /\ UNCHANGED <<eof, failed>>

\* Mutant: the wait for room in the ring does not look at the flag.
WorkerStopsUnlessFull(id) ==
  /\ worker[id] \in {"open", "rate", "read"}
  /\ id \in stop
  /\ WorkerTo(id, "gone")
  /\ WorkerOnly /\ UNCHANGED <<fed, eof, failed>>

\* Every wait of the worker polls the stop flag.
WorkerStops(id) ==
  /\ worker[id] \in {"open", "rate", "read", "push"}
  /\ id \in stop
  /\ WorkerTo(id, "gone")
  /\ WorkerOnly /\ UNCHANGED <<fed, eof, failed>>
-----------------------------------------------------------------------------
(* The PipeWire threads: callbacks of a stream *)

StreamOnly ==
  UNCHANGED <<queue, nextId, running, mixer, ending, len, fed, worker, stream, fdOpen, stop,
              eof, clock, counters>>

\* onParamChanged: the format is negotiated.
Negotiated(id) ==
  /\ id \in stream
  /\ rated' = rated \cup {id}
  /\ StreamOnly /\ UNCHANGED <<handed, rt, drainRequested, drained, failed>>

\* onStateChanged with an error.
StreamFails(id) ==
  /\ id \in stream
  /\ failed' = failed \cup {id}
  /\ StreamOnly /\ UNCHANGED <<handed, rt, drainRequested, drained, rated>>

\* Mutant: the fill level is read first, and an empty ring is taken for the end.
ProcessReadsFillFirst(id) ==
  /\ id \in stream /\ id \in rated
  /\ rt[id] = "out"
  /\ id \notin drainRequested
  /\ rt' = [rt EXCEPT ![id] = IF Filled(id) = 0 THEN "eof" ELSE "more"]
  /\ StreamOnly /\ UNCHANGED <<handed, rated, drainRequested, drained, failed>>

\* onProcess reads eof BEFORE the fill level ...
ProcessReadsEof(id) ==
  /\ id \in stream /\ id \in rated
  /\ rt[id] = "out"
  /\ id \notin drainRequested
  /\ rt' = [rt EXCEPT ![id] = IF id \in eof THEN "eof" ELSE "more"]
  /\ StreamOnly /\ UNCHANGED <<handed, rated, drainRequested, drained, failed>>

\* ... and only then the ring: drain when it is empty at the end, else copy what fits.
ProcessDrains(id) ==
  /\ rt[id] = "eof"
  /\ Filled(id) = 0
  /\ drainRequested' = drainRequested \cup {id}
  /\ rt' = [rt EXCEPT ![id] = "out"]
  /\ StreamOnly /\ UNCHANGED <<handed, rated, drained, failed>>

ProcessCopies(id) ==
  /\ rt[id] # "out"
  /\ rt[id] = "more" \/ Filled(id) > 0
  /\ \E n \in 0..Filled(id) :
       /\ n = 0 => Filled(id) = 0       \* silence only on underrun
       /\ handed' = [handed EXCEPT ![id] = @ + n]
  /\ rt' = [rt EXCEPT ![id] = "out"]
  /\ StreamOnly /\ UNCHANGED <<rated, drainRequested, drained, failed>>

\* No buffer to dequeue: the cycle passes.
ProcessNoBuffer(id) ==
  /\ rt[id] # "out"
  /\ rt[id] = "more" \/ Filled(id) > 0
  /\ rt' = [rt EXCEPT ![id] = "out"]
  /\ StreamOnly /\ UNCHANGED <<handed, rated, drainRequested, drained, failed>>

\* onDrained: the stream has played what it was handed.
Drained(id) ==
  /\ id \in stream /\ id \in drainRequested
  /\ drained' = drained \cup {id}
  /\ StreamOnly /\ UNCHANGED <<handed, rt, rated, drainRequested, failed>>

\* kNegotiateTimeoutMs or kDrainTimeoutMs have gone by.
DeadlinePasses(id) ==
  /\ clock[id] \in {"negotiate", "drain"}
  /\ clock' = [clock EXCEPT ![id] = IF @ = "drain" THEN "drainLate" ELSE "negotiateLate"]
  /\ UNCHANGED <<queue, nextId, running, mixer, ending, ring, worker, rt, stream, fdOpen,
                 stop, rtFlags, failed, counters>>
-----------------------------------------------------------------------------
Finish ==
  \/ \E c \in Channels : \E i \in 1..Len(queue[c]) : FinishStop(c, i) \/ FinishClose(c, i)
  \/ FinishDestroy
  \/ FinishJoin

Requests ==
  \/ \E c \in Channels, blocks \in 0..MaxLen : Play(c, blocks)
  \/ \E id \in Ids : StopOne(id)
  \/ \E c \in Channels : StopChannel(c)
  \/ \E cs \in SUBSET Channels : AllowOnly(cs)

Worker(id) ==
  \/ WorkerFails(id) \/ WorkerOpens(id) \/ WorkerRated(id) \/ WorkerReads(id)
  \/ WorkerAtEof(id) \/ WorkerPushes(id) \/ WorkerStops(id)

Callbacks(id) ==
  \/ Negotiated(id) \/ StreamFails(id) \/ ProcessReadsEof(id) \/ ProcessDrains(id)
  \/ ProcessCopies(id) \/ ProcessNoBuffer(id) \/ Drained(id)

Next ==
  \/ Requests \/ Disconnected \/ Reconnected \/ Reap \/ Finish
  \/ \E id \in Ids : Worker(id) \/ Callbacks(id) \/ DeadlinePasses(id)

Spec == Init /\ [][Next]_vars

\* The threads are scheduled: the event loop, the reaper's timer, the workers' polling waits
\* and the graph's cycles; the destruction of a stream gets in between two cycles of the data
\* loop, however fast they follow (strong fairness).  Nothing is owed by the client (a pipe
\* may stall, nobody has to play or stop anything), by the negotiation or by `drained`.
Fairness ==
  /\ WF_vars(Finish) /\ SF_vars(FinishDestroy) /\ WF_vars(Reap)
  /\ \A id \in Ids :
       /\ WF_vars(WorkerStops(id)) /\ WF_vars(WorkerRated(id)) /\ WF_vars(WorkerPushes(id))
       /\ WF_vars(ProcessReadsEof(id)) /\ SF_vars(ProcessCopies(id) \/ ProcessDrains(id))
       /\ WF_vars(DeadlinePasses(id))
  /\ \A id \in Files : WF_vars(WorkerOpens(id) \/ WorkerReads(id) \/ WorkerAtEof(id))

FairSpec == Spec /\ Fairness
-----------------------------------------------------------------------------
TypeOK ==
  /\ queue \in [Channels -> Seq(Ids)]
  /\ nextId \in 1..(MaxId + 1)
  /\ running \subseteq Ids /\ stream \subseteq Ids /\ fdOpen \subseteq Ids
  /\ allowed \subseteq Channels /\ connected \in BOOLEAN
  /\ verdict \in [Ids -> Results \cup {"none"}]
  /\ ended \subseteq Ids
  /\ follow \in BOOLEAN /\ cur \in 0..MaxId /\ step \in {"pick", "destroy", "join", "close"}
  /\ len \in [Ids -> Nat] /\ fed \in [Ids -> Nat] /\ handed \in [Ids -> Nat]
  /\ \A id \in Ids : Filled(id) \in 0..RingSize /\ fed[id] <= len[id]
  /\ worker \in [Ids -> {"none", "open", "rate", "read", "push", "gone"}]
  /\ rt \in [Ids -> {"out", "eof", "more"}]
  /\ stop \subseteq Ids /\ rated \subseteq Ids /\ eof \subseteq Ids /\ failed \subseteq Ids
  /\ drainRequested \subseteq Ids /\ drained \subseteq Ids
  /\ clock \in [Ids -> {"none", "negotiate", "negotiateLate", "drain", "drainLate"}]
  /\ drops \in 0..MaxDrops /\ toggles \in 0..MaxToggles

\* player.h: "at EOF the stream is drained ... so the tail is never cut".  A track that ends as
\* played was decoded to its end and every block of it was handed to the stream, although
\* the worker and the callback share nothing but the ring and two flags.
TailNeverCut == \A id \in Ids : verdict[id] = "played" => handed[id] = len[id]

\* player.h: "every track id ends exactly once".  A track that was accepted and has not been
\* announced is in exactly one queue, exactly once; all others are in none.
EndsExactlyOnce ==
  /\ \A c \in Channels : \A i, k \in 1..Len(queue[c]) : queue[c][i] = queue[c][k] => i = k
  /\ \A c, d \in Channels : c # d => Queued(c) \cap Queued(d) = {}
  /\ Tracks = 1..(nextId - 1) \ ended

\* player.h: "at most ONE track sounds".  Only the oldest track of a channel has been started,
\* so a channel has at most one stream, and tracks sound in the order they were queued.
OneSounds ==
  \A c \in Channels : \A i \in 1..Len(queue[c]) :
    /\ i > 1 => queue[c][i] \notin running \cup stream
    /\ \A k \in 1..(i - 1) : queue[c][k] < queue[c][i]

\* Nothing of a track outlives it: no callback runs and no worker reads once the stream, the
\* descriptor and the Track itself are gone, and no descriptor is leaked.
NothingOutlivesTrack ==
  /\ \A id \in Ids : worker[id] \in {"open", "rate", "read", "push"} => id \in fdOpen
  /\ \A id \in Ids : rt[id] # "out" => id \in stream
  /\ stream \subseteq fdOpen
  /\ fdOpen = Tracks

\* "off means off", "PipeWire went away": between two events of the Qt thread no track waits
\* on a channel that may not play or for a graph that is gone.
NoOrphanTracks ==
  Idle => \A c \in Channels : queue[c] # <<>> => c \in allowed /\ connected

\* finish() returns: the join never waits for ever, not even on a pipe that stalls or a full
\* ring nobody empties any more.
FinishReturns == \A id \in Ids : id \in Doomed ~> id \notin Doomed

\* A queue never hangs: without a stalled pipe in it every accepted track ends, also when the
\* stream never negotiates or never reports that it has drained.
EveryTrackEnds == \A id \in Files : id \in Tracks ~> id \notin Tracks

\* The client's view: a list per channel, of which the front has been started.
View == INSTANCE Playlist WITH list <- queue, sounding <- running, Limit <- QueueLimit

\* player.h: whatever the three threads of a track do, the player is a playlist: the front of
\* every queue sounds and nothing else does, its successor starts in the very step in which it
\* ends, and no id is queued or ended twice.
PlaylistServed == View!Spec

=============================================================================
