-------------------------- MODULE PlayerCellsProofs --------------------------
(***************************************************************************)
(* What holds of two parts that touch nothing in common: the tracks of a   *)
(* channel (Player), and the nodes of the cells (CellGraph).  Each half    *)
(* reads without the other.                                                *)
(*                                                                         *)
(* Player, for every set of channels, every number of tracks,              *)
(* every ring and every track length, in three parts: the threads of a     *)
(* track, the queues, and the playlist of player.h that Player implements. *)
(*                                                                         *)
(* The threads: type correctness (the ring never overflows or underflows)  *)
(* and "the tail is never cut".  Neither is inductive.  That a played      *)
(* track was handed over whole rests on a chain of facts, each written by  *)
(* another thread: the worker raises eof after its last push and never     *)
(* pushes again, the callback asks to drain only after it has read eof and *)
(* then found the ring empty, and the Qt thread takes a track for played   *)
(* only after a drain was asked for. The chain survives the reuse of the   *)
(* model's fields because a track is forgotten only when both threads have *)
(* let go of it.                                                           *)
(***************************************************************************)
EXTENDS Player, CellGraph, SequenceTheorems, FiniteSetTheorems, TLAPS

\* The chain from the worker's last push to the verdict.
Chain(id) ==
  /\ worker[id] = "push" => fed[id] < len[id]
  /\ id \in eof => fed[id] = len[id] /\ worker[id] = "gone"
  /\ rt[id] = "eof" => id \in eof
  /\ id \in drainRequested => id \in eof /\ handed[id] = fed[id]
  /\ id \in drained => id \in drainRequested
  /\ verdict[id] = "played" => id \in drainRequested

\* A track that was not started has no worker and nothing in its ring.
Fresh(id) ==
  id \notin running => worker[id] = "none" /\ id \notin eof /\ fed[id] = 0

\* Ids are handed out in order.
IdsInOrder ==
  /\ \A id \in running : id < nextId
  /\ \A c \in Channels : \A i \in 1..Len(queue[c]) : queue[c][i] < nextId

\* How far finish() has got with a track, and who may still touch it.
FinishPhase ==
  /\ step # "pick" => cur \in Ids /\ verdict[cur] # "none"
  /\ step \in {"join", "close"} => cur \notin stream /\ rt[cur] = "out"
  /\ step = "close" => worker[cur] \in {"none", "gone"}

\* The invariant: it is inductive, and implies both theorems.
IInv ==
  /\ TypeOK
  /\ \A id \in Ids : Chain(id) /\ Fresh(id)
  /\ IdsInOrder
  /\ FinishPhase
-----------------------------------------------------------------------------
\* Ids are positive naturals: 0 stands for "no track" in cur.
LEMMA IdsNat == Ids \subseteq Nat \ {0}
BY PlayerAssumption DEF Ids

LEMMA InitIInv == Init => IInv
<1> SUFFICES ASSUME Init PROVE IInv
  OBVIOUS
<1>1. TypeOK
  <2>1. queue \in [Channels -> Seq(Ids)]
    BY DEF Init
  <2>2. /\ nextId \in 1..(MaxId + 1) /\ cur \in 0..MaxId
        /\ drops \in 0..MaxDrops /\ toggles \in 0..MaxToggles
    BY PlayerAssumption DEF Init
  <2>3. /\ len \in [Ids -> Nat] /\ fed \in [Ids -> Nat] /\ handed \in [Ids -> Nat]
        /\ \A id \in Ids : Filled(id) \in 0..RingSize /\ fed[id] <= len[id]
    BY PlayerAssumption DEF Init, Filled
  <2> QED
    BY <2>1, <2>2, <2>3 DEF Init, TypeOK
<1>2. (\A id \in Ids : Chain(id) /\ Fresh(id)) /\ IdsInOrder /\ FinishPhase
  BY DEF Init, Chain, Fresh, IdsInOrder, FinishPhase
<1> QED
  BY <1>1, <1>2 DEF IInv
-----------------------------------------------------------------------------
(* The threads: they touch the ring and the flags, and leave the queues and finish() alone. *)

\* Every step of a worker: eof is raised with nothing left to push, and a worker that is gone
\* stays gone.
LEMMA WorkerIInv ==
  ASSUME IInv, NEW w \in Ids, Worker(w)
  PROVE  IInv'
<1> USE DEF WorkerTo, WorkerOnly, mixer, ending, counters
<1>1. TypeOK'
  <2>1. CASE WorkerFails(w)
    BY <2>1, PlayerAssumption DEF WorkerFails, IInv, TypeOK, Filled, Chain
  <2>2. CASE WorkerOpens(w)
    BY <2>2, PlayerAssumption DEF WorkerOpens, IInv, TypeOK, Filled, Chain
  <2>3. CASE WorkerRated(w)
    BY <2>3, PlayerAssumption DEF WorkerRated, IInv, TypeOK, Filled, Chain
  <2>4. CASE WorkerReads(w)
    BY <2>4, PlayerAssumption DEF WorkerReads, IInv, TypeOK, Filled, Chain
  <2>5. CASE WorkerAtEof(w)
    BY <2>5, PlayerAssumption DEF WorkerAtEof, IInv, TypeOK, Filled, Chain
  <2>6. CASE WorkerPushes(w)
    BY <2>6, PlayerAssumption DEF WorkerPushes, IInv, TypeOK, Filled, Chain
  <2>7. CASE WorkerStops(w)
    BY <2>7, PlayerAssumption DEF WorkerStops, IInv, TypeOK, Filled, Chain
  <2> QED
    BY <2>1, <2>2, <2>3, <2>4, <2>5, <2>6, <2>7 DEF Worker
<1>2. ASSUME NEW id \in Ids
      PROVE  Chain(id)' /\ Fresh(id)'
  <2>1. CASE WorkerFails(w)
    BY <2>1 DEF WorkerFails, IInv, TypeOK, Filled, Chain, Fresh
  <2>2. CASE WorkerOpens(w)
    BY <2>2 DEF WorkerOpens, IInv, TypeOK, Filled, Chain, Fresh
  <2>3. CASE WorkerRated(w)
    BY <2>3 DEF WorkerRated, IInv, TypeOK, Filled, Chain, Fresh
  <2>4. CASE WorkerReads(w)
    BY <2>4 DEF WorkerReads, IInv, TypeOK, Filled, Chain, Fresh
  <2>5. CASE WorkerAtEof(w)
    BY <2>5 DEF WorkerAtEof, IInv, TypeOK, Filled, Chain, Fresh
  <2>6. CASE WorkerPushes(w)
    BY <2>6 DEF WorkerPushes, IInv, TypeOK, Filled, Chain, Fresh
  <2>7. CASE WorkerStops(w)
    BY <2>7 DEF WorkerStops, IInv, TypeOK, Filled, Chain, Fresh
  <2> QED
    BY <2>1, <2>2, <2>3, <2>4, <2>5, <2>6, <2>7 DEF Worker
<1>3. IdsInOrder' /\ FinishPhase'
  <2>1. CASE WorkerFails(w)
    BY <2>1 DEF WorkerFails, IInv, TypeOK, IdsInOrder, FinishPhase
  <2>2. CASE WorkerOpens(w)
    BY <2>2 DEF WorkerOpens, IInv, TypeOK, IdsInOrder, FinishPhase
  <2>3. CASE WorkerRated(w)
    BY <2>3 DEF WorkerRated, IInv, TypeOK, IdsInOrder, FinishPhase
  <2>4. CASE WorkerReads(w)
    BY <2>4 DEF WorkerReads, IInv, TypeOK, IdsInOrder, FinishPhase
  <2>5. CASE WorkerAtEof(w)
    BY <2>5 DEF WorkerAtEof, IInv, TypeOK, IdsInOrder, FinishPhase
  <2>6. CASE WorkerPushes(w)
    BY <2>6 DEF WorkerPushes, IInv, TypeOK, IdsInOrder, FinishPhase
  <2>7. CASE WorkerStops(w)
    BY <2>7 DEF WorkerStops, IInv, TypeOK, IdsInOrder, FinishPhase
  <2> QED
    BY <2>1, <2>2, <2>3, <2>4, <2>5, <2>6, <2>7 DEF Worker
<1> QED
  BY <1>1, <1>2, <1>3 DEF IInv

\* Every step of a PipeWire callback: a drain is asked for only after eof, on an empty ring.
LEMMA CallbacksIInv ==
  ASSUME IInv, NEW w \in Ids, Callbacks(w)
  PROVE  IInv'
<1> USE DEF StreamOnly, mixer, ending, counters
<1>1. TypeOK'
  <2>1. CASE Negotiated(w)
    BY <2>1, PlayerAssumption DEF Negotiated, IInv, TypeOK, Filled, Chain
  <2>2. CASE StreamFails(w)
    BY <2>2, PlayerAssumption DEF StreamFails, IInv, TypeOK, Filled, Chain
  <2>3. CASE ProcessReadsEof(w)
    BY <2>3, PlayerAssumption DEF ProcessReadsEof, IInv, TypeOK, Filled, Chain
  <2>4. CASE ProcessDrains(w)
    BY <2>4, PlayerAssumption DEF ProcessDrains, IInv, TypeOK, Filled, Chain
  <2>5. CASE ProcessCopies(w)
    BY <2>5, PlayerAssumption DEF ProcessCopies, IInv, TypeOK, Filled, Chain
  <2>6. CASE ProcessNoBuffer(w)
    BY <2>6, PlayerAssumption DEF ProcessNoBuffer, IInv, TypeOK, Filled, Chain
  <2>7. CASE Drained(w)
    BY <2>7, PlayerAssumption DEF Drained, IInv, TypeOK, Filled, Chain
  <2> QED
    BY <2>1, <2>2, <2>3, <2>4, <2>5, <2>6, <2>7 DEF Callbacks
<1>2. ASSUME NEW id \in Ids
      PROVE  Chain(id)' /\ Fresh(id)'
  <2>1. CASE Negotiated(w)
    BY <2>1 DEF Negotiated, IInv, TypeOK, Filled, Chain, Fresh
  <2>2. CASE StreamFails(w)
    BY <2>2 DEF StreamFails, IInv, TypeOK, Filled, Chain, Fresh
  <2>3. CASE ProcessReadsEof(w)
    BY <2>3 DEF ProcessReadsEof, IInv, TypeOK, Filled, Chain, Fresh
  <2>4. CASE ProcessDrains(w)
    BY <2>4 DEF ProcessDrains, IInv, TypeOK, Filled, Chain, Fresh
  <2>5. CASE ProcessCopies(w)
    BY <2>5 DEF ProcessCopies, IInv, TypeOK, Filled, Chain, Fresh
  <2>6. CASE ProcessNoBuffer(w)
    BY <2>6 DEF ProcessNoBuffer, IInv, TypeOK, Filled, Chain, Fresh
  <2>7. CASE Drained(w)
    BY <2>7 DEF Drained, IInv, TypeOK, Filled, Chain, Fresh
  <2> QED
    BY <2>1, <2>2, <2>3, <2>4, <2>5, <2>6, <2>7 DEF Callbacks
<1>3. IdsInOrder' /\ FinishPhase'
  <2>1. CASE Negotiated(w)
    BY <2>1 DEF Negotiated, IInv, TypeOK, IdsInOrder, FinishPhase
  <2>2. CASE StreamFails(w)
    BY <2>2 DEF StreamFails, IInv, TypeOK, IdsInOrder, FinishPhase
  <2>3. CASE ProcessReadsEof(w)
    BY <2>3 DEF ProcessReadsEof, IInv, TypeOK, IdsInOrder, FinishPhase
  <2>4. CASE ProcessDrains(w)
    BY <2>4 DEF ProcessDrains, IInv, TypeOK, IdsInOrder, FinishPhase
  <2>5. CASE ProcessCopies(w)
    BY <2>5 DEF ProcessCopies, IInv, TypeOK, IdsInOrder, FinishPhase
  <2>6. CASE ProcessNoBuffer(w)
    BY <2>6 DEF ProcessNoBuffer, IInv, TypeOK, IdsInOrder, FinishPhase
  <2>7. CASE Drained(w)
    BY <2>7 DEF Drained, IInv, TypeOK, IdsInOrder, FinishPhase
  <2> QED
    BY <2>1, <2>2, <2>3, <2>4, <2>5, <2>6, <2>7 DEF Callbacks
<1> QED
  BY <1>1, <1>2, <1>3 DEF IInv

\* A deadline touches nothing but its clock.
LEMMA DeadlineIInv ==
  ASSUME IInv, NEW w \in Ids, DeadlinePasses(w)
  PROVE  IInv'
<1> USE DEF DeadlinePasses, mixer, ending, ring, rtFlags, counters
<1>1. TypeOK'
  BY DEF IInv, TypeOK, Filled
<1>2. (\A id \in Ids : Chain(id)' /\ Fresh(id)') /\ IdsInOrder' /\ FinishPhase'
  BY DEF IInv, Chain, Fresh, IdsInOrder, FinishPhase
<1> QED
  BY <1>1, <1>2 DEF IInv
-----------------------------------------------------------------------------
(* finish(): stop, destroy the stream, join. *)

LEMMA FinishStepsIInv ==
  ASSUME IInv,
         \/ \E c \in Channels : \E i \in 1..Len(queue[c]) : FinishStop(c, i)
         \/ FinishDestroy
         \/ FinishJoin
  PROVE  IInv'
<1> USE DEF mixer, ring, rtFlags, counters
<1>1. CASE \E c \in Channels : \E i \in 1..Len(queue[c]) : FinishStop(c, i)
  <2> PICK c \in Channels : \E i \in 1..Len(queue[c]) : FinishStop(c, i)
    BY <1>1
  <2> PICK i \in 1..Len(queue[c]) : FinishStop(c, i)
    OBVIOUS
  <2> USE DEF FinishStop
  <2>1. queue[c][i] \in Ids /\ verdict[queue[c][i]] # "none"
    BY DEF IInv, TypeOK, Doomed
  <2>2. TypeOK'
    <3>1. cur' \in 0..MaxId
      BY <2>1, PlayerAssumption DEF Ids
    <3> QED
      BY <2>1, <3>1 DEF IInv, TypeOK, Filled
  <2>3. (\A id \in Ids : Chain(id)' /\ Fresh(id)') /\ IdsInOrder' /\ FinishPhase'
    BY <2>1 DEF IInv, Chain, Fresh, IdsInOrder, FinishPhase
  <2> QED
    BY <2>2, <2>3 DEF IInv
<1>2. CASE FinishDestroy
  BY <1>2 DEF FinishDestroy, IInv, TypeOK, Filled, Chain, Fresh, IdsInOrder, FinishPhase
<1>3. CASE FinishJoin
  BY <1>3 DEF FinishJoin, IInv, TypeOK, Filled, Chain, Fresh, IdsInOrder, FinishPhase
<1> QED
  BY <1>1, <1>2, <1>3
-----------------------------------------------------------------------------
(* Deciding to end tracks. *)

\* A decision that takes a track for played only after its drain was asked for.
LEMMA DecisionIInv ==
  ASSUME IInv, Idle,
         verdict' \in [Ids -> Results \cup {"none"}],
         \A id \in Ids : verdict'[id] = "played" => verdict[id] = "played" \/ id \in drainRequested,
         follow' \in BOOLEAN, allowed' \subseteq Channels, connected' \in BOOLEAN,
         clock' \in [Ids -> {"none", "negotiate", "negotiateLate", "drain", "drainLate"}],
         drops' \in 0..MaxDrops, toggles' \in 0..MaxToggles,
         UNCHANGED <<queue, nextId, running, cur, step, ended, ring, worker, rt, stream,
                     fdOpen, stop, rtFlags, failed>>
  PROVE  IInv'
<1> USE DEF ring, rtFlags
<1>1. TypeOK'
  BY DEF IInv, TypeOK, Filled
<1>2. \A id \in Ids : Chain(id)' /\ Fresh(id)'
  BY DEF IInv, TypeOK, Chain, Fresh
<1>3. IdsInOrder' /\ FinishPhase'
  BY DEF IInv, TypeOK, IdsInOrder, FinishPhase, Idle, Doomed
<1> QED
  BY <1>1, <1>2, <1>3 DEF IInv

\* Stopping is never "played".
LEMMA StopsIInv ==
  ASSUME IInv,
         \/ \E id \in Ids : StopOne(id)
         \/ \E c \in Channels : StopChannel(c)
         \/ \E cs \in SUBSET Channels : AllowOnly(cs)
         \/ Disconnected
  PROVE  IInv'
<1> USE DEF mixer, counters, Same, Results, Doom
<1>1. CASE \E id \in Ids : StopOne(id)
  <2> PICK x \in Ids : StopOne(x)
    BY <1>1
  <2>1. /\ Idle
        /\ verdict' \in [Ids -> Results \cup {"none"}]
        /\ \A id \in Ids : verdict'[id] = "played" => verdict[id] = "played"
    BY DEF StopOne, IInv, TypeOK
  <2>2. follow' \in BOOLEAN
    <3>1. follow' = (x \in running)
      BY Zenon DEF StopOne
    <3> QED
      BY <3>1
  <2>3. allowed' \subseteq Channels /\ connected' \in BOOLEAN
    BY DEF StopOne, IInv, TypeOK
  <2>4. drops' \in 0..MaxDrops /\ toggles' \in 0..MaxToggles
    BY DEF StopOne, IInv, TypeOK
  <2> QED
    BY <2>1, <2>2, <2>3, <2>4, DecisionIInv DEF StopOne, IInv, TypeOK
<1>2. CASE \E c \in Channels : StopChannel(c)
  <2> PICK c \in Channels : StopChannel(c)
    BY <1>2
  <2>1. /\ Idle
        /\ verdict' \in [Ids -> Results \cup {"none"}]
        /\ \A id \in Ids : verdict'[id] = "played" => verdict[id] = "played"
    BY DEF StopChannel, IInv, TypeOK
  <2>2. follow' \in BOOLEAN
    BY DEF StopChannel, IInv, TypeOK
  <2>3. allowed' \subseteq Channels /\ connected' \in BOOLEAN
    BY DEF StopChannel, IInv, TypeOK
  <2>4. drops' \in 0..MaxDrops /\ toggles' \in 0..MaxToggles
    BY DEF StopChannel, IInv, TypeOK
  <2> QED
    BY <2>1, <2>2, <2>3, <2>4, DecisionIInv DEF StopChannel, IInv, TypeOK
<1>3. CASE \E cs \in SUBSET Channels : AllowOnly(cs)
  <2> PICK cs \in SUBSET Channels : AllowOnly(cs)
    BY <1>3
  <2>1. /\ Idle
        /\ verdict' \in [Ids -> Results \cup {"none"}]
        /\ \A id \in Ids : verdict'[id] = "played" => verdict[id] = "played"
    BY DEF AllowOnly, IInv, TypeOK
  <2>2. follow' \in BOOLEAN
    BY DEF AllowOnly, IInv, TypeOK
  <2>3. allowed' \subseteq Channels /\ connected' \in BOOLEAN
    BY DEF AllowOnly, IInv, TypeOK
  <2>4. drops' \in 0..MaxDrops /\ toggles' \in 0..MaxToggles
    BY PlayerAssumption DEF AllowOnly, IInv, TypeOK
  <2> QED
    BY <2>1, <2>2, <2>3, <2>4, DecisionIInv DEF AllowOnly, IInv, TypeOK
<1>4. CASE Disconnected
  <2> USE <1>4
  <2>1. /\ Idle
        /\ verdict' \in [Ids -> Results \cup {"none"}]
        /\ \A id \in Ids : verdict'[id] = "played" => verdict[id] = "played"
    BY DEF Disconnected, IInv, TypeOK
  <2>2. follow' \in BOOLEAN
    BY DEF Disconnected, IInv, TypeOK
  <2>3. allowed' \subseteq Channels /\ connected' \in BOOLEAN
    BY DEF Disconnected, IInv, TypeOK
  <2>4. drops' \in 0..MaxDrops /\ toggles' \in 0..MaxToggles
    BY PlayerAssumption DEF Disconnected, IInv, TypeOK
  <2> QED
    BY <2>1, <2>2, <2>3, <2>4, DecisionIInv DEF Disconnected, IInv, TypeOK
<1> QED
  BY <1>1, <1>2, <1>3, <1>4

\* The reaper takes a track for played when it has drained, or was asked to long enough ago.
LEMMA ReapIInv ==
  ASSUME IInv, Reap
  PROVE  IInv'
<1> USE DEF mixer, counters, Results, Doom, Reap
<1>1. \A id \in Ids : /\ Verdict(id) \in Results \cup {"none"}
                      /\ Verdict(id) = "played" => id \in drainRequested
  BY DEF Verdict, IInv, Chain
<1>2. verdict' \in [Ids -> Results \cup {"none"}]
  BY <1>1 DEF IInv, TypeOK
<1>3. \A id \in Ids : verdict'[id] = "played" => verdict[id] = "played" \/ id \in drainRequested
  BY <1>1 DEF IInv, TypeOK
<1>4. clock' \in [Ids -> {"none", "negotiate", "negotiateLate", "drain", "drainLate"}]
  BY DEF IInv, TypeOK
<1>5. follow' \in BOOLEAN
  BY DEF IInv, TypeOK
<1> QED
  BY <1>2, <1>3, <1>4, <1>5, DecisionIInv DEF IInv, TypeOK

LEMMA ReconnectedIInv ==
  ASSUME IInv, Reconnected
  PROVE  IInv'
BY DecisionIInv DEF Reconnected, ending, rtFlags, ring, counters, IInv, TypeOK
-----------------------------------------------------------------------------
(* Play, and the end of finish(): a track comes, a track goes. *)

\* Queues only hold ids.
LEMMA QueueElement ==
  ASSUME IInv, NEW c \in Channels
  PROVE  /\ queue[c] \in Seq(Ids) /\ Len(queue[c]) \in Nat
         /\ \A i \in 1..Len(queue[c]) : queue[c][i] \in Ids
BY DEF IInv, TypeOK

\* What is left of a queue without its i-th track, and in which order.
LEMMA WithoutProperties ==
  ASSUME NEW S, NEW q \in Seq(S), NEW i \in 1..Len(q)
  PROVE  /\ Without(q, i) \in Seq(S)
         /\ Len(Without(q, i)) = Len(q) - 1
         /\ \A k \in 1..(Len(q) - 1) : Without(q, i)[k] = IF k < i THEN q[k] ELSE q[k + 1]
<1> DEFINE n == Len(q) - 1
<1>1. n \in Nat /\ \A k \in 1..n : q[k] \in S /\ q[k + 1] \in S
  OBVIOUS
<1>2. Without(q, i) \in [1..n -> S]
  BY <1>1 DEF Without
<1>3. Without(q, i) \in Seq(S)
  BY <1>1, <1>2
<1>4. Len(Without(q, i)) = n
  BY <1>1, <1>2, <1>3
<1> QED
  BY <1>3, <1>4 DEF Without

LEMMA PlayIInv ==
  ASSUME IInv, NEW c \in Channels, NEW blocks \in 0..MaxLen, Play(c, blocks)
  PROVE  IInv'
<1> USE DEF mixer, ending, rtFlags, counters
<1> DEFINE next == IF queue[c] = <<>> THEN {nextId} ELSE {}
<1>1. PICK ok \in SUBSET next : StartNext(next, ok, 0)
  BY DEF Play
<1>2. nextId \in Ids /\ nextId \notin running /\ fed[nextId] = 0 /\ handed[nextId] = 0
  <2>1. nextId \in 1..(MaxId + 1) /\ nextId <= MaxId /\ MaxId \in Nat
    BY PlayerAssumption DEF Play, IInv, TypeOK
  <2>2. nextId \in Ids
    BY <2>1 DEF Ids
  <2>3. nextId \notin running
    BY <2>1 DEF IInv, IdsInOrder
  <2>4. fed[nextId] = 0
    BY <2>2, <2>3 DEF IInv, Fresh
  <2>5. Filled(nextId) \in 0..RingSize /\ fed[nextId] \in Nat /\ handed[nextId] \in Nat
    BY <2>2, PlayerAssumption DEF IInv, TypeOK
  <2>6. handed[nextId] = 0
    BY <2>4, <2>5, PlayerAssumption DEF Filled
  <2> QED
    BY <2>2, <2>3, <2>4, <2>6
<1>3. queue' = [queue EXCEPT ![c] = Append(@, nextId)] /\ queue' \in [Channels -> Seq(Ids)]
  BY <1>2, QueueElement DEF Play, IInv, TypeOK
<1>4. TypeOK'
  <2>1. nextId' \in 1..(MaxId + 1)
    BY PlayerAssumption DEF Play, IInv, TypeOK
  <2>2. /\ len' \in [Ids -> Nat] /\ fed' \in [Ids -> Nat] /\ handed' \in [Ids -> Nat]
        /\ \A id \in Ids : Filled(id)' \in 0..RingSize /\ fed'[id] <= len'[id]
    BY <1>2 DEF Play, IInv, TypeOK, Filled
  <2>3. /\ running' \subseteq Ids /\ stream' \subseteq Ids /\ failed' \subseteq Ids
        /\ fdOpen' \subseteq Ids
    BY <1>1, <1>2 DEF Play, StartNext, IInv, TypeOK
  <2>4. /\ worker' \in [Ids -> {"none", "open", "rate", "read", "push", "gone"}]
        /\ clock' \in [Ids -> {"none", "negotiate", "negotiateLate", "drain", "drainLate"}]
    BY <1>1, <1>2 DEF StartNext, IInv, TypeOK
  <2> QED
    BY <1>3, <2>1, <2>2, <2>3, <2>4 DEF Play, IInv, TypeOK
<1>5. ASSUME NEW id \in Ids
      PROVE  Chain(id)' /\ Fresh(id)'
  <2>1. worker'[id] = IF id \in ok THEN "open" ELSE worker[id]
    BY <1>1, IdsNat DEF StartNext
  <2>2. id \in running' <=> id \in running \cup next
    BY <1>1, IdsNat DEF StartNext
  <2>3. Chain(id)'
    BY <1>1, <1>2, <2>1 DEF Play, IInv, TypeOK, Chain, Fresh
  <2>4. Fresh(id)'
    BY <1>1, <1>2, <2>1, <2>2 DEF Play, IInv, Fresh
  <2> QED
    BY <2>3, <2>4
<1>6. IdsInOrder'
  <2>1. \A id \in running' : id < nextId'
    BY <1>1, <1>2 DEF Play, StartNext, IInv, TypeOK, IdsInOrder
  <2>2. ASSUME NEW d \in Channels, NEW i \in 1..Len(queue'[d])
        PROVE  queue'[d][i] < nextId'
    <3>1. nextId' = nextId + 1 /\ nextId \in Nat
      BY IdsNat, <1>2 DEF Play
    <3>2. CASE d = c /\ i = Len(queue[c]) + 1
      BY <3>1, <3>2, <1>2, <1>3, QueueElement DEF IInv, TypeOK
    <3>3. CASE ~(d = c /\ i = Len(queue[c]) + 1)
      <4>1. i \in 1..Len(queue[d]) /\ queue'[d][i] = queue[d][i]
        BY <3>3, <1>2, <1>3, QueueElement DEF IInv, TypeOK
      <4>2. queue[d][i] \in Nat /\ queue[d][i] < nextId
        BY <4>1, QueueElement, IdsNat DEF IInv, IdsInOrder
      <4> QED
        BY <4>1, <4>2, <3>1
    <3> QED
      BY <3>2, <3>3
  <2> QED
    BY <2>1, <2>2 DEF IdsInOrder
<1>7. FinishPhase'
  BY <1>1 DEF Play, Idle, Doomed, StartNext, IInv, FinishPhase
<1> QED
  BY <1>4, <1>5, <1>6, <1>7 DEF IInv

LEMMA FinishCloseIInv ==
  ASSUME IInv, NEW c \in Channels, NEW i \in 1..Len(queue[c]), FinishClose(c, i)
  PROVE  IInv'
<1> USE DEF mixer, counters, Forget
<1> DEFINE rest == Without(queue[c], i)
           next == IF follow /\ rest # <<>> /\ rest[1] \notin running THEN {rest[1]} ELSE {}
<1>1. /\ queue' = [queue EXCEPT ![c] = rest]
      /\ \E ok \in SUBSET next : StartNext(next, ok, cur)
  BY DEF FinishClose
<1>2. PICK ok \in SUBSET next : StartNext(next, ok, cur)
  BY <1>1
<1>3. /\ cur \in Ids /\ cur \notin stream /\ rt[cur] = "out"
      /\ worker[cur] \in {"none", "gone"}
  BY DEF FinishClose, IInv, FinishPhase
<1>4. /\ rest \in Seq(Ids) /\ Len(rest) = Len(queue[c]) - 1
      /\ \A k \in 1..Len(rest) : rest[k] \in Ids /\ rest[k] < nextId
  <2>1. queue[c] \in Seq(Ids) /\ Len(queue[c]) \in Nat
        /\ \A k \in 1..Len(queue[c]) : queue[c][k] \in Ids /\ queue[c][k] < nextId
    BY QueueElement DEF IInv, IdsInOrder
  <2>2. /\ rest \in Seq(Ids) /\ Len(rest) = Len(queue[c]) - 1
        /\ \A k \in 1..(Len(queue[c]) - 1) :
             rest[k] = IF k < i THEN queue[c][k] ELSE queue[c][k + 1]
    BY <2>1, WithoutProperties
  <2> HIDE DEF rest
  <2>3. ASSUME NEW k \in 1..Len(rest)
        PROVE  rest[k] \in Ids /\ rest[k] < nextId
    <3>1. k \in 1..(Len(queue[c]) - 1) /\ k \in 1..Len(queue[c]) /\ k + 1 \in 1..Len(queue[c])
      BY <2>1, <2>2
    <3>2. rest[k] = queue[c][k] \/ rest[k] = queue[c][k + 1]
      BY <2>2, <3>1
    <3> QED
      BY <2>1, <3>1, <3>2
  <2> QED
    BY <2>2, <2>3
<1>5. next \subseteq Ids /\ \A id \in next : id < nextId /\ id \notin running
  BY <1>4
<1>6. TypeOK'
  <2>1. queue' \in [Channels -> Seq(Ids)]
    BY <1>1, <1>4 DEF IInv, TypeOK
  <2>2. /\ len' \in [Ids -> Nat] /\ fed' \in [Ids -> Nat] /\ handed' \in [Ids -> Nat]
        /\ \A id \in Ids : Filled(id)' \in 0..RingSize /\ fed'[id] <= len'[id]
    BY <1>3, PlayerAssumption DEF FinishClose, IInv, TypeOK, Filled
  <2>3. running' \subseteq Ids /\ stream' \subseteq Ids /\ failed' \subseteq Ids
    BY <1>2, <1>5 DEF StartNext, IInv, TypeOK
  <2>4. /\ worker' \in [Ids -> {"none", "open", "rate", "read", "push", "gone"}]
        /\ clock' \in [Ids -> {"none", "negotiate", "negotiateLate", "drain", "drainLate"}]
    BY <1>2, <1>5 DEF StartNext, IInv, TypeOK
  <2>5. /\ stop' \subseteq Ids /\ rated' \subseteq Ids /\ eof' \subseteq Ids
        /\ drainRequested' \subseteq Ids /\ drained' \subseteq Ids
        /\ fdOpen' \subseteq Ids /\ ended' \subseteq Ids
        /\ verdict' \in [Ids -> Results \cup {"none"}]
        /\ cur' \in 0..MaxId
    BY <1>3, PlayerAssumption DEF FinishClose, IInv, TypeOK
  <2> QED
    BY <2>1, <2>2, <2>3, <2>4, <2>5 DEF FinishClose, IInv, TypeOK
<1>7. ASSUME NEW id \in Ids
      PROVE  Chain(id)' /\ Fresh(id)'
  BY <1>2, <1>3, <1>5 DEF FinishClose, StartNext, IInv, TypeOK, Chain, Fresh
<1>8. IdsInOrder'
  <2>1. \A id \in running' : id < nextId'
    BY <1>2, <1>5 DEF FinishClose, StartNext, IInv, TypeOK, IdsInOrder
  <2>2. ASSUME NEW d \in Channels, NEW k \in 1..Len(queue'[d])
        PROVE  queue'[d][k] < nextId'
    BY <1>1, <1>4 DEF FinishClose, IInv, TypeOK, IdsInOrder
  <2> QED
    BY <2>1, <2>2 DEF IdsInOrder
<1>9. FinishPhase'
  BY DEF FinishClose, FinishPhase
<1> QED
  BY <1>6, <1>7, <1>8, <1>9 DEF IInv
-----------------------------------------------------------------------------
(* The theorems. *)

LEMMA StepIInv == IInv /\ [Next]_vars => IInv'
<1> SUFFICES ASSUME IInv, [Next]_vars PROVE IInv'
  OBVIOUS
<1>1. CASE Requests
  BY <1>1, PlayIInv, StopsIInv DEF Requests
<1>2. CASE Disconnected
  BY <1>2, StopsIInv
<1>3. CASE Reconnected
  BY <1>3, ReconnectedIInv
<1>4. CASE Reap
  BY <1>4, ReapIInv
<1>5. CASE Finish
  BY <1>5, FinishStepsIInv, FinishCloseIInv DEF Finish
<1>6. CASE \E id \in Ids : Worker(id) \/ Callbacks(id) \/ DeadlinePasses(id)
  BY <1>6, WorkerIInv, CallbacksIInv, DeadlineIInv
<1>7. CASE UNCHANGED vars
  BY <1>7 DEF vars, mixer, ending, ring, rtFlags, counters, IInv, TypeOK, Filled, Chain, Fresh,
     IdsInOrder, FinishPhase
<1> QED
  BY <1>1, <1>2, <1>3, <1>4, <1>5, <1>6, <1>7 DEF Next

LEMMA Invariant == Spec => []IInv
BY InitIInv, StepIInv, PTL DEF Spec

\* The state stays in its types: the ring holds between nothing and RingSize blocks, nobody
\* feeds more than the track has or hands over more than was fed.
THEOREM TypeCorrect == Spec => []TypeOK
<1>1. IInv => TypeOK
  BY DEF IInv
<1> QED
  BY <1>1, Invariant, PTL

\* A track announced as played was handed to the stream to its last block, whatever the
\* interleaving of worker, callback, reaper and of every stop, removal and disconnect.
THEOREM TailIsNeverCut == Spec => []TailNeverCut
<1>1. IInv => TailNeverCut
  BY DEF IInv, Chain, TailNeverCut
<1> QED
  BY <1>1, Invariant, PTL
-----------------------------------------------------------------------------
(***************************************************************************)
(* The queues: every track ends exactly once, one track sounds per         *)
(* channel, in order, nothing of a track outlives it, and no track waits   *)
(* where nothing may play.                                                 *)
(*                                                                         *)
(* The invariant ties the four registers a track is in (a queue, running,  *)
(* the open descriptors, the streams) to one another and to the ids handed *)
(* out and announced.  It needs IInv, above: finish() announces the track  *)
(* it has been working on, once both threads have let go of it.            *)
(***************************************************************************)

InQueue(id) == \E c \in Channels : \E i \in 1..Len(queue[c]) : queue[c][i] = id

\* Within a queue the ids rise; no id is in two queues.
Ordered ==
  /\ \A c \in Channels : \A i, k \in 1..Len(queue[c]) : i < k => queue[c][i] < queue[c][k]
  /\ \A c, d \in Channels : \A i \in 1..Len(queue[c]) : \A k \in 1..Len(queue[d]) :
       queue[c][i] = queue[d][k] => c = d

\* A track is queued from the moment its id is handed out until its end is announced.
Conserved ==
  /\ \A id \in ended : id < nextId
  /\ \A id \in Ids : InQueue(id) <=> id < nextId /\ id \notin ended

\* What has been started is at the front; a stream belongs to a started track, a callback to
\* a stream, a descriptor to a queued track.
Held ==
  /\ \A c \in Channels : \A i \in 1..Len(queue[c]) : i > 1 => queue[c][i] \notin running
  /\ \A id \in running : InQueue(id)
  /\ stream \subseteq running
  /\ \A id \in Ids : rt[id] # "out" => id \in stream
  /\ \A id \in Ids : id \in fdOpen <=> InQueue(id)

\* Where nothing may play every track is about to end.
OrphansDoomed ==
  \A c \in Channels : \A i \in 1..Len(queue[c]) :
    (c \in allowed /\ connected) \/ queue[c][i] \in Doomed

QInv == Ordered /\ Conserved /\ Held /\ OrphansDoomed
-----------------------------------------------------------------------------
LEMMA InitQInv == Init => QInv
BY IdsNat DEF Init, QInv, Ordered, Conserved, Held, OrphansDoomed, InQueue, Ids

\* Steps that leave the queues, the ids and the starting of tracks alone.
LEMMA FrameQInv ==
  ASSUME QInv, UNCHANGED <<queue, nextId, ended, running, fdOpen>>,
         stream' \subseteq stream,
         \A id \in Ids : rt'[id] # "out" => id \in stream',
         OrphansDoomed'
  PROVE  QInv'
BY DEF QInv, Ordered, Conserved, Held, InQueue

\* As long as no verdict is taken back and no channel loses its right to play, no track is
\* orphaned.
LEMMA FrameOrphans ==
  ASSUME OrphansDoomed, UNCHANGED <<queue, verdict, allowed, connected>>
  PROVE  OrphansDoomed'
BY DEF OrphansDoomed, Doomed

LEMMA ThreadsQInv ==
  ASSUME IInv, QInv, NEW w \in Ids, Worker(w) \/ Callbacks(w) \/ DeadlinePasses(w)
  PROVE  QInv'
<1> USE DEF mixer, ending, ring, rtFlags, counters
<1>1. CASE Worker(w)
  <2>1. UNCHANGED <<queue, nextId, ended, running, fdOpen, stream, rt, verdict, allowed, connected>>
    BY <1>1 DEF Worker, WorkerFails, WorkerOpens, WorkerRated, WorkerReads, WorkerAtEof,
       WorkerPushes, WorkerStops, WorkerOnly
  <2> QED
    BY <2>1, FrameQInv, FrameOrphans DEF QInv, Held
<1>2. CASE Callbacks(w)
  <2>1. UNCHANGED <<queue, nextId, ended, running, fdOpen, stream, verdict, allowed, connected>>
    BY <1>2 DEF Callbacks, Negotiated, StreamFails, ProcessReadsEof, ProcessDrains,
       ProcessCopies, ProcessNoBuffer, Drained, StreamOnly
  <2>2. ASSUME NEW id \in Ids, rt'[id] # "out"
        PROVE  id \in stream
    BY <1>2, <2>2 DEF Callbacks, Negotiated, StreamFails, ProcessReadsEof, ProcessDrains,
       ProcessCopies, ProcessNoBuffer, Drained, StreamOnly, QInv, Held, IInv, TypeOK
  <2> QED
    BY <2>1, <2>2, FrameQInv, FrameOrphans DEF QInv
<1>3. CASE DeadlinePasses(w)
  BY <1>3, FrameQInv, FrameOrphans DEF DeadlinePasses, QInv, Held
<1> QED
  BY <1>1, <1>2, <1>3

LEMMA FinishStepsQInv ==
  ASSUME IInv, QInv,
         \/ \E c \in Channels : \E i \in 1..Len(queue[c]) : FinishStop(c, i)
         \/ FinishDestroy
         \/ FinishJoin
  PROVE  QInv'
<1> USE DEF mixer, rtFlags, ring, counters
<1>1. CASE \E c \in Channels : \E i \in 1..Len(queue[c]) : FinishStop(c, i)
  BY <1>1, FrameQInv, FrameOrphans DEF FinishStop, QInv, Held
<1>2. CASE FinishDestroy
  BY <1>2, FrameQInv, FrameOrphans DEF FinishDestroy, QInv, Held
<1>3. CASE FinishJoin
  BY <1>3, FrameQInv, FrameOrphans DEF FinishJoin, QInv, Held
<1> QED
  BY <1>1, <1>2, <1>3

\* Whoever takes the right to play away dooms the tracks that are there.
LEMMA DecisionsQInv ==
  ASSUME IInv, QInv,
         \/ \E id \in Ids : StopOne(id)
         \/ \E c \in Channels : StopChannel(c)
         \/ \E cs \in SUBSET Channels : AllowOnly(cs)
         \/ Disconnected \/ Reconnected \/ Reap
  PROVE  QInv'
<1> USE DEF mixer, ending, rtFlags, ring, counters, Doom, Same, Results
<1>1. UNCHANGED <<queue, nextId, ended, running, fdOpen, stream, rt>> /\ Idle
  BY DEF StopOne, StopChannel, AllowOnly, Disconnected, Reconnected, Reap
<1>2. OrphansDoomed'
  <2> SUFFICES ASSUME NEW c \in Channels, NEW i \in 1..Len(queue[c]),
                      ~(c \in allowed' /\ connected')
               PROVE  verdict'[queue[c][i]] # "none"
    BY <1>1, QueueElement DEF OrphansDoomed, Doomed
  <2> DEFINE id == queue[c][i]
  <2>1. id \in Ids /\ id \in Queued(c) /\ id \in Tracks /\ verdict[id] = "none"
    BY <1>1, QueueElement DEF Idle, Doomed, Queued, Tracks
  <2>2. c \in allowed /\ connected
    BY <2>1 DEF QInv, OrphansDoomed, Doomed
  <2> HIDE DEF id
  <2>3. CASE \E cs \in SUBSET Channels : AllowOnly(cs)
    <3> PICK cs \in SUBSET Channels : AllowOnly(cs)
      BY <2>3
    <3>1. c \notin cs
      BY <2>2 DEF AllowOnly
    <3> DEFINE ids == UNION {Queued(d) : d \in Channels \ cs}
    <3>2. id \in ids
      BY <2>1, <3>1
    <3>3. verdict'[id] = "stopped"
      BY <2>1, <3>2 DEF AllowOnly, Unwanted
    <3> QED
      BY <3>3 DEF id
  <2>4. CASE Disconnected
    <3>1. verdict'[id] = "error"
      BY <2>1, <2>4 DEF Disconnected
    <3> QED
      BY <3>1 DEF id
  <2>5. CASE ~(\E cs \in SUBSET Channels : AllowOnly(cs)) /\ ~Disconnected
    BY <2>2, <2>5 DEF StopOne, StopChannel, Reconnected, Reap
  <2> QED
    BY <2>3, <2>4, <2>5 DEF id
<1> QED
  BY <1>1, <1>2, FrameQInv DEF QInv, Held
-----------------------------------------------------------------------------
LEMMA PlayQInv ==
  ASSUME IInv, QInv, NEW c \in Channels, NEW blocks \in 0..MaxLen, Play(c, blocks)
  PROVE  QInv'
<1> USE DEF mixer, ending, rtFlags, counters
<1> DEFINE n == Len(queue[c])
           next == IF queue[c] = <<>> THEN {nextId} ELSE {}
<1>1. PICK ok \in SUBSET next : StartNext(next, ok, 0)
  BY DEF Play
<1>2. nextId \in Ids /\ nextId \notin ended /\ nextId' = nextId + 1 /\ nextId \in Nat
  BY IdsNat, PlayerAssumption DEF Play, IInv, TypeOK, QInv, Conserved, Ids
<1>3. /\ queue[c] \in Seq(Ids) /\ n \in Nat
      /\ queue' = [queue EXCEPT ![c] = Append(queue[c], nextId)]
  BY QueueElement DEF Play
<1>4. /\ Len(queue'[c]) = n + 1 /\ queue'[c][n + 1] = nextId
      /\ \A i \in 1..n : queue'[c][i] = queue[c][i]
      /\ \A d \in Channels \ {c} : queue'[d] = queue[d]
  BY <1>2, <1>3 DEF IInv, TypeOK
<1>5. \A d \in Channels : \A i \in 1..Len(queue[d]) :
        queue[d][i] \in Nat /\ queue[d][i] < nextId
  BY QueueElement, IdsNat DEF IInv, IdsInOrder
<1>6. \A d \in Channels : \A i \in 1..Len(queue'[d]) :
        \/ i \in 1..Len(queue[d]) /\ queue'[d][i] = queue[d][i]
        \/ d = c /\ i = n + 1 /\ queue'[d][i] = nextId
  BY <1>3, <1>4
<1>7. \A id \in Ids : InQueue(id)' <=> InQueue(id) \/ id = nextId
  <2> SUFFICES ASSUME NEW id \in Ids
               PROVE  InQueue(id)' <=> InQueue(id) \/ id = nextId
    OBVIOUS
  <2>1. InQueue(id)' => InQueue(id) \/ id = nextId
    BY <1>6 DEF InQueue
  <2>2. InQueue(id) => InQueue(id)'
    BY <1>3, <1>4 DEF InQueue
  <2>3. id = nextId => InQueue(id)'
    BY <1>3, <1>4 DEF InQueue
  <2> QED
    BY <2>1, <2>2, <2>3
<1>8. Ordered'
  <2>1. ASSUME NEW d \in Channels, NEW i \in 1..Len(queue'[d]), NEW k \in 1..Len(queue'[d]), i < k
        PROVE  queue'[d][i] < queue'[d][k]
    BY <1>2, <1>3, <1>5, <1>6, <2>1 DEF QInv, Ordered
  <2>2. ASSUME NEW d \in Channels, NEW e \in Channels, NEW i \in 1..Len(queue'[d]),
               NEW k \in 1..Len(queue'[e]), queue'[d][i] = queue'[e][k]
        PROVE  d = e
    <3>1. CASE queue'[d][i] = nextId
      <4>1. ~(i \in 1..Len(queue[d]) /\ queue'[d][i] = queue[d][i])
        BY <1>2, <1>5, <3>1
      <4>2. ~(k \in 1..Len(queue[e]) /\ queue'[e][k] = queue[e][k])
        BY <1>2, <1>5, <2>2, <3>1
      <4> QED
        BY <1>6, <4>1, <4>2
    <3>2. CASE queue'[d][i] # nextId
      BY <1>6, <2>2, <3>2 DEF QInv, Ordered
    <3> QED
      BY <3>1, <3>2
  <2> QED
    BY <2>1, <2>2 DEF Ordered
<1>9. Conserved'
  <2>1. ended' = ended
    BY DEF Play
  <2>2. \A id \in ended : id < nextId'
    BY <1>2, IdsNat DEF QInv, Conserved, IInv, TypeOK
  <2>3. \A id \in Ids : InQueue(id)' <=> id < nextId' /\ id \notin ended
    <3> SUFFICES ASSUME NEW id \in Ids
                 PROVE  InQueue(id)' <=> id < nextId + 1 /\ id \notin ended
      BY <1>2
    <3>1. CASE id = nextId
      BY <1>2, <1>7, <3>1
    <3>2. CASE id # nextId
      <4>1. id < nextId + 1 <=> id < nextId
        BY <1>2, <3>2, IdsNat
      <4>2. InQueue(id) <=> id < nextId /\ id \notin ended
        BY DEF QInv, Conserved
      <4> QED
        BY <1>7, <3>2, <4>1, <4>2
    <3> QED
      BY <3>1, <3>2
  <2> QED
    BY <2>1, <2>2, <2>3 DEF Conserved
<1>10. Held'
  <2>1. running' = running \cup next /\ stream' = stream \cup ok /\ fdOpen' = fdOpen \cup {nextId}
        /\ rt' = rt
    BY <1>1, IdsNat DEF Play, StartNext, IInv, TypeOK
  <2>2. ASSUME NEW d \in Channels, NEW i \in 1..Len(queue'[d]), i > 1
        PROVE  queue'[d][i] \notin running'
    <3>1. queue'[d][i] \notin running
      <4>1. nextId \notin running
        BY <1>2 DEF IInv, IdsInOrder
      <4> QED
        BY <1>6, <2>2, <4>1 DEF QInv, Held
    <3>2. queue'[d][i] \notin next
      BY <1>2, <1>3, <1>5, <1>6, <2>2
    <3> QED
      BY <2>1, <3>1, <3>2
  <2>3. \A id \in running' : InQueue(id)'
    BY <1>2, <1>7, <2>1 DEF QInv, Held, IInv, TypeOK
  <2>4. /\ stream' \subseteq running'
        /\ \A id \in Ids : rt'[id] # "out" => id \in stream'
        /\ \A id \in Ids : id \in fdOpen' <=> InQueue(id)'
    BY <1>7, <2>1 DEF QInv, Held
  <2> QED
    BY <2>2, <2>3, <2>4 DEF Held
<1>11. OrphansDoomed'
  BY <1>6 DEF Play, MayPlay, QInv, OrphansDoomed, Doomed
<1> QED
  BY <1>8, <1>9, <1>10, <1>11 DEF QInv
-----------------------------------------------------------------------------
\* The end of finish(): the track leaves the queue, and the one at the front may start.
LEMMA FinishCloseQInv ==
  ASSUME IInv, QInv, NEW c \in Channels, NEW i \in 1..Len(queue[c]), FinishClose(c, i)
  PROVE  QInv'
<1> USE DEF mixer, counters, Forget
<1> DEFINE q == queue[c]
           n == Len(q)
           rest == Without(q, i)
           from(k) == IF k < i THEN k ELSE k + 1
           next == IF follow /\ rest # <<>> /\ rest[1] \notin running THEN {rest[1]} ELSE {}
<1>1. PICK ok \in SUBSET next : StartNext(next, ok, cur)
  BY DEF FinishClose
<1>2. q \in Seq(Ids) /\ n \in Nat /\ i \in 1..n /\ q[i] = cur /\ cur \in Ids
  BY QueueElement DEF FinishClose
<1>3. /\ rest \in Seq(Ids) /\ Len(rest) = n - 1
      /\ \A k \in 1..(n - 1) : rest[k] = q[from(k)]
  BY <1>2, WithoutProperties
<1>4. /\ Len(queue'[c]) = n - 1
      /\ \A k \in 1..(n - 1) : queue'[c][k] = q[from(k)]
      /\ \A d \in Channels \ {c} : queue'[d] = queue[d]
  BY <1>3 DEF FinishClose, IInv, TypeOK
<1>5. /\ \A k \in 1..(n - 1) : from(k) \in 1..n /\ from(k) # i /\ from(k) >= k
      /\ \A j, k \in 1..(n - 1) : j < k => from(j) < from(k)
      /\ \A j \in 1..n : j # i => \E k \in 1..(n - 1) : from(k) = j
  <2>1. \A j \in 1..n : j # i => \E k \in 1..(n - 1) : from(k) = j
    <3> SUFFICES ASSUME NEW j \in 1..n, j # i
                 PROVE  \E k \in 1..(n - 1) : from(k) = j
      OBVIOUS
    <3>1. CASE j < i
      BY <1>2, <3>1
    <3>2. CASE j > i
      <4>1. j - 1 \in 1..(n - 1) /\ from(j - 1) = j
        BY <1>2, <3>2
      <4> QED
        BY <4>1
    <3> QED
      BY <1>2, <3>1, <3>2
  <2>2. /\ \A k \in 1..(n - 1) : from(k) \in 1..n /\ from(k) # i /\ from(k) >= k
        /\ \A j, k \in 1..(n - 1) : j < k => from(j) < from(k)
    BY <1>2
  <2> QED
    BY <2>1, <2>2
<1> HIDE DEF from, rest
<1>6. \A k \in 1..n : q[k] \in Nat /\ q[k] \in Ids /\ (k # i => q[k] # cur)
  <2> SUFFICES ASSUME NEW k \in 1..n
               PROVE  q[k] \in Nat /\ q[k] \in Ids /\ (k # i => q[k] # cur)
    OBVIOUS
  <2>1. q[k] \in Ids /\ q[k] \in Nat /\ q[i] \in Nat
    BY <1>2, QueueElement, IdsNat
  <2>2. /\ k < i => q[k] < q[i]
        /\ i < k => q[i] < q[k]
    BY <1>2 DEF QInv, Ordered
  <2> QED
    BY <1>2, <2>1, <2>2
<1>7. \A d \in Channels : \A k \in 1..Len(queue'[d]) :
        /\ queue'[d][k] # cur
        /\ \E j \in 1..Len(queue[d]) : j >= k /\ queue[d][j] = queue'[d][k]
  <2> SUFFICES ASSUME NEW d \in Channels, NEW k \in 1..Len(queue'[d])
               PROVE  /\ queue'[d][k] # cur
                      /\ \E j \in 1..Len(queue[d]) : j >= k /\ queue[d][j] = queue'[d][k]
    OBVIOUS
  <2>1. CASE d = c
    BY <1>4, <1>5, <1>6, <2>1
  <2>2. CASE d # c
    <3>1. queue'[d] = queue[d]
      BY <1>4, <2>2
    <3>2. queue[d][k] # q[i]
      BY <1>2, <2>2, <3>1 DEF QInv, Ordered
    <3> QED
      BY <1>2, <3>1, <3>2
  <2> QED
    BY <2>1, <2>2
<1>8. \A id \in Ids : InQueue(id)' <=> InQueue(id) /\ id # cur
  <2> SUFFICES ASSUME NEW id \in Ids
               PROVE  InQueue(id)' <=> InQueue(id) /\ id # cur
    OBVIOUS
  <2>1. InQueue(id)' => InQueue(id) /\ id # cur
    BY <1>7 DEF InQueue
  <2>2. ASSUME InQueue(id), id # cur
        PROVE  InQueue(id)'
    <3>1. PICK d \in Channels : \E k \in 1..Len(queue[d]) : queue[d][k] = id
      BY <2>2 DEF InQueue
    <3>2. PICK k \in 1..Len(queue[d]) : queue[d][k] = id
      BY <3>1
    <3>3. CASE d = c
      <4>1. PICK j \in 1..(n - 1) : from(j) = k
        BY <1>2, <1>5, <2>2, <3>2, <3>3
      <4> QED
        BY <1>4, <3>2, <3>3, <4>1 DEF InQueue
    <3>4. CASE d # c
      BY <1>4, <3>2, <3>4 DEF InQueue
    <3> QED
      BY <3>3, <3>4
  <2> QED
    BY <2>1, <2>2
<1>9. Ordered'
  <2>1. ASSUME NEW d \in Channels, NEW j \in 1..Len(queue'[d]), NEW k \in 1..Len(queue'[d]), j < k
        PROVE  queue'[d][j] < queue'[d][k]
    <3>1. CASE d = c
      <4>1. q[from(j)] < q[from(k)]
        BY <1>4, <1>5, <2>1, <3>1 DEF QInv, Ordered
      <4> QED
        BY <1>4, <3>1, <4>1
    <3>2. CASE d # c
      BY <1>4, <2>1, <3>2 DEF QInv, Ordered
    <3> QED
      BY <3>1, <3>2
  <2>2. ASSUME NEW d \in Channels, NEW e \in Channels, NEW j \in 1..Len(queue'[d]),
               NEW k \in 1..Len(queue'[e]), queue'[d][j] = queue'[e][k]
        PROVE  d = e
    BY <1>7, <2>2 DEF QInv, Ordered
  <2> QED
    BY <2>1, <2>2 DEF Ordered
<1>10. Conserved'
  <2>1. ended' = ended \cup {cur} /\ nextId' = nextId
    BY DEF FinishClose
  <2>2. cur < nextId
    BY <1>2 DEF IInv, IdsInOrder
  <2> QED
    BY <1>8, <2>1, <2>2 DEF QInv, Conserved
<1>11. Held'
  <2>1. /\ running' = (running \ {cur}) \cup next /\ stream' = stream \cup ok
        /\ fdOpen' = fdOpen \ {cur} /\ rt' = rt
    BY <1>1 DEF FinishClose, StartNext
  <2>2. /\ cur \notin stream
        /\ \A id \in next : n > 1 /\ id = queue'[c][1] /\ id \in Ids
    <3>1. cur \notin stream
      BY DEF FinishClose, IInv, FinishPhase
    <3>2. ASSUME NEW id \in next
          PROVE  n > 1 /\ id = queue'[c][1] /\ id \in Ids
      <4>1. rest # <<>> /\ id = rest[1]
        BY <3>2
      <4>2. Len(rest) # 0
        BY <1>3, <4>1, EmptySeq
      <4> QED
        BY <1>2, <1>3, <1>4, <4>1, <4>2
    <3> QED
      BY <3>1, <3>2
  <2> HIDE DEF next
  <2>3. ASSUME NEW d \in Channels, NEW k \in 1..Len(queue'[d]), k > 1
        PROVE  queue'[d][k] \notin running'
    <3>1. queue'[d][k] \notin running
      BY <1>7, <2>3, QueueElement DEF QInv, Held
    <3>2. ASSUME NEW id \in next
          PROVE  queue'[d][k] # id
      <4>1. id = queue'[c][1] /\ 1 \in 1..Len(queue'[c])
        BY <1>2, <1>4, <2>2
      <4>2. CASE d = c
        <5>1. queue'[c][1] < queue'[c][k] /\ queue'[c][1] \in Nat
          BY <1>9, <2>2, <2>3, <4>1, <4>2, IdsNat DEF Ordered
        <5> QED
          BY <4>1, <4>2, <5>1
      <4>3. CASE d # c
        BY <1>9, <4>1, <4>3 DEF Ordered
      <4> QED
        BY <4>2, <4>3
    <3> QED
      BY <2>1, <3>1, <3>2
  <2>4. \A id \in next : InQueue(id)'
    BY <1>2, <1>4, <2>2 DEF InQueue
  <2>5. \A id \in running' : InQueue(id)'
    BY <1>8, <2>1, <2>4 DEF QInv, Held, IInv, TypeOK
  <2>6. /\ stream' \subseteq running'
        /\ \A id \in Ids : rt'[id] # "out" => id \in stream'
        /\ \A id \in Ids : id \in fdOpen' <=> InQueue(id)'
    BY <1>8, <2>1, <2>2 DEF QInv, Held
  <2> QED
    BY <2>3, <2>5, <2>6 DEF Held
<1>12. OrphansDoomed'
  <2> SUFFICES ASSUME NEW d \in Channels, NEW k \in 1..Len(queue'[d]),
                      ~(d \in allowed /\ connected)
               PROVE  queue'[d][k] \in Ids /\ verdict'[queue'[d][k]] # "none"
    BY DEF FinishClose, OrphansDoomed, Doomed
  <2>1. PICK j \in 1..Len(queue[d]) : queue[d][j] = queue'[d][k]
    BY <1>7
  <2>2. queue[d][j] \in Ids /\ queue[d][j] # cur /\ verdict[queue[d][j]] # "none"
    BY <1>7, <2>1, QueueElement DEF QInv, OrphansDoomed, Doomed
  <2>3. verdict'[queue[d][j]] # "none"
    BY <2>2 DEF FinishClose, IInv, TypeOK
  <2> QED
    BY <2>1, <2>2, <2>3
<1> QED
  BY <1>9, <1>10, <1>11, <1>12 DEF QInv
-----------------------------------------------------------------------------
(* The theorems. *)

LEMMA StepQInv == IInv /\ QInv /\ [Next]_vars => QInv'
<1> SUFFICES ASSUME IInv, QInv, [Next]_vars PROVE QInv'
  OBVIOUS
<1>1. CASE Requests
  BY <1>1, PlayQInv, DecisionsQInv DEF Requests
<1>2. CASE Disconnected \/ Reconnected \/ Reap
  BY <1>2, DecisionsQInv
<1>3. CASE Finish
  BY <1>3, FinishStepsQInv, FinishCloseQInv DEF Finish
<1>4. CASE \E id \in Ids : Worker(id) \/ Callbacks(id) \/ DeadlinePasses(id)
  BY <1>4, ThreadsQInv
<1>5. CASE UNCHANGED vars
  BY <1>5, FrameQInv, FrameOrphans DEF vars, mixer, ending, QInv, Held
<1> QED
  BY <1>1, <1>2, <1>3, <1>4, <1>5 DEF Next

LEMMA QueueInvariant == Spec => [](IInv /\ QInv)
<1>1. Init => IInv /\ QInv
  BY InitIInv, InitQInv
<1>2. IInv /\ QInv /\ [Next]_vars => (IInv /\ QInv)'
  BY StepIInv, StepQInv
<1> QED
  BY <1>1, <1>2, PTL DEF Spec

\* Every accepted track is in exactly one queue, once, until its end is announced, and in none
\* from then on: no end is announced twice, none is forgotten.
THEOREM EveryIdEndsOnce == Spec => []EndsExactlyOnce
<1>1. IInv /\ QInv => EndsExactlyOnce
  <2> SUFFICES ASSUME IInv, QInv PROVE EndsExactlyOnce
    OBVIOUS
  <2>1. ASSUME NEW c \in Channels, NEW i \in 1..Len(queue[c]), NEW k \in 1..Len(queue[c]),
               queue[c][i] = queue[c][k]
        PROVE  i = k
    <3>1. queue[c][i] \in Nat
      BY QueueElement, IdsNat
    <3>2. ~(i < k) /\ ~(k < i)
      BY <2>1, <3>1 DEF QInv, Ordered
    <3> QED
      BY <3>2
  <2>2. \A c, d \in Channels : c # d => Queued(c) \cap Queued(d) = {}
    BY DEF QInv, Ordered, Queued
  <2>3. Tracks \subseteq Ids /\ \A id \in Ids : id \in Tracks <=> InQueue(id)
    BY QueueElement DEF Tracks, Queued, InQueue
  <2>4. 1..(nextId - 1) \subseteq Ids /\ \A id \in Ids : id \in 1..(nextId - 1) <=> id < nextId
    BY PlayerAssumption DEF IInv, TypeOK, Ids
  <2>5. Tracks = 1..(nextId - 1) \ ended
    BY <2>3, <2>4 DEF QInv, Conserved
  <2> QED
    BY <2>1, <2>2, <2>5 DEF EndsExactlyOnce
<1> QED
  BY <1>1, QueueInvariant, PTL

\* Only the track at the front of a queue has been started or has a stream, and the queue is
\* in the order of the requests.
THEOREM OneTrackSounds == Spec => []OneSounds
<1>1. QInv => OneSounds
  BY DEF QInv, Ordered, Held, OneSounds
<1> QED
  BY <1>1, QueueInvariant, PTL

\* No worker reads a closed descriptor, no callback runs on a destroyed stream, and the open
\* descriptors are those of the queued tracks.
THEOREM NothingLeftBehind == Spec => []NothingOutlivesTrack
<1>1. IInv /\ QInv => NothingOutlivesTrack
  <2> SUFFICES ASSUME IInv, QInv PROVE NothingOutlivesTrack
    OBVIOUS
  <2>1. running \subseteq Ids /\ fdOpen \subseteq Ids
    BY DEF IInv, TypeOK
  <2>2. running \subseteq fdOpen
    BY <2>1 DEF QInv, Held
  <2>3. \A id \in Ids : worker[id] \in {"open", "rate", "read", "push"} => id \in fdOpen
    BY <2>2 DEF IInv, Fresh
  <2>4. fdOpen = Tracks
    BY <2>1, QueueElement DEF QInv, Held, InQueue, Tracks, Queued
  <2> QED
    BY <2>2, <2>3, <2>4 DEF NothingOutlivesTrack, QInv, Held
<1> QED
  BY <1>1, QueueInvariant, PTL

\* Between two events of the Qt thread, no track waits where nothing may play.
THEOREM OffMeansOff == Spec => []NoOrphanTracks
<1>1. IInv /\ QInv => NoOrphanTracks
  <2> SUFFICES ASSUME IInv, QInv, Idle, NEW c \in Channels, queue[c] # <<>>
               PROVE  c \in allowed /\ connected
    BY DEF NoOrphanTracks
  <2>1. 1 \in 1..Len(queue[c])
    BY QueueElement, EmptySeq
  <2> QED
    BY <2>1 DEF QInv, OrphansDoomed, Idle
<1> QED
  BY <1>1, QueueInvariant, PTL
-----------------------------------------------------------------------------
(***************************************************************************)
(* The playlist: for every set of channels and any number of tracks a step *)
(* of Player, whichever thread takes it, is a step of Playlist or leaves   *)
(* the playlist alone.                                                     *)
(*                                                                         *)
(* QInv says that only fronts have been started.  The other half, that     *)
(* every front has been, is what the flag startFollowing is for, and it    *)
(* holds only because finish() is called without it in two cases: for a    *)
(* track that is not the front, or for a whole queue from the back.        *)
(***************************************************************************)

\* The front of every queue has been started.
FrontsRun == \A c \in Channels : 1 \in 1..Len(queue[c]) => queue[c][1] \in running

\* Without startFollowing a front ends only together with all that wait behind it ...
WholeQueue ==
  ~follow => \A c \in Channels : \A i \in 1..Len(queue[c]) :
               queue[c][1] \in Doomed => queue[c][i] \in Doomed

\* ... and after all of them.
FromTheBack ==
  step # "pick" => \A c \in Channels : \A i, k \in 1..Len(queue[c]) :
                     queue[c][i] = cur /\ i < k => queue[c][k] \notin Doomed

PInv == FrontsRun /\ WholeQueue /\ FromTheBack
-----------------------------------------------------------------------------
LEMMA InitPInv == Init => PInv
BY DEF Init, PInv, FrontsRun, WholeQueue, FromTheBack

\* Steps that leave queues, verdicts and finish() alone.
LEMMA FramePInv ==
  ASSUME PInv, UNCHANGED <<queue, running, verdict, follow, cur, step>>
  PROVE  PInv'
BY DEF PInv, FrontsRun, WholeQueue, FromTheBack, Doomed

LEMMA ThreadsFrame ==
  ASSUME NEW w \in Ids, Worker(w) \/ Callbacks(w) \/ DeadlinePasses(w)
  PROVE  UNCHANGED <<queue, running, verdict, follow, cur, step, ended>>
<1> USE DEF mixer, ending, ring, rtFlags, counters
<1>1. CASE Worker(w)
  BY <1>1 DEF Worker, WorkerFails, WorkerOpens, WorkerRated, WorkerReads, WorkerAtEof,
     WorkerPushes, WorkerStops, WorkerOnly
<1>2. CASE Callbacks(w)
  BY <1>2 DEF Callbacks, Negotiated, StreamFails, ProcessReadsEof, ProcessDrains,
     ProcessCopies, ProcessNoBuffer, Drained, StreamOnly
<1>3. CASE DeadlinePasses(w)
  BY <1>3 DEF DeadlinePasses
<1> QED
  BY <1>1, <1>2, <1>3

\* A track is at one place of one queue.
LEMMA OnePlace ==
  ASSUME IInv, QInv, NEW c \in Channels, NEW d \in Channels,
         NEW i \in 1..Len(queue[c]), NEW k \in 1..Len(queue[d]), queue[c][i] = queue[d][k]
  PROVE  c = d /\ i = k
<1>1. c = d
  BY DEF QInv, Ordered
<1>2. queue[c][i] \in Nat /\ i \in Nat /\ k \in Nat
  <2>1. queue[c][i] \in Ids /\ Len(queue[c]) \in Nat /\ Len(queue[d]) \in Nat
    BY QueueElement
  <2>2. queue[c][i] \in Nat
    BY <2>1, IdsNat
  <2>3. i \in Nat /\ k \in Nat
    BY <2>1
  <2> QED
    BY <2>2, <2>3
<1>3. ~(i < k) /\ ~(k < i)
  BY <1>1, <1>2 DEF QInv, Ordered
<1> QED
  BY <1>1, <1>2, <1>3

\* The track that is picked has nothing doomed behind it.
LEMMA FinishStopPInv ==
  ASSUME IInv, QInv, PInv, NEW c \in Channels, NEW i \in 1..Len(queue[c]), FinishStop(c, i)
  PROVE  PInv'
<1>1. UNCHANGED <<queue, running, verdict, follow>> /\ cur' = queue[c][i]
  BY DEF FinishStop
<1>2. FrontsRun' /\ WholeQueue'
  BY <1>1 DEF PInv, FrontsRun, WholeQueue, Doomed
<1>3. ASSUME NEW d \in Channels, NEW j \in 1..Len(queue[d]), NEW k \in 1..Len(queue[d]),
             queue[d][j] = queue[c][i], j < k
      PROVE  queue[d][k] \notin Doomed
  <2>1. d = c /\ j = i
    BY <1>3, OnePlace
  <2>2. k \in (i + 1)..Len(queue[c])
    BY <1>3, <2>1, QueueElement
  <2> QED
    BY <2>1, <2>2 DEF FinishStop
<1> QED
  BY <1>1, <1>2, <1>3 DEF PInv, FromTheBack, Doomed

LEMMA FinishStepsPInv ==
  ASSUME IInv, QInv, PInv,
         \/ \E c \in Channels : \E i \in 1..Len(queue[c]) : FinishStop(c, i)
         \/ FinishDestroy
         \/ FinishJoin
  PROVE  PInv' /\ UNCHANGED <<queue, running, ended>>
<1> USE DEF mixer, rtFlags, ring, counters
<1>1. CASE \E c \in Channels : \E i \in 1..Len(queue[c]) : FinishStop(c, i)
  BY <1>1, FinishStopPInv DEF FinishStop
<1>2. CASE FinishDestroy
  BY <1>2 DEF FinishDestroy, PInv, FrontsRun, WholeQueue, FromTheBack, Doomed
<1>3. CASE FinishJoin
  BY <1>3 DEF FinishJoin, PInv, FrontsRun, WholeQueue, FromTheBack, Doomed
<1> QED
  BY <1>1, <1>2, <1>3

\* An operation that dooms a front without starting its successor dooms its whole queue.
LEMMA DecisionsPInv ==
  ASSUME IInv, QInv, PInv,
         \/ \E id \in Ids : StopOne(id)
         \/ \E c \in Channels : StopChannel(c)
         \/ \E cs \in SUBSET Channels : AllowOnly(cs)
         \/ Disconnected \/ Reconnected \/ Reap
  PROVE  PInv' /\ UNCHANGED <<queue, running, ended>>
<1> USE DEF mixer, ending, rtFlags, ring, counters
<1>1. UNCHANGED <<queue, running, ended, cur, step>> /\ Idle
  BY DEF StopOne, StopChannel, AllowOnly, Disconnected, Reconnected, Reap, Doom
<1>2. step = "pick"
  BY <1>1 DEF IInv, FinishPhase, Idle, Doomed
<1>3. WholeQueue'
  <2> SUFFICES ASSUME ~follow', NEW c \in Channels, NEW i \in 1..Len(queue[c]),
                      queue[c][1] \in Ids, verdict'[queue[c][1]] # "none"
               PROVE  queue[c][i] \in Ids /\ verdict'[queue[c][i]] # "none"
    BY <1>1 DEF WholeQueue, Doomed
  <2>1. /\ 1 \in 1..Len(queue[c]) /\ queue[c][i] \in Ids
        /\ queue[c][1] \in Queued(c) /\ queue[c][i] \in Queued(c)
        /\ verdict[queue[c][1]] = "none"
    BY <1>1, QueueElement DEF Idle, Doomed, Queued
  <2>2. \A d \in Channels : queue[c][1] \in Queued(d) => d = c
    BY <2>1 DEF QInv, Ordered, Queued
  <2>3. CASE \E id \in Ids : StopOne(id)
    <3> PICK id \in Ids : StopOne(id)
      BY <2>3
    <3>1. queue[c][1] = id
      BY <2>1 DEF StopOne, Doom
    <3>2. id \in running
      BY <2>1, <3>1 DEF PInv, FrontsRun
    <3> QED
      BY <3>2 DEF StopOne, Doom
  <2>4. CASE \E d \in Channels : StopChannel(d)
    <3> PICK d \in Channels : StopChannel(d)
      BY <2>4
    <3>1. queue[c][1] \in Queued(d)
      BY <2>1 DEF StopChannel, Doom
    <3>2. queue[c][i] \in Queued(d)
      BY <2>1, <2>2, <3>1
    <3> QED
      BY <2>1, <3>2 DEF StopChannel, Doom, Same
  <2>5. CASE \E cs \in SUBSET Channels : AllowOnly(cs)
    <3> PICK cs \in SUBSET Channels : AllowOnly(cs)
      BY <2>5
    <3> DEFINE ids == UNION {Queued(d) : d \in Channels \ cs}
    <3>1. Doom(ids, Same("stopped"), FALSE)
      BY DEF AllowOnly, Unwanted
    <3>2. queue[c][1] \in ids
      BY <2>1, <3>1 DEF Doom
    <3>3. queue[c][i] \in ids
      BY <2>1, <2>2, <3>2
    <3> HIDE DEF ids
    <3> QED
      BY <2>1, <3>1, <3>3 DEF Doom, Same
  <2>6. CASE Disconnected
    <3>1. queue[c][i] \in Tracks
      BY <2>1 DEF Tracks
    <3> QED
      BY <2>1, <2>6, <3>1 DEF Disconnected, Doom, Same
  <2>7. CASE Reconnected
    BY <2>1, <2>7 DEF Reconnected
  <2>8. CASE Reap
    BY <2>1, <2>8 DEF Reap, Doom
  <2> QED
    BY <2>3, <2>4, <2>5, <2>6, <2>7, <2>8
<1> QED
  BY <1>1, <1>2, <1>3 DEF PInv, FrontsRun, FromTheBack
-----------------------------------------------------------------------------
(* The two steps that change the playlist *)

\* A new track waits behind the others, or is started at once as the only one.
LEMMA PlayPInv ==
  ASSUME IInv, QInv, PInv, NEW c \in Channels, NEW blocks \in 0..MaxLen, Play(c, blocks)
  PROVE  PInv'
<1> USE DEF mixer, ending, rtFlags, counters
<1> DEFINE next == IF queue[c] = <<>> THEN {nextId} ELSE {}
<1>1. PICK ok \in SUBSET next : StartNext(next, ok, 0)
  BY DEF Play
<1>2. /\ queue[c] \in Seq(Ids) /\ Len(queue[c]) \in Nat /\ nextId \in Ids
      /\ queue' = [queue EXCEPT ![c] = Append(queue[c], nextId)]
      /\ UNCHANGED <<verdict, follow, cur, step>> /\ Idle
  BY QueueElement, PlayerAssumption DEF Play, IInv, TypeOK, Ids
<1>3. running' = running \cup next
  BY <1>1, IdsNat DEF StartNext, IInv, TypeOK
<1>4. step = "pick" /\ \A id \in Ids : id \notin Doomed /\ id \notin Doomed'
  BY <1>2 DEF IInv, FinishPhase, Idle, Doomed
<1>5. FrontsRun'
  <2> SUFFICES ASSUME NEW d \in Channels, 1 \in 1..Len(queue'[d])
               PROVE  queue'[d][1] \in running'
    BY DEF FrontsRun
  <2>1. CASE d # c
    BY <1>2, <1>3, <2>1 DEF PInv, FrontsRun, IInv, TypeOK
  <2>2. CASE d = c /\ Len(queue[c]) = 0
    <3>1. queue[c] = <<>> /\ queue'[c][1] = nextId
      BY <1>2, <2>2, EmptySeq DEF IInv, TypeOK
    <3> QED
      BY <1>3, <2>2, <3>1
  <2>3. CASE d = c /\ Len(queue[c]) # 0
    <3>1. 1 \in 1..Len(queue[c]) /\ queue'[c][1] = queue[c][1]
      BY <1>2, <2>3 DEF IInv, TypeOK
    <3> QED
      BY <1>3, <2>3, <3>1 DEF PInv, FrontsRun
  <2> QED
    BY <2>1, <2>2, <2>3
<1>6. WholeQueue' /\ FromTheBack'
  <2>1. Doomed' = {}
    BY <1>4 DEF Doomed
  <2> QED
    BY <1>2, <1>4, <2>1 DEF WholeQueue, FromTheBack
<1> QED
  BY <1>5, <1>6 DEF PInv

\* The successor of a front that ends is started in the same step, or there is none.
LEMMA FinishClosePInv ==
  ASSUME IInv, QInv, PInv, NEW c \in Channels, NEW i \in 1..Len(queue[c]), FinishClose(c, i)
  PROVE  PInv'
<1> USE DEF mixer, counters, Forget
<1> DEFINE q == queue[c]
           n == Len(q)
           rest == Without(q, i)
           next == IF follow /\ rest # <<>> /\ rest[1] \notin running THEN {rest[1]} ELSE {}
<1>1. PICK ok \in SUBSET next : StartNext(next, ok, cur)
  BY DEF FinishClose
<1>2. /\ q \in Seq(Ids) /\ n \in Nat /\ i \in 1..n /\ q[i] = cur /\ cur \in Doomed
      /\ \A k \in 1..n : q[k] \in Ids /\ (k # i => q[k] # cur)
  <2>1. q \in Seq(Ids) /\ n \in Nat /\ i \in 1..n /\ q[i] = cur /\ cur \in Doomed
    BY QueueElement DEF FinishClose, IInv, FinishPhase, Doomed
  <2>2. \A k \in 1..n : q[k] \in Ids /\ (k # i => q[k] # cur)
    BY <2>1, OnePlace, QueueElement
  <2> QED
    BY <2>1, <2>2
<1>3. /\ rest \in Seq(Ids) /\ Len(rest) = n - 1
      /\ \A k \in 1..(n - 1) : rest[k] = IF k < i THEN q[k] ELSE q[k + 1]
      /\ queue'[c] = rest /\ \A d \in Channels \ {c} : queue'[d] = queue[d]
  <2>1. /\ rest \in Seq(Ids) /\ Len(rest) = n - 1
        /\ \A k \in 1..(n - 1) : rest[k] = IF k < i THEN q[k] ELSE q[k + 1]
    BY <1>2, WithoutProperties
  <2>2. queue'[c] = rest /\ \A d \in Channels \ {c} : queue'[d] = queue[d]
    BY DEF FinishClose, IInv, TypeOK
  <2> QED
    BY <2>1, <2>2
<1>4. running' = (running \ {cur}) \cup next
  BY <1>1 DEF StartNext
<1>5. /\ step' = "pick" /\ follow' = follow
      /\ \A id \in Ids : verdict'[id] = IF id = cur THEN "none" ELSE verdict[id]
  BY DEF FinishClose, IInv, TypeOK
<1> HIDE DEF rest
<1>6. n > 1 => \/ i > 1 /\ rest[1] = q[1]
               \/ i = 1 /\ rest[1] = q[2] /\ rest # <<>> /\ q[2] \notin running
  <2> SUFFICES ASSUME n > 1 PROVE \/ i > 1 /\ rest[1] = q[1]
                                  \/ i = 1 /\ rest[1] = q[2] /\ rest # <<>> /\ q[2] \notin running
    OBVIOUS
  <2>1. CASE i > 1
    BY <1>2, <1>3, <2>1
  <2>2. CASE i = 1
    <3>1. rest[1] = q[2]
      BY <1>2, <1>3, <2>2
    <3>2. rest # <<>>
      BY <1>3
    <3>3. q[2] \notin running
      BY <1>2 DEF QInv, Held
    <3> QED
      BY <2>2, <3>1, <3>2, <3>3
  <2> QED
    BY <1>2, <2>1, <2>2
<1>7. n > 1 /\ i = 1 => follow
  <2> SUFFICES ASSUME n > 1, i = 1, ~follow PROVE FALSE
    OBVIOUS
  <2>1. q[2] \in Doomed
    BY <1>2 DEF PInv, WholeQueue
  <2>2. q[2] \notin Doomed
    BY <1>2 DEF PInv, FromTheBack, FinishClose
  <2> QED
    BY <2>1, <2>2
<1>8. FrontsRun'
  <2> SUFFICES ASSUME NEW d \in Channels, 1 \in 1..Len(queue'[d])
               PROVE  queue'[d][1] \in running'
    BY DEF FrontsRun
  <2>1. CASE d # c
    <3>1. queue'[d] = queue[d] /\ 1 \in 1..Len(queue[d])
      BY <1>3, <2>1
    <3>2. queue[d][1] # cur
      BY <1>2, <2>1, <3>1, OnePlace
    <3> QED
      BY <1>4, <3>1, <3>2 DEF PInv, FrontsRun
  <2>2. CASE d = c /\ i > 1
    <3>1. n > 1 /\ 1 \in 1..n /\ queue'[c][1] = q[1] /\ q[1] # cur
      BY <1>2, <1>3, <1>6, <2>2
    <3> QED
      BY <1>4, <2>2, <3>1 DEF PInv, FrontsRun
  <2>3. CASE d = c /\ i = 1
    <3>1. n > 1
      BY <1>2, <1>3, <2>3
    <3>2. next = {rest[1]}
      BY <1>6, <1>7, <2>3, <3>1
    <3> QED
      BY <1>3, <1>4, <2>3, <3>2
  <2> QED
    BY <1>2, <2>1, <2>2, <2>3
<1>9. WholeQueue'
  <2> SUFFICES ASSUME ~follow, NEW d \in Channels, NEW k \in 1..Len(queue'[d]),
                      queue'[d][1] \in Ids, verdict'[queue'[d][1]] # "none"
               PROVE  queue'[d][k] \in Ids /\ verdict'[queue'[d][k]] # "none"
    BY <1>5 DEF WholeQueue, Doomed
  <2>1. CASE d # c
    <3>1. queue'[d] = queue[d] /\ 1 \in 1..Len(queue[d])
      BY <1>3, <2>1, QueueElement
    <3>2. queue[d][1] \in Doomed
      BY <1>5, <3>1 DEF Doomed
    <3>3. queue[d][k] \in Doomed /\ queue[d][k] # cur
      BY <1>2, <2>1, <3>1, <3>2, OnePlace DEF PInv, WholeQueue
    <3> QED
      BY <1>5, <3>1, <3>3 DEF Doomed
  <2>2. CASE d = c
    <3>1. PICK j \in 1..n : j # i /\ queue'[c][k] = q[j]
      <4>1. k \in 1..(n - 1)
        BY <1>3, <2>2
      <4>2. CASE k < i
        BY <1>2, <1>3, <4>1, <4>2
      <4>3. CASE ~(k < i)
        <5>1. k + 1 \in 1..n /\ k + 1 # i /\ queue'[c][k] = q[k + 1]
          BY <1>2, <1>3, <4>1, <4>3
        <5> QED
          BY <5>1
      <4> QED
        BY <4>2, <4>3
    <3>2. n > 1 /\ i > 1 /\ queue'[c][1] = q[1] /\ 1 \in 1..n
      BY <1>2, <1>3, <1>6, <1>7, <2>2
    <3>3. q[1] \in Doomed
      BY <1>5, <2>2, <3>2 DEF Doomed
    <3>4. q[j] \in Doomed /\ q[j] # cur
      BY <1>2, <3>1, <3>3 DEF PInv, WholeQueue
    <3> QED
      BY <1>5, <2>2, <3>1, <3>4 DEF Doomed
  <2> QED
    BY <2>1, <2>2
<1> QED
  BY <1>5, <1>8, <1>9 DEF PInv, FromTheBack
-----------------------------------------------------------------------------
(* The theorem *)

LEMMA StepPInv == IInv /\ QInv /\ PInv /\ [Next]_vars => PInv'
<1> SUFFICES ASSUME IInv, QInv, PInv, [Next]_vars PROVE PInv'
  OBVIOUS
<1>1. CASE Requests
  BY <1>1, PlayPInv, DecisionsPInv DEF Requests
<1>2. CASE Disconnected \/ Reconnected \/ Reap
  BY <1>2, DecisionsPInv
<1>3. CASE Finish
  BY <1>3, FinishStepsPInv, FinishClosePInv DEF Finish
<1>4. CASE \E id \in Ids : Worker(id) \/ Callbacks(id) \/ DeadlinePasses(id)
  BY <1>4, ThreadsFrame, FramePInv
<1>5. CASE UNCHANGED vars
  BY <1>5, FramePInv DEF vars, ending
<1> QED
  BY <1>1, <1>2, <1>3, <1>4, <1>5 DEF Next

\* What has been started is exactly what the playlist says sounds.
StartedIsSounding == running = View!Fronts(queue)

LEMMA FrontsSound == IInv /\ QInv /\ PInv => StartedIsSounding
<1> SUFFICES ASSUME IInv, QInv, PInv PROVE running = View!Fronts(queue)
  BY DEF StartedIsSounding
<1>1. ASSUME NEW c \in Channels
      PROVE  queue[c] # <<>> <=> 1 \in 1..Len(queue[c])
  <2>1. queue[c] \in Seq(Ids) /\ Len(queue[c]) \in Nat
    BY QueueElement
  <2>2. queue[c] = <<>> <=> Len(queue[c]) = 0
    BY <2>1, EmptySeq
  <2> QED
    BY <2>1, <2>2
<1>2. \A id \in View!Fronts(queue) : id \in running
  BY <1>1 DEF View!Fronts, PInv, FrontsRun
<1>3. ASSUME NEW id \in running
      PROVE  id \in View!Fronts(queue)
  <2>1. PICK c \in Channels : \E i \in 1..Len(queue[c]) : queue[c][i] = id
    BY DEF QInv, Held, InQueue
  <2>2. PICK i \in 1..Len(queue[c]) : queue[c][i] = id
    BY <2>1
  <2>3. i = 1
    BY <2>2, QueueElement DEF QInv, Held
  <2> QED
    BY <1>1, <2>2, <2>3 DEF View!Fronts
<1> QED
  BY <1>2, <1>3

\* A request that is accepted puts a fresh id behind everything that waits.
LEMMA PlayEnqueues ==
  ASSUME IInv, QInv, NEW c \in Channels, NEW blocks \in 0..MaxLen, Play(c, blocks),
         running' = View!Fronts(queue')
  PROVE  View!Next
<1>1. nextId \in Ids /\ nextId \in Nat /\ ended' = ended
  BY PlayerAssumption DEF Play, IInv, TypeOK, Ids, ending
<1>2. nextId \notin ended /\ \A d \in Channels : nextId \notin View!Listed(queue, d)
  <2>1. \A id \in ended : id < nextId
    BY DEF QInv, Conserved
  <2>2. \A d \in Channels : \A i \in 1..Len(queue[d]) : queue[d][i] < nextId
    BY DEF IInv, IdsInOrder
  <2> QED
    BY <1>1, <2>1, <2>2 DEF View!Listed
<1>3. View!Enqueue(c, nextId)
  BY <1>1, <1>2 DEF View!Enqueue, Play, MayPlay
<1> QED
  BY <1>1, <1>3 DEF View!Next

\* The last step of finish() takes one track off, and moves up those behind it.
LEMMA FinishCloseEnds ==
  ASSUME NEW c \in Channels, NEW i \in 1..Len(queue[c]), FinishClose(c, i),
         running' = View!Fronts(queue')
  PROVE  View!Next
<1>1. View!End(c, i)
  BY DEF View!End, FinishClose, Without
<1> QED
  BY <1>1 DEF View!Next

\* The player is a playlist: a queue per channel of which the front sounds and nothing else
\* does, whose tracks end exactly once, whichever of the three threads moves.
THEOREM PlaylistIsServed == Spec => PlaylistServed
<1>1. Init => View!Init
  BY DEF Init, View!Init
<1>2. IInv /\ QInv /\ PInv /\ [Next]_vars /\ StartedIsSounding' => [View!Next]_(View!plVars)
  <2> SUFFICES ASSUME IInv, QInv, PInv, [Next]_vars, StartedIsSounding'
               PROVE  [View!Next]_(View!plVars)
    OBVIOUS
  <2>1. running' = View!Fronts(queue')
    BY DEF StartedIsSounding, View!Fronts
  <2>2. CASE Requests
    BY <2>1, <2>2, PlayEnqueues, DecisionsPInv DEF Requests, View!plVars
  <2>3. CASE Disconnected \/ Reconnected \/ Reap
    BY <2>3, DecisionsPInv DEF View!plVars
  <2>4. CASE Finish
    BY <2>1, <2>4, FinishStepsPInv, FinishCloseEnds DEF Finish, View!plVars
  <2>5. CASE \E id \in Ids : Worker(id) \/ Callbacks(id) \/ DeadlinePasses(id)
    BY <2>5, ThreadsFrame DEF View!plVars
  <2>6. CASE UNCHANGED vars
    BY <2>6 DEF vars, ending, View!plVars
  <2> QED
    BY <2>2, <2>3, <2>4, <2>5, <2>6 DEF Next
<1>3. IInv /\ QInv /\ PInv /\ [Next]_vars => (IInv /\ QInv /\ PInv)'
  BY StepIInv, StepQInv, StepPInv
<1>4. Init => IInv /\ QInv /\ PInv
  BY InitIInv, InitQInv, InitPInv
<1> QED
  BY <1>1, <1>2, <1>3, <1>4, FrontsSound, PTL DEF Spec, PlaylistServed, View!Spec

-----------------------------------------------------------------------------
(***************************************************************************)
(* CellGraph, for every set of channels and mixes, every order of them,    *)
(* any number of slots per name, of commands and of modules that die.      *)
(*                                                                         *)
(* The invariant is the types and NothingForgotten.  The types tie what    *)
(* the daemon has seen of a name to the nodes announced under it, each     *)
(* once and in their order: on that rests what SweepSpares says of the     *)
(* oldest.  A look at the graph is one lemma (Look and LookStep),          *)
(* whatever was destroyed in the lines before it; each handler that ends   *)
(* in one, and that is most of them, cites it.                             *)
(***************************************************************************)

\* A node the layout wants and the graph does not list is expected, or the
\* graph is going to be looked at.
LooksAgain(q) == \E i \in 1..Len(q) : q[i].type \in {"removed", "recheck"}
NothingForgotten ==
  \A n \in WantedNames(layout) : InGraph(n) \/ n \in pending \/ settling \/ LooksAgain(events)

CellInv == CellTypeOK /\ NothingForgotten

InSnapshot == {"up", "leaving"}
Layouts == {l \in [channels : SUBSET ChannelSlugs, mixes : Seq(Mixes)] : IsInjective(l.mixes)}
Contents == Seq(Mixes) \cup (Nat \X Nat)
-----------------------------------------------------------------------------
(* Sequences without repetition                                            *)

LEMMA AppendedTo ==
  ASSUME NEW S, NEW q \in Seq(S), IsInjective(q), NEW x \in S, x \notin Members(q)
  PROVE  /\ Append(q, x) \in Seq(S) /\ IsInjective(Append(q, x))
         /\ Members(Append(q, x)) = Members(q) \cup {x}
         /\ q # <<>> => Append(q, x)[1] = q[1]
<1> DEFINE r == Append(q, x)
<1>1. /\ r \in Seq(S) /\ Len(r) = Len(q) + 1 /\ Len(q) \in Nat
      /\ DOMAIN q = 1..Len(q) /\ DOMAIN r = 1..Len(r)
      /\ \A i \in 1..Len(q) : r[i] = q[i]
      /\ r[Len(q) + 1] = x
  OBVIOUS
<1> HIDE DEF r
<1>2. Members(r) = Members(q) \cup {x}
  <2>1. ASSUME NEW y \in Members(q) PROVE y \in Members(r)
    BY <1>1 DEF Members
  <2>2. x \in Members(r)
    BY <1>1 DEF Members
  <2>3. ASSUME NEW y \in Members(r) PROVE y \in Members(q) \cup {x}
    <3>1. PICK i \in 1..(Len(q) + 1) : y = r[i]
      BY <1>1 DEF Members
    <3>2. CASE i = Len(q) + 1
      BY <1>1, <3>1, <3>2
    <3>3. CASE i \in 1..Len(q)
      BY <1>1, <3>1, <3>3 DEF Members
    <3> QED
      BY <1>1, <3>2, <3>3
  <2> QED
    BY <2>1, <2>2, <2>3
<1>3. IsInjective(r)
  <2> SUFFICES ASSUME NEW i \in 1..Len(r), NEW j \in 1..Len(r), r[i] = r[j] PROVE i = j
    BY <1>1 DEF IsInjective
  <2>1. ASSUME NEW k \in 1..Len(q) PROVE q[k] # x
    BY <1>1 DEF Members
  <2> QED
    BY <1>1, <2>1 DEF IsInjective
<1>4. q # <<>> => r[1] = q[1]
  BY <1>1
<1> QED
  BY <1>1, <1>2, <1>3, <1>4 DEF r

LEMMA Removed ==
  ASSUME NEW S, NEW q \in Seq(S), IsInjective(q), NEW x
  PROVE  /\ RemoveFirst(q, x) \in Seq(S) /\ IsInjective(RemoveFirst(q, x))
         /\ Members(RemoveFirst(q, x)) = Members(q) \ {x}
<1> DEFINE r == RemoveFirst(q, x)
<1>1. Len(q) \in Nat /\ DOMAIN q = 1..Len(q) /\ \A i \in 1..Len(q) : q[i] \in S
  OBVIOUS
<1>2. CASE ~\E i \in 1..Len(q) : q[i] = x
  <2>1. r = q
    BY <1>2 DEF RemoveFirst
  <2>2. x \notin Members(q)
    BY <1>1, <1>2 DEF Members
  <2> QED
    BY <2>1, <2>2
<1>3. CASE \E i \in 1..Len(q) : q[i] = x
  <2>1. PICK k \in 1..Len(q) : q[k] = x
    BY <1>3
  <2>2. {i \in 1..Len(q) : q[i] = x} = {k}
    BY <1>1, <2>1 DEF IsInjective
  <2>3. Min({k}) = k
    BY <2>1 DEF Min
  <2>4. r = RemoveAt(q, k)
    BY <1>3, <2>2, <2>3 DEF RemoveFirst, SelectInSeq
  <2> DEFINE a == SubSeq(q, 1, k - 1)
             b == SubSeq(q, k + 1, Len(q))
  <2>5. /\ a \in Seq(S) /\ Len(a) = k - 1 /\ \A i \in 1..(k - 1) : a[i] = q[i]
    BY <1>1
  <2>6. /\ b \in Seq(S) /\ Len(b) = Len(q) - k /\ \A i \in 1..(Len(q) - k) : b[i] = q[k + i]
    <3>1. \A i \in (k + 1)..Len(q) : q[i] \in S
      BY <1>1
    <3>2. /\ b \in Seq(S) /\ Len(b) = IF k + 1 <= Len(q) THEN Len(q) - (k + 1) + 1 ELSE 0
          /\ \A i \in 1..(Len(q) - (k + 1) + 1) : b[i] = q[(k + 1) + i - 1]
      <4> HIDE DEF b
      <4>1. k + 1 \in Int /\ Len(q) \in Int
        BY <1>1
      <4> QED
        BY <3>1, <4>1, SubSeqProperties DEF b
    <3> HIDE DEF b
    <3>3. Len(b) = Len(q) - k
      <4>1. k \in Nat /\ Len(q) \in Nat /\ k <= Len(q)
        BY <1>1
      <4>2. Len(b) = IF k + 1 <= Len(q) THEN Len(q) - (k + 1) + 1 ELSE 0
        BY <3>2
      <4> QED
        BY <4>1, <4>2
    <3>4. ASSUME NEW i \in 1..(Len(q) - k) PROVE b[i] = q[k + i]
      <4>1. i \in 1..(Len(q) - (k + 1) + 1) /\ (k + 1) + i - 1 = k + i
        BY <1>1
      <4> QED
        BY <3>2, <4>1
    <3> QED
      BY <3>2, <3>3, <3>4
  <2>7. r = a \o b
    BY <2>4 DEF RemoveAt
  <2> HIDE DEF a, b, r
  <2>8. /\ r \in Seq(S) /\ Len(r) = Len(q) - 1 /\ DOMAIN r = 1..(Len(q) - 1)
        /\ \A i \in 1..(Len(q) - 1) : r[i] = IF i < k THEN q[i] ELSE q[i + 1]
    <3>1. r \in Seq(S) /\ Len(r) = Len(q) - 1
      <4>1. r \in Seq(S) /\ Len(r) = Len(a) + Len(b)
        BY <2>5, <2>6, <2>7, ConcatProperties
      <4> QED
        BY <1>1, <2>5, <2>6, <4>1
    <3>2. ASSUME NEW i \in 1..(Len(q) - 1) PROVE r[i] = IF i < k THEN q[i] ELSE q[i + 1]
      <4>1. r[i] = IF i <= Len(a) THEN a[i] ELSE b[i - Len(a)]
        BY <1>1, <2>5, <2>6, <2>7
      <4>2. CASE i < k
        BY <1>1, <2>5, <4>1, <4>2
      <4>3. CASE ~(i < k)
        <5>1. i - Len(a) \in 1..(Len(q) - k) /\ k + (i - Len(a)) = i + 1
          BY <1>1, <2>5, <4>3
        <5> QED
          BY <1>1, <2>5, <2>6, <4>1, <4>3, <5>1
      <4> QED
        BY <4>2, <4>3
    <3> QED
      BY <3>1, <3>2
  <2>9. IsInjective(r)
    <3> SUFFICES ASSUME NEW i \in 1..(Len(q) - 1), NEW j \in 1..(Len(q) - 1), r[i] = r[j]
                 PROVE  i = j
      BY <2>8 DEF IsInjective
    <3> QED
      BY <1>1, <2>8 DEF IsInjective
  <2>10. Members(r) = Members(q) \ {x}
    <3>1. ASSUME NEW y \in Members(r) PROVE y \in Members(q) /\ y # x
      <4>1. PICK i \in 1..(Len(q) - 1) : y = r[i]
        BY <2>8, <3>1 DEF Members
      <4>2. PICK j \in 1..Len(q) : y = q[j] /\ j # k
        BY <1>1, <2>8, <4>1
      <4> QED
        BY <1>1, <2>1, <4>2 DEF Members, IsInjective
    <3>2. ASSUME NEW y \in Members(q), y # x PROVE y \in Members(r)
      <4>1. PICK j \in 1..Len(q) : y = q[j]
        BY <1>1, <3>2 DEF Members
      <4>2. j # k
        BY <2>1, <3>2, <4>1
      <4>3. \E i \in 1..(Len(q) - 1) : r[i] = q[j]
        <5>1. CASE j < k
          BY <1>1, <2>8, <5>1
        <5>2. CASE j > k
          <6>1. j - 1 \in 1..(Len(q) - 1) /\ r[j - 1] = q[j]
            BY <1>1, <2>8, <5>2
          <6> QED
            BY <6>1
        <5> QED
          BY <1>1, <4>2, <5>1, <5>2
      <4> QED
        BY <2>8, <4>1, <4>3 DEF Members
    <3> QED
      BY <3>1, <3>2
  <2> QED
    BY <2>8, <2>9, <2>10 DEF r
<1> QED
  BY <1>2, <1>3

\* Without repetition fewer members need fewer places.
LEMMA NoLonger ==
  ASSUME NEW S, NEW p \in Seq(S), NEW q \in Seq(S), IsInjective(p),
         Members(p) \subseteq Members(q)
  PROVE  Len(p) <= Len(q) /\ Len(p) \in Nat /\ Len(q) \in Nat
<1>1. Len(p) \in Nat /\ Len(q) \in Nat /\ DOMAIN p = 1..Len(p) /\ DOMAIN q = 1..Len(q)
  OBVIOUS
<1>2. \A i \in 1..Len(p) : \E j \in 1..Len(q) : q[j] = p[i]
  BY <1>1 DEF Members
<1> DEFINE f == [i \in 1..Len(p) |-> CHOOSE j \in 1..Len(q) : q[j] = p[i]]
<1>3. f \in [1..Len(p) -> 1..Len(q)] /\ \A i \in 1..Len(p) : q[f[i]] = p[i]
  BY <1>2
<1> HIDE DEF f
<1>4. ASSUME Len(q) < Len(p) PROVE FALSE
  <2>1. /\ IsFiniteSet(1..Len(p)) /\ Cardinality(1..Len(p)) = Len(p)
        /\ IsFiniteSet(1..Len(q)) /\ Cardinality(1..Len(q)) = Len(q)
    <3>1. ASSUME NEW n \in Nat PROVE IsFiniteSet(1..n) /\ Cardinality(1..n) = n
      BY FS_Interval
    <3> QED
      BY <1>1, <3>1
  <2> DEFINE from == 1..Len(p)
             to   == 1..Len(q)
  <2>2. /\ IsFiniteSet(from) /\ IsFiniteSet(to) /\ f \in [from -> to]
        /\ Cardinality(to) < Cardinality(from)
    BY <1>3, <1>4, <2>1
  <2>3. \E i, j \in from : i # j /\ f[i] = f[j]
    <3> HIDE DEF from, to
    <3> QED
      BY <2>2, FS_PigeonHole
  <2> QED
    BY <1>1, <1>3, <2>3 DEF IsInjective
<1> QED
  BY <1>1, <1>4
-----------------------------------------------------------------------------
(* Names and slots                                                         *)

LEMMA SlotNames ==
  ASSUME NEW s \in Slots
  PROVE  NameOf(s) \in Names
BY DEF Slots, NameOf

LEMMA DivMonotone ==
  ASSUME NEW a \in Int, NEW b \in Int, NEW k \in Nat \ {0}, a <= b
  PROVE  a \div k <= b \div k /\ a \div k \in Int /\ (a >= 0 => a \div k >= 0)
OBVIOUS

\* A layout has no more mixes than there are.
LEMMA OrderLength ==
  ASSUME NEW q \in Seq(Mixes), IsInjective(q)
  PROVE  Len(q) \in Nat /\ Cardinality(Mixes) \in Nat /\ Len(q) <= Cardinality(Mixes)
<1>1. Len(q) \in Nat /\ q \in [1..Len(q) -> Mixes]
  OBVIOUS
<1>2. IsFiniteSet(1..Len(q)) /\ Cardinality(1..Len(q)) = Len(q)
  BY <1>1, FS_Interval
<1>3. IsFiniteSet(Mixes) /\ Cardinality(Mixes) \in Nat
  BY CellGraphAssumption, FS_CardinalityType DEF CellGraphAssumption
<1>4. ASSUME Cardinality(Mixes) < Len(q) PROVE FALSE
  <2> DEFINE places == 1..Len(q)
  <2>1. /\ IsFiniteSet(places) /\ q \in [places -> Mixes]
        /\ Cardinality(Mixes) < Cardinality(places)
    BY <1>1, <1>2, <1>4
  <2>2. \E i, j \in places : i # j /\ q[i] = q[j]
    <3> HIDE DEF places
    <3> QED
      BY <1>3, <2>1, FS_PigeonHole
  <2> QED
    BY <1>1, <2>2 DEF IsInjective
<1> QED
  BY <1>1, <1>3, <1>4

\* What a layout wants has a name.
LEMMA WantedIsNamed ==
  ASSUME NEW l \in Layouts
  PROVE  WantedNames(l) \subseteq Names
<1>1. /\ l.channels \subseteq ChannelSlugs /\ l.mixes \in Seq(Mixes) /\ IsInjective(l.mixes)
      /\ PerBus \in Nat \ {0}
  BY CellGraphAssumption DEF Layouts, CellGraphAssumption
<1>2. Members(l.mixes) \subseteq Mixes
  BY <1>1 DEF Members
<1> DEFINE q == l.mixes
           top == (Cardinality(Mixes) - 1) \div PerBus
<1>3. BusCount(q) - 1 <= top /\ BusCount(q) \in Int /\ top \in Int
  <2>1. Len(q) \in Nat /\ Cardinality(Mixes) \in Nat /\ Len(q) <= Cardinality(Mixes)
    BY <1>1, OrderLength
  <2> DEFINE a == Len(q) - 1
             c == Cardinality(Mixes) - 1
  <2>2. a \in Int /\ c \in Int /\ a <= c
    BY <2>1
  <2>3. a \div PerBus <= c \div PerBus /\ a \div PerBus \in Int /\ c \div PerBus \in Int
    <3> HIDE DEF a, c
    <3> QED
      BY <1>1, <2>2, DivMonotone
  <2>4. (a + PerBus) \div PerBus = (a \div PerBus) + 1
    <3> HIDE DEF a, c
    <3> QED
      BY <1>1, <2>2
  <2>5. Len(q) + PerBus - 1 = a + PerBus
    BY <1>1, <2>1
  <2> QED
    BY <2>3, <2>4, <2>5 DEF BusCount
<1>4. 0..(BusCount(q) - 1) \subseteq Buses
  <2> HIDE DEF q, top
  <2>1. 0..(BusCount(q) - 1) \subseteq 0..top
    BY <1>3
  <2> QED
    BY <2>1 DEF Buses, top
<1> QED
  BY <1>1, <1>2, <1>4 DEF WantedNames, Names

\* A chain is loaded with mixes, a tap with two numbers.
LEMMA RenderedType ==
  ASSUME NEW l \in Layouts, NEW n \in WantedNames(l)
  PROVE  Rendered(l.mixes, n) \in Contents
<1> DEFINE q == l.mixes
<1>1. /\ q \in Seq(Mixes) /\ PerBus \in Nat \ {0} /\ Len(q) \in Nat
      /\ DOMAIN q = 1..Len(q) /\ \A i \in 1..Len(q) : q[i] \in Mixes
  BY CellGraphAssumption DEF Layouts, CellGraphAssumption
<1>2. PICK c, b, m : \/ n = ChainNode(c, b) /\ b \in 0..(BusCount(q) - 1)
                     \/ n = Tap(m) /\ m \in Members(q)
  BY DEF WantedNames
<1> HIDE DEF q
<1>3. CASE n = ChainNode(c, b) /\ b \in 0..(BusCount(q) - 1)
  <2>1. Rendered(q, n) = OnBus(q, b)
    BY <1>3 DEF Rendered, IsChain, ChainNode
  <2> DEFINE end == (b + 1) * PerBus
             last == IF end < Len(q) THEN end ELSE Len(q)
             first == b * PerBus + 1
  <2>2. b \in Nat
    BY <1>3
  <2>3. first \in Nat /\ first >= 1 /\ end \in Nat
    BY <1>1, <2>2
  <2>4. last \in Nat /\ last <= Len(q)
    BY <1>1, <2>3
  <2> HIDE DEF end, first, last
  <2>5. \A i \in first..last : q[i] \in Mixes
    BY <1>1, <2>3, <2>4
  <2>6. SubSeq(q, first, last) \in Seq(Mixes)
    BY <2>3, <2>4, <2>5, SubSeqProperties
  <2>7. OnBus(q, b) = SubSeq(q, first, last)
    BY DEF OnBus, first, last, end
  <2> QED
    BY <2>1, <2>6, <2>7 DEF Contents, q
<1>4. CASE n = Tap(m) /\ m \in Members(q)
  <2>1. Rendered(q, n) = <<Index(q, m) \div PerBus, Index(q, m) % PerBus>>
    BY <1>4 DEF Rendered, IsChain, Tap
  <2>2. \E i \in DOMAIN q : q[i] = m
    BY <1>4 DEF Members
  <2>3. Index(q, m) \in Nat
    BY <1>1, <2>2 DEF Index
  <2>4. Index(q, m) \div PerBus \in Nat /\ Index(q, m) % PerBus \in Nat
    <3>1. ASSUME NEW k \in Nat PROVE k \div PerBus \in Nat /\ k % PerBus \in Nat
      BY <1>1
    <3> QED
      BY <2>3, <3>1
  <2> QED
    BY <2>1, <2>4 DEF Contents, q
<1> QED
  BY <1>2, <1>3, <1>4
-----------------------------------------------------------------------------
(* A look at the graph                                                     *)

\* The snapshot is in order: what it lists under a name is what was announced
\* for that name.
LEMMA Snapshot ==
  ASSUME CellTypeOK, NEW n \in Names
  PROVE  /\ snapshot[n] \in Seq(Slots) /\ IsInjective(snapshot[n])
         /\ Members(snapshot[n]) = Announced(n)
         /\ InGraph(n) => 1 \in DOMAIN snapshot[n] /\ snapshot[n][1] \in Announced(n)
<1>1. /\ snapshot[n] \in Seq(Slots) /\ IsInjective(snapshot[n])
      /\ Members(snapshot[n]) = Announced(n)
  BY DEF CellTypeOK
<1>2. ASSUME InGraph(n) PROVE 1 \in DOMAIN snapshot[n]
  BY <1>1, <1>2 DEF InGraph
<1> QED
  BY <1>1, <1>2 DEF Members

LEMMA NodesAnnounced ==
  ASSUME CellTypeOK, NEW ns \in SUBSET Names
  PROVE  NodesOf(ns) = {s \in Slots : NameOf(s) \in ns /\ at[s] \in InSnapshot}
<1>1. NodesOf(ns) = UNION {Announced(n) : n \in ns}
  BY DEF NodesOf, CellTypeOK
<1> QED
  BY <1>1 DEF Announced, InSnapshot

\* What a look at the graph sweeps.
Sweep(l, found) == Unfit(l, found) \cup Leftovers(WantedNames(l)) \cup Twins

\* It is all listed, and never the first of a wanted name that is as the layout
\* wants it.
LEMMA Swept ==
  ASSUME CellTypeOK, NEW l \in Layouts, NEW found \in Lookups
  PROVE  /\ Sweep(l, found) \subseteq {s \in Slots : at[s] \in InSnapshot}
         /\ \A n \in WantedNames(l) :
              InGraph(n) /\ made[snapshot[n][1]] = Rendered(l.mixes, n) =>
                snapshot[n][1] \notin Sweep(l, found)
<1>1. WantedNames(l) \subseteq Names
  BY WantedIsNamed
<1>2. Unfit(l, found) \subseteq {s \in Slots : at[s] \in InSnapshot}
  <2>1. \A n \in DOMAIN found : found[n] \in NodesOf(Names)
    BY DEF Lookups
  <2>2. NodesOf(Names) \subseteq {s \in Slots : at[s] \in InSnapshot}
    BY NodesAnnounced
  <2> QED
    BY <2>1, <2>2 DEF Unfit
<1>3. Leftovers(WantedNames(l)) \subseteq {s \in Slots : at[s] \in InSnapshot}
  <2>1. Names \ WantedNames(l) \in SUBSET Names
    OBVIOUS
  <2> QED
    BY <2>1, NodesAnnounced DEF Leftovers
<1>4. ASSUME NEW s \in Twins
      PROVE  /\ s \in Slots /\ at[s] \in InSnapshot /\ NameOf(s) \in Names
             /\ s # snapshot[NameOf(s)][1]
  <2>1. PICK n \in Names : s \in Ends(snapshot[n], 2, Len(snapshot[n]))
    BY DEF Twins
  <2>2. PICK i \in 2..Len(snapshot[n]) : s = snapshot[n][i]
    BY <2>1 DEF Ends
  <2>3. /\ snapshot[n] \in Seq(Slots) /\ IsInjective(snapshot[n])
        /\ Members(snapshot[n]) = Announced(n)
    BY Snapshot
  <2>4. i \in DOMAIN snapshot[n] /\ 1 \in DOMAIN snapshot[n] /\ i # 1
    BY <2>3
  <2>5. s \in Announced(n)
    BY <2>2, <2>3, <2>4 DEF Members
  <2>6. s # snapshot[n][1]
    BY <2>2, <2>3, <2>4 DEF IsInjective
  <2> QED
    BY <2>5, <2>6 DEF Announced, InSnapshot
<1>5. ASSUME NEW n \in WantedNames(l), InGraph(n), made[snapshot[n][1]] = Rendered(l.mixes, n),
             snapshot[n][1] \in Sweep(l, found)
      PROVE  FALSE
  <2> DEFINE o == snapshot[n][1]
  <2>1. o \in Announced(n) /\ n \in Names
    BY <1>1, <1>5, Snapshot
  <2>2. NameOf(o) = n /\ o \in Slots
    BY <2>1 DEF Announced
  <2>3. CASE o \in Unfit(l, found)
    <3>1. PICK k \in DOMAIN found : /\ o = found[k]
                                    /\ Described(k, made[o]) # Described(k, Rendered(l.mixes, k))
      BY <2>3 DEF Unfit
    <3>2. NameOf(found[k]) = k
      BY <3>1 DEF Lookups
    <3> QED
      BY <1>5, <2>2, <3>1, <3>2
  <2>4. CASE o \in Leftovers(WantedNames(l))
    <3>1. Names \ WantedNames(l) \in SUBSET Names
      OBVIOUS
    <3>2. NameOf(o) \in Names \ WantedNames(l)
      BY <2>4, <3>1, NodesAnnounced DEF Leftovers
    <3> QED
      BY <2>2, <3>2
  <2>5. CASE o \in Twins
    BY <1>4, <2>2, <2>5
  <2> QED
    BY <1>5, <2>3, <2>4, <2>5 DEF Sweep
<1> QED
  BY <1>2, <1>3, <1>4, <1>5 DEF Sweep

\* Where the modules stand after the handler has destroyed nodes and before it
\* looks: destroyed is only what the snapshot lists.
Dooming(places) ==
  /\ places \in [Slots -> Places]
  /\ \A s \in Slots : \/ places[s] = at[s]
                      \/ at[s] \in InSnapshot /\ places[s] = "leaving"

\* The sound that a look must not cut: the first node of a wanted name, as the
\* layout wants it.
Spared(l, places, after) ==
  \A n \in WantedNames(l) :
    /\ InGraph(n)
    /\ places[snapshot[n][1]] = "up" /\ made[snapshot[n][1]] = Rendered(l.mixes, n)
    => after[snapshot[n][1]] = "up"

LEMMA DoomedNodes ==
  ASSUME CellTypeOK, NEW ns \in SUBSET Names
  PROVE  LET places == Move(at, NodesOf(ns), "leaving") IN
         /\ Dooming(places)
         /\ \A s \in Slots : NameOf(s) \notin ns => places[s] = at[s]
<1>1. NodesOf(ns) = {s \in Slots : NameOf(s) \in ns /\ at[s] \in InSnapshot}
  BY NodesAnnounced
<1>2. at \in [Slots -> Places]
  BY DEF CellTypeOK
<1> QED
  BY <1>1, <1>2 DEF Move, Dooming, Places

LEMMA NothingDoomed ==
  ASSUME CellTypeOK
  PROVE  Dooming(at)
BY DEF CellTypeOK, Dooming

LEMMA FreeSlotType ==
  ASSUME NEW names, NEW places, Room(names, places), NEW n \in names, names \subseteq Names
  PROVE  /\ FreeSlot(n, places) \in Slots /\ NameOf(FreeSlot(n, places)) = n
         /\ places[FreeSlot(n, places)] = "free"
<1> DEFINE P == {n} \X (1..PerName)
<1>1. \E s \in P : places[s] = "free"
  BY DEF Room
<1>2. FreeSlot(n, places) \in P /\ places[FreeSlot(n, places)] = "free"
  BY <1>1 DEF FreeSlot
<1> QED
  BY <1>2 DEF Slots, NameOf

LEMMA Look ==
  ASSUME CellTypeOK, NEW l \in Layouts, NEW places, Dooming(places),
         NEW asked \in SUBSET Names, NEW evs \in Seq(Event),
         EnsureCellGraph(l, places, asked, evs)
  PROVE  /\ at' \in [Slots -> Places] /\ made' \in [Slots -> Contents]
         /\ \A s \in Slots : at'[s] \in InSnapshot <=> at[s] \in InSnapshot
         /\ requested' \subseteq Names /\ pending' \subseteq Names
         /\ overdue' \subseteq pending' /\ events' = evs /\ snapshot' = snapshot
         /\ \A n \in WantedNames(l) : InGraph(n) \/ n \in pending'
         /\ Spared(l, places, at')
<1>1. PICK found \in Lookups :
        LET absent == {n \in WantedNames(l) : ~InGraph(n)}
            sweep == Sweep(l, found)
            loaded == {FreeSlot(n, places) : n \in absent \ asked} IN
          /\ Room(absent \ asked, places)
          /\ at' = Move(Move(places, sweep, "leaving"), loaded, "coming")
          /\ made' = [s \in Slots |-> IF s \in loaded THEN Rendered(l.mixes, NameOf(s)) ELSE made[s]]
          /\ requested' = AskedAgain(asked \cup absent, sweep)
          /\ pending' = pending \cup absent
          /\ overdue' = overdue \ absent
          /\ events' = evs
          /\ snapshot' = snapshot
  BY DEF EnsureCellGraph, Sweep
<1> DEFINE absent == {n \in WantedNames(l) : ~InGraph(n)}
           sweep == Sweep(l, found)
           loaded == {FreeSlot(n, places) : n \in absent \ asked}
<1>2. /\ Room(absent \ asked, places)
      /\ at' = Move(Move(places, sweep, "leaving"), loaded, "coming")
      /\ made' = [s \in Slots |-> IF s \in loaded THEN Rendered(l.mixes, NameOf(s)) ELSE made[s]]
      /\ requested' = AskedAgain(asked \cup absent, sweep)
      /\ pending' = pending \cup absent /\ overdue' = overdue \ absent
      /\ events' = evs /\ snapshot' = snapshot
  BY <1>1
<1>3. WantedNames(l) \subseteq Names /\ absent \subseteq Names
  BY WantedIsNamed
<1>4. /\ sweep \subseteq {s \in Slots : at[s] \in InSnapshot}
      /\ \A n \in WantedNames(l) :
           InGraph(n) /\ made[snapshot[n][1]] = Rendered(l.mixes, n) => snapshot[n][1] \notin sweep
  BY Swept
<1>5. \A s \in loaded : s \in Slots /\ NameOf(s) \in absent /\ places[s] = "free"
  <2> SUFFICES ASSUME NEW n \in absent \ asked
               PROVE  /\ FreeSlot(n, places) \in Slots /\ NameOf(FreeSlot(n, places)) = n
                      /\ places[FreeSlot(n, places)] = "free"
    OBVIOUS
  <2>1. absent \ asked \subseteq Names
    BY <1>3
  <2> HIDE DEF absent
  <2> QED
    BY <1>2, <2>1, FreeSlotType
<1> HIDE DEF sweep, loaded
<1>6. /\ at \in [Slots -> Places] /\ made \in [Slots -> Contents] /\ overdue \subseteq pending
      /\ pending \subseteq Names
  BY DEF CellTypeOK, Contents
<1>7. /\ places \in [Slots -> Places]
      /\ \A s \in Slots : places[s] = at[s] \/ (at[s] \in InSnapshot /\ places[s] = "leaving")
  BY DEF Dooming
<1>8. at' = [s \in Slots |-> IF s \in loaded THEN "coming"
                             ELSE IF s \in sweep THEN "leaving" ELSE places[s]]
  BY <1>2 DEF Move
<1>9. at' \in [Slots -> Places] /\ \A s \in Slots : at'[s] \in InSnapshot <=> at[s] \in InSnapshot
  <2>1. ASSUME NEW s \in Slots
        PROVE  at'[s] \in Places /\ (at'[s] \in InSnapshot <=> at[s] \in InSnapshot)
    BY <1>4, <1>5, <1>7, <1>8 DEF Places, InSnapshot
  <2> QED
    BY <1>8, <2>1
<1>10. made' \in [Slots -> Contents]
  <2>1. ASSUME NEW s \in loaded PROVE Rendered(l.mixes, NameOf(s)) \in Contents
    BY <1>5, RenderedType
  <2> QED
    BY <1>2, <1>6, <2>1
<1>11. requested' \subseteq Names /\ pending' \subseteq Names /\ overdue' \subseteq pending'
  <2> HIDE DEF absent
  <2> QED
    BY <1>2, <1>3, <1>6 DEF AskedAgain
<1>12. \A n \in WantedNames(l) : InGraph(n) \/ n \in pending'
  BY <1>2
<1>13. Spared(l, places, at')
  <2> SUFFICES ASSUME NEW n \in WantedNames(l), InGraph(n), places[snapshot[n][1]] = "up",
                      made[snapshot[n][1]] = Rendered(l.mixes, n)
               PROVE  at'[snapshot[n][1]] = "up"
    BY DEF Spared
  <2>1. snapshot[n][1] \in Slots
    BY <1>3, Snapshot DEF Announced
  <2>2. snapshot[n][1] \notin sweep /\ snapshot[n][1] \notin loaded
    BY <1>4, <1>5
  <2> QED
    BY <1>8, <2>1, <2>2
<1> QED
  BY <1>2, <1>9, <1>10, <1>11, <1>12, <1>13
-----------------------------------------------------------------------------
(* The start                                                               *)

LEMMA InitCellInv == CellInit => CellInv
<1> SUFFICES ASSUME CellInit PROVE CellInv
  OBVIOUS
<1>1. PICK start \in Starts :
        LET order == start[2] IN
        /\ layout = [channels |-> ChannelSlugs, mixes |-> start[1]]
        /\ at = [s \in Slots |-> IF s \in Standing(order) THEN "up" ELSE "free"]
        /\ made = [s \in Slots |->
                     IF s \in Standing(order) THEN Rendered(order, NameOf(s)) ELSE <<>>]
        /\ snapshot = [n \in Names |-> IF <<n, 1>> \in Standing(order) THEN <<(<<n, 1>>)>> ELSE <<>>]
  BY DEF CellInit
<1> DEFINE order == start[2]
           older == [channels |-> ChannelSlugs, mixes |-> order]
<1>2. start[1] \in Orders /\ order \in Orders
  BY CellGraphAssumption DEF CellGraphAssumption
<1>3. layout \in Layouts /\ older \in Layouts
  BY <1>1, <1>2, CellGraphAssumption DEF CellGraphAssumption, Layouts
<1>4. Standing(order) = {<<n, 1>> : n \in WantedNames(older)}
  BY DEF Standing
<1> HIDE DEF older
<1>5. WantedNames(older) \subseteq Names
  BY <1>3, WantedIsNamed
<1>6. \A n \in Names : <<n, 1>> \in Standing(order) <=> n \in WantedNames(older)
  BY <1>4
<1>7. at \in [Slots -> Places]
  BY <1>1 DEF Places
<1>8. made \in [Slots -> Contents]
  <2>1. ASSUME NEW s \in Slots, s \in Standing(order) PROVE Rendered(order, NameOf(s)) \in Contents
    <3>1. NameOf(s) \in WantedNames(older)
      BY <1>4, <2>1 DEF NameOf
    <3>2. older.mixes = order
      BY DEF older
    <3> QED
      BY <1>3, <3>1, <3>2, RenderedType
  <2>2. <<>> \in Contents
    BY DEF Contents
  <2> QED
    BY <1>1, <2>1, <2>2
<1>9. snapshot \in [Names -> Seq(Slots)]
      /\ \A n \in Names : Members(snapshot[n]) = Announced(n) /\ IsInjective(snapshot[n])
  <2>1. ASSUME NEW n \in Names
        PROVE  /\ snapshot[n] \in Seq(Slots) /\ IsInjective(snapshot[n])
               /\ Members(snapshot[n]) = Announced(n)
    <3>1. 1 \in 1..PerName
      BY CellGraphAssumption DEF CellGraphAssumption
    <3>2. <<n, 1>> \in Slots
      BY <3>1 DEF Slots
    <3>3. Announced(n) = {s \in {<<n, 1>>} : s \in Standing(order)}
      <4>1. ASSUME NEW s \in Announced(n) PROVE s = <<n, 1>> /\ s \in Standing(order)
        <5>1. s \in Standing(order) /\ NameOf(s) = n
          BY <1>1 DEF Announced
        <5> QED
          BY <1>4, <5>1 DEF NameOf
      <4>2. <<n, 1>> \in Standing(order) => <<n, 1>> \in Announced(n)
        BY <1>1, <3>2 DEF Announced, NameOf
      <4> QED
        BY <4>1, <4>2
    <3>4. CASE <<n, 1>> \in Standing(order)
      <4>1. snapshot[n] = <<(<<n, 1>>)>>
        BY <1>1, <3>4
      <4> DEFINE x == <<n, 1>>
      <4>2. Announced(n) = {x} /\ x \in Slots
        BY <3>2, <3>3, <3>4
      <4> HIDE DEF x
      <4>3. snapshot[n] = <<x>>
        BY <4>1 DEF x
      <4> QED
        BY <4>2, <4>3 DEF IsInjective, Members
    <3>5. CASE <<n, 1>> \notin Standing(order)
      <4>1. snapshot[n] = <<>>
        BY <1>1, <3>5
      <4> QED
        BY <3>3, <3>5, <4>1 DEF IsInjective, Members
    <3> QED
      BY <3>4, <3>5
  <2>2. snapshot = [n \in Names |-> snapshot[n]]
    BY <1>1
  <2> QED
    BY <2>1, <2>2
<1>10. CellTypeOK
  <2>1. /\ events \in Seq(Event) /\ overdue \subseteq pending /\ pending \cup requested \subseteq Names
        /\ ops \in 0..MaxOps /\ faults \in 0..MaxFaults
    BY CellGraphAssumption DEF CellInit, CellGraphAssumption
  <2> QED
    BY <1>3, <1>7, <1>8, <1>9, <2>1 DEF CellTypeOK, Layouts, Contents
<1> QED
  BY <1>10 DEF CellInv, NothingForgotten, CellInit
-----------------------------------------------------------------------------
(* The steps                                                               *)

\* The parts of CellTypeOK about the modules, the watcher's sets and the rest.
GraphOK ==
  /\ at \in [Slots -> Places] /\ made \in [Slots -> Contents]
  /\ snapshot \in [Names -> Seq(Slots)]
  /\ \A n \in Names : Members(snapshot[n]) = Announced(n) /\ IsInjective(snapshot[n])
Sets == overdue \subseteq pending /\ pending \subseteq Names /\ requested \subseteq Names
Counted == ops \in 0..MaxOps /\ faults \in 0..MaxFaults

LEMMA Parts ==
  CellTypeOK <=> layout \in Layouts /\ GraphOK /\ events \in Seq(Event) /\ Sets /\ Counted
BY DEF CellTypeOK, GraphOK, Sets, Counted, Layouts, Contents

LEMMA PartsNext ==
  CellTypeOK' <=> layout' \in Layouts /\ GraphOK' /\ events' \in Seq(Event) /\ Sets' /\ Counted'
BY DEF CellTypeOK, GraphOK, Sets, Counted, Layouts, Contents, Announced, Event

\* Where nothing is announced and nothing vanishes the snapshot stays in order.
LEMMA SnapshotKept ==
  ASSUME CellTypeOK, snapshot' = snapshot, at' \in [Slots -> Places], made' \in [Slots -> Contents],
         \A s \in Slots : at'[s] \in InSnapshot <=> at[s] \in InSnapshot
  PROVE  GraphOK'
<1>1. \A n \in Names : Announced(n)' = Announced(n)
  BY DEF Announced, InSnapshot
<1> QED
  BY <1>1 DEF CellTypeOK, GraphOK

LEMMA Posted ==
  ASSUME NEW q \in Seq(Event), NEW type \in {"added", "removed", "recheck"},
         NEW n \in Names \cup {NoName}
  PROVE  /\ Post(q, type, n) \in Seq(Event)
         /\ LooksAgain(q) => LooksAgain(Post(q, type, n))
         /\ type # "added" => LooksAgain(Post(q, type, n))
<1> DEFINE e == [type |-> type, name |-> n]
           r == Post(q, type, n)
<1>1. e \in Event /\ e.type = type
  BY DEF Event, NoName
<1>2. r = Append(q, e)
  BY DEF Post
<1> HIDE DEF e, r
<1>3. /\ r \in Seq(Event) /\ Len(r) = Len(q) + 1 /\ Len(q) \in Nat
      /\ \A i \in 1..Len(q) : i \in 1..Len(r) /\ r[i] = q[i]
      /\ r[Len(q) + 1] = e /\ Len(q) + 1 \in 1..Len(r)
  BY <1>1, <1>2
<1>4. LooksAgain(q) => LooksAgain(r)
  BY <1>3 DEF LooksAgain
<1>5. type # "added" => LooksAgain(r)
  BY <1>1, <1>3 DEF LooksAgain
<1> QED
  BY <1>3, <1>4, <1>5 DEF r

\* A head that is no reason to look may go.
LEMMA Dropped ==
  ASSUME NEW q \in Seq(Event), q # <<>>
  PROVE  /\ Tail(q) \in Seq(Event) /\ Head(q) \in Event
         /\ Head(q).type = "added" /\ LooksAgain(q) => LooksAgain(Tail(q))
<1> DEFINE r == Tail(q)
<1>1. /\ r \in Seq(Event) /\ Len(r) = Len(q) - 1 /\ Len(q) \in Nat \ {0}
      /\ \A i \in 1..(Len(q) - 1) : r[i] = q[i + 1]
      /\ Head(q) = q[1] /\ Head(q) \in Event
  OBVIOUS
<1> HIDE DEF r
<1>2. ASSUME Head(q).type = "added", LooksAgain(q) PROVE LooksAgain(r)
  <2>1. PICK i \in 1..Len(q) : q[i].type \in {"removed", "recheck"}
    BY <1>2 DEF LooksAgain
  <2>2. i # 1
    BY <1>1, <1>2, <2>1
  <2>3. i - 1 \in 1..Len(r) /\ r[i - 1] = q[i]
    BY <1>1, <2>2
  <2> QED
    BY <2>1, <2>3 DEF LooksAgain
<1> QED
  BY <1>1, <1>2 DEF r

\* Nothing that was seen to is forgotten, where the layout wants no more than
\* before and the graph lists no less.
LEMMA SeenTo ==
  ASSUME NothingForgotten, WantedNames(layout') \subseteq WantedNames(layout),
         snapshot' = snapshot, pending' = pending, settling' = settling,
         LooksAgain(events) => LooksAgain(events')
  PROVE  NothingForgotten'
BY DEF NothingForgotten, InGraph, LooksAgain

\* A look at the graph, whatever was destroyed before it.
LEMMA LookStep ==
  ASSUME CellTypeOK, NEW places, Dooming(places), NEW asked \in SUBSET Names,
         NEW evs \in Seq(Event), layout' \in Layouts, Counted',
         EnsureCellGraph(layout', places, asked, evs)
  PROVE  CellInv'
<1> DEFINE l == layout'
<1>1. l \in Layouts /\ EnsureCellGraph(l, places, asked, evs)
  OBVIOUS
<1> HIDE DEF l
<1>2. /\ at' \in [Slots -> Places] /\ made' \in [Slots -> Contents]
      /\ \A s \in Slots : at'[s] \in InSnapshot <=> at[s] \in InSnapshot
      /\ requested' \subseteq Names /\ pending' \subseteq Names
      /\ overdue' \subseteq pending' /\ events' = evs /\ snapshot' = snapshot
      /\ \A n \in WantedNames(l) : InGraph(n) \/ n \in pending'
  BY <1>1, Look
<1>3. GraphOK'
  BY <1>2, SnapshotKept
<1>4. NothingForgotten'
  BY <1>2 DEF NothingForgotten, InGraph, l
<1> QED
  BY <1>2, <1>3, <1>4, PartsNext DEF CellInv, Sets

LEMMA AskedAgainType ==
  ASSUME CellTypeOK, NEW sweep
  PROVE  AskedAgain(requested, sweep) \in SUBSET Names
BY DEF CellTypeOK, AskedAgain

LEMMA ReconcileStep == ASSUME CellInv, Reconcile PROVE CellInv'
<1>1. layout' \in Layouts /\ Counted' /\ requested \in SUBSET Names /\ events \in Seq(Event)
  BY Parts DEF CellInv, Reconcile, cellCounters, Counted, Sets
<1>2. EnsureCellGraph(layout', at, requested, events)
  BY DEF Reconcile
<1> QED
  BY <1>1, <1>2, NothingDoomed, LookStep DEF CellInv

LEMMA CommandCounts ==
  ASSUME CellTypeOK, Command
  PROVE  Counted' /\ settling' = settling
BY CellGraphAssumption DEF CellGraphAssumption, CellTypeOK, Command, Counted

LEMMA OrdersFit ==
  ASSUME NEW order \in Orders, NEW channels \in SUBSET ChannelSlugs
  PROVE  [channels |-> channels, mixes |-> order] \in Layouts
BY CellGraphAssumption DEF CellGraphAssumption, Layouts

LEMMA RelayoutStep == ASSUME CellInv, NEW order \in Orders, Relayout(order) PROVE CellInv'
<1>1. layout' \in Layouts
  BY OrdersFit DEF Relayout
<1>2. Counted' /\ requested \in SUBSET Names /\ events \in Seq(Event)
  BY CommandCounts, Parts DEF CellInv, Relayout, Sets
<1>3. EnsureCellGraph(layout', at, requested, events)
  BY DEF Relayout
<1> QED
  BY <1>1, <1>2, <1>3, NothingDoomed, LookStep DEF CellInv

LEMMA RemoveMixLayout ==
  ASSUME CellTypeOK, NEW m \in Mixes, RemoveMix(m)
  PROVE  /\ layout' \in Layouts /\ Tap(m) \in Names /\ Tap(m) \notin WantedNames(layout')
<1>1. layout \in Layouts
  BY Parts
<1>2. /\ layout' = [channels |-> layout.channels, mixes |-> RemoveFirst(layout.mixes, m)]
      /\ layout.mixes \in Seq(Mixes) /\ IsInjective(layout.mixes)
  BY <1>1 DEF RemoveMix, Layouts
<1>3. /\ RemoveFirst(layout.mixes, m) \in Seq(Mixes) /\ IsInjective(RemoveFirst(layout.mixes, m))
      /\ Members(RemoveFirst(layout.mixes, m)) = Members(layout.mixes) \ {m}
  BY <1>2, Removed
<1>4. layout' \in Layouts /\ Members(layout'.mixes) = Members(layout.mixes) \ {m}
  BY <1>1, <1>2, <1>3 DEF Layouts
<1>5. Tap(m) \notin WantedNames(layout')
  BY <1>4 DEF WantedNames, Tap, ChainNode
<1> QED
  BY <1>4, <1>5 DEF Names

LEMMA RemoveMixStep == ASSUME CellInv, NEW m \in Mixes, RemoveMix(m) PROVE CellInv'
<1> DEFINE doomed == NodesOf({Tap(m)})
           places == Move(at, doomed, "leaving")
<1>1. layout' \in Layouts /\ {Tap(m)} \in SUBSET Names
  BY RemoveMixLayout DEF CellInv
<1>2. Counted' /\ events \in Seq(Event)
  BY CommandCounts, Parts DEF CellInv, RemoveMix
<1>3. Dooming(places)
  BY <1>1, DoomedNodes DEF CellInv
<1>4. AskedAgain(requested, doomed) \in SUBSET Names
  BY AskedAgainType DEF CellInv
<1>5. EnsureCellGraph(layout', places, AskedAgain(requested, doomed), events)
  BY DEF RemoveMix
<1> HIDE DEF doomed, places
<1> QED
  BY <1>1, <1>2, <1>3, <1>4, <1>5, LookStep DEF CellInv

LEMMA RemoveChannelStep == ASSUME CellInv, NEW c \in ChannelSlugs, RemoveChannel(c) PROVE CellInv'
<1> DEFINE gone == {ChainNode(c, b) : b \in Buses}
           doomed == NodesOf(gone)
           places == Move(at, doomed, "leaving")
<1>1. /\ layout' \in Layouts /\ layout'.mixes = layout.mixes
      /\ layout'.channels = layout.channels \ {c}
  BY Parts DEF CellInv, RemoveChannel, Layouts
<1>2. Counted' /\ settling' = settling
  BY CommandCounts DEF CellInv, RemoveChannel
<1>3. gone \in SUBSET Names
  BY DEF Names
<1> HIDE DEF gone
<1>4. Dooming(places)
  BY <1>3, DoomedNodes DEF CellInv
<1>5. /\ at' = places /\ requested' = AskedAgain(requested, doomed)
      /\ UNCHANGED <<made, snapshot, events, pending, overdue>>
  BY DEF RemoveChannel, watch, gone
<1>6. requested' \in SUBSET Names
  BY <1>5, AskedAgainType DEF CellInv
<1> HIDE DEF places, doomed
<1>7. /\ at' \in [Slots -> Places] /\ made' \in [Slots -> Contents]
      /\ \A s \in Slots : at'[s] \in InSnapshot <=> at[s] \in InSnapshot
  BY <1>4, <1>5, Parts DEF CellInv, Dooming, InSnapshot, GraphOK
<1>8. GraphOK'
  BY <1>5, <1>7, SnapshotKept DEF CellInv
<1>9. WantedNames(layout') \subseteq WantedNames(layout)
  BY <1>1 DEF WantedNames
<1>10. NothingForgotten'
  BY <1>2, <1>5, <1>9, SeenTo DEF CellInv
<1> QED
  BY <1>1, <1>2, <1>5, <1>6, <1>8, <1>10, Parts, PartsNext DEF CellInv, Sets

\* The order alone is no reason for other names.
LEMMA MoveMixStep == ASSUME CellInv, NEW order \in Orders, MoveMix(order) PROVE CellInv'
<1>1. layout \in Layouts /\ layout' = [channels |-> layout.channels, mixes |-> order]
  BY Parts DEF CellInv, MoveMix, Layouts
<1>2. layout' \in Layouts
  BY <1>1, OrdersFit DEF Layouts
<1>3. Counted' /\ settling' = settling
  BY CommandCounts DEF CellInv, MoveMix
<1>4. UNCHANGED <<at, made, snapshot, events, requested, pending, overdue>>
  BY DEF MoveMix, graph, watch
<1>5. GraphOK'
  BY <1>4, Parts, SnapshotKept DEF CellInv, GraphOK
<1>6. WantedNames(layout') \subseteq WantedNames(layout)
  <2>1. /\ layout.mixes \in Seq(Mixes) /\ IsInjective(layout.mixes)
        /\ layout'.mixes \in Seq(Mixes) /\ IsInjective(layout'.mixes)
    BY <1>1, <1>2 DEF Layouts
  <2>2. Members(layout'.mixes) = Members(layout.mixes) /\ layout'.channels = layout.channels
    BY <1>1 DEF MoveMix
  <2>3. /\ Len(layout'.mixes) <= Len(layout.mixes) /\ Len(layout.mixes) <= Len(layout'.mixes)
        /\ Len(layout.mixes) \in Nat /\ Len(layout'.mixes) \in Nat
    BY <2>1, <2>2, NoLonger
  <2>4. BusCount(layout'.mixes) = BusCount(layout.mixes)
    <3>1. Len(layout'.mixes) = Len(layout.mixes)
      BY <2>3
    <3> QED
      BY <3>1 DEF BusCount
  <2> QED
    BY <2>2, <2>4 DEF WantedNames
<1>7. NothingForgotten'
  BY <1>3, <1>4, <1>6, SeenTo DEF CellInv
<1> QED
  BY <1>2, <1>3, <1>4, <1>5, <1>7, Parts, PartsNext DEF CellInv, Sets

LEMMA RecheckStep == ASSUME CellInv, Recheck PROVE CellInv'
<1>1. layout' \in Layouts /\ Counted' /\ requested \in SUBSET Names /\ events \in Seq(Event)
  BY Parts DEF CellInv, Recheck, QtOnly, cellCounters, Counted, Sets
<1>2. EnsureCellGraph(layout', at, requested, Tail(events)) /\ events # <<>>
  BY DEF Recheck, QtOnly, Handles
<1>3. Tail(events) \in Seq(Event)
  BY <1>1, <1>2, Dropped
<1> QED
  BY <1>1, <1>2, <1>3, NothingDoomed, LookStep DEF CellInv

LEMMA OnNodeStep == ASSUME CellInv, OnNode PROVE CellInv'
<1>1. /\ UNCHANGED <<layout, settling, ops, faults, at, made, snapshot, pending, overdue>>
      /\ events' = Tail(events) /\ events # <<>> /\ Head(events).type = "added"
      /\ requested' = requested \ {Head(events).name}
  BY DEF OnNode, QtOnly, cellCounters, watch, Handles
<1>2. layout \in Layouts /\ GraphOK /\ events \in Seq(Event) /\ Sets /\ Counted
  BY Parts DEF CellInv
<1>3. GraphOK'
  BY <1>1, <1>2, SnapshotKept DEF CellInv, GraphOK
<1>4. events' \in Seq(Event) /\ (LooksAgain(events) => LooksAgain(events'))
  BY <1>1, <1>2, Dropped
<1>5. NothingForgotten'
  BY <1>1, <1>4, SeenTo DEF CellInv
<1> QED
  BY <1>1, <1>2, <1>3, <1>4, <1>5, PartsNext DEF CellInv, Sets, Counted

LEMMA OnNodeRemovedStep == ASSUME CellInv, OnNodeRemoved PROVE CellInv'
<1>1. /\ UNCHANGED <<layout, settling, ops, faults, at, made, snapshot, pending, overdue, requested>>
      /\ events' = Post(Tail(events), "recheck", NoName) /\ events # <<>>
  BY DEF OnNodeRemoved, QtOnly, cellCounters, watch, Handles
<1>2. layout \in Layouts /\ GraphOK /\ events \in Seq(Event) /\ Sets /\ Counted
  BY Parts DEF CellInv
<1>3. GraphOK'
  BY <1>1, <1>2, SnapshotKept DEF CellInv, GraphOK
<1>4. events' \in Seq(Event) /\ LooksAgain(events')
  <2>1. Tail(events) \in Seq(Event)
    BY <1>1, <1>2, Dropped
  <2> QED
    BY <1>1, <2>1, Posted
<1>5. NothingForgotten'
  BY <1>1, <1>4, SeenTo DEF CellInv
<1> QED
  BY <1>1, <1>2, <1>3, <1>4, <1>5, PartsNext DEF CellInv, Sets, Counted

LEMMA GracePassesStep == ASSUME CellInv, NEW n \in Names, GracePasses(n) PROVE CellInv'
<1>1. /\ UNCHANGED <<layout, settling, ops, at, made, snapshot, events, pending, requested>>
      /\ n \in pending /\ overdue' = overdue \cup {n}
      /\ faults' = faults \/ (faults < MaxFaults /\ faults' = faults + 1)
  BY DEF GracePasses, graph
<1>2. layout \in Layouts /\ GraphOK /\ events \in Seq(Event) /\ Sets /\ Counted
  BY Parts DEF CellInv
<1>3. GraphOK'
  BY <1>1, <1>2, SnapshotKept DEF CellInv, GraphOK
<1>4. Counted'
  BY <1>1, <1>2, CellGraphAssumption DEF Counted, CellGraphAssumption
<1>5. NothingForgotten'
  BY <1>1, SeenTo DEF CellInv
<1> QED
  BY <1>1, <1>2, <1>3, <1>4, <1>5, PartsNext DEF CellInv, Sets

\* The module of what is late was announced by nobody.
LEMMA CheckPendingEdgesStep == ASSUME CellInv, CheckPendingEdges PROVE CellInv'
<1> DEFINE arrived == {n \in pending : InGraph(n)}
           late == overdue \ arrived
           gone == UNION {OnTheWay(n) : n \in late}
<1>1. /\ pending' = pending \ (arrived \cup late) /\ overdue' = overdue \ (arrived \cup late)
      /\ at' = Move(at, gone, "unloaded") /\ requested' = requested \ late
      /\ events' = IF late = {} THEN events ELSE Post(events, "recheck", NoName)
      /\ UNCHANGED <<made, snapshot, layout, settling, ops, faults>>
  BY DEF CheckPendingEdges, QtOnly, cellCounters
<1>2. layout \in Layouts /\ GraphOK /\ events \in Seq(Event) /\ Sets /\ Counted
  BY Parts DEF CellInv
<1>3. \A s \in gone : s \in Slots /\ at[s] = "coming"
  BY DEF OnTheWay
<1>4. GraphOK'
  <2> HIDE DEF gone
  <2>1. at' \in [Slots -> Places] /\ \A s \in Slots : at'[s] \in InSnapshot <=> at[s] \in InSnapshot
    BY <1>1, <1>2, <1>3 DEF GraphOK, Move, Places, InSnapshot
  <2> QED
    BY <1>1, <1>2, <2>1, SnapshotKept DEF CellInv, GraphOK
<1>5. /\ events' \in Seq(Event) /\ (LooksAgain(events) => LooksAgain(events'))
      /\ late # {} => LooksAgain(events')
  <2> HIDE DEF late
  <2> QED
    BY <1>1, <1>2, Posted
<1>6. NothingForgotten'
  <2> SUFFICES ASSUME NEW n \in WantedNames(layout)
               PROVE  InGraph(n)' \/ n \in pending' \/ settling' \/ LooksAgain(events)'
    BY <1>1 DEF NothingForgotten
  <2>1. InGraph(n)' <=> InGraph(n)
    BY <1>1 DEF InGraph
  <2>2. LooksAgain(events)' <=> LooksAgain(events')
    BY DEF LooksAgain
  <2> HIDE DEF gone
  <2> QED
    BY <1>1, <1>5, <2>1, <2>2 DEF CellInv, NothingForgotten
<1> HIDE DEF late, arrived, gone
<1>7. Sets' /\ Counted'
  BY <1>1, <1>2 DEF Sets, Counted
<1> QED
  BY <1>1, <1>2, <1>4, <1>5, <1>6, <1>7, PartsNext DEF CellInv
-----------------------------------------------------------------------------
(* PipeWire                                                                *)

LEMMA NodeAnnouncedStep == ASSUME CellInv, NEW s \in Slots, NodeAnnounced(s) PROVE CellInv'
<1> DEFINE k == NameOf(s)
<1>1. /\ UNCHANGED <<layout, requested, pending, overdue, settling, ops, made, faults>>
      /\ snapshot' = [snapshot EXCEPT ![k] = Append(@, s)]
      /\ events' = Post(events, "added", k)
  BY DEF NodeAnnounced, GraphOnly, watch
<1>2. PICK to \in InSnapshot : at' = Move(at, {s}, to) /\ at[s] \notin InSnapshot
  BY DEF NodeAnnounced, InSnapshot
<1>3. layout \in Layouts /\ GraphOK /\ events \in Seq(Event) /\ Sets /\ Counted
  BY Parts DEF CellInv
<1>4. k \in Names
  BY SlotNames
<1> HIDE DEF k
<1>5. /\ at' \in [Slots -> Places] /\ at'[s] \in InSnapshot
      /\ \A x \in Slots : x # s => at'[x] = at[x]
  BY <1>2, <1>3 DEF Move, GraphOK, Places, InSnapshot
<1>6. /\ snapshot[k] \in Seq(Slots) /\ IsInjective(snapshot[k])
      /\ Members(snapshot[k]) = Announced(k) /\ s \notin Members(snapshot[k])
  BY <1>2, <1>3, <1>4 DEF GraphOK, Announced, InSnapshot
<1>7. /\ Append(snapshot[k], s) \in Seq(Slots) /\ IsInjective(Append(snapshot[k], s))
      /\ Members(Append(snapshot[k], s)) = Members(snapshot[k]) \cup {s}
  BY <1>6, AppendedTo
<1>8. /\ snapshot' \in [Names -> Seq(Slots)] /\ snapshot'[k] = Append(snapshot[k], s)
      /\ \A n \in Names : n # k => snapshot'[n] = snapshot[n]
  BY <1>1, <1>3, <1>4, <1>7 DEF GraphOK
<1>9. ASSUME NEW n \in Names
      PROVE  Members(snapshot'[n]) = Announced(n)' /\ IsInjective(snapshot'[n])
  <2>1. CASE n = k
    <3>1. Announced(k)' = Announced(k) \cup {s}
      BY <1>5 DEF Announced, InSnapshot, k
    <3> QED
      BY <1>6, <1>7, <1>8, <2>1, <3>1
  <2>2. CASE n # k
    <3>1. Announced(n)' = Announced(n)
      BY <1>5, <2>2 DEF Announced, InSnapshot, k
    <3> QED
      BY <1>3, <1>8, <2>2, <3>1 DEF GraphOK
  <2> QED
    BY <2>1, <2>2
<1>10. GraphOK'
  BY <1>1, <1>3, <1>5, <1>8, <1>9 DEF GraphOK
<1>11. events' \in Seq(Event) /\ (LooksAgain(events) => LooksAgain(events'))
  BY <1>1, <1>3, <1>4, Posted
<1>12. NothingForgotten'
  <2>1. \A n \in Names : snapshot[n] # <<>> => snapshot'[n] # <<>>
    BY <1>6, <1>8
  <2>2. WantedNames(layout) \subseteq Names
    BY <1>3, WantedIsNamed
  <2> QED
    BY <1>1, <1>11, <2>1, <2>2 DEF CellInv, NothingForgotten, InGraph, LooksAgain
<1> QED
  BY <1>1, <1>3, <1>10, <1>11, <1>12, PartsNext DEF CellInv, Sets, Counted

LEMMA NodeVanishesStep == ASSUME CellInv, NEW s \in Slots, NodeVanishes(s) PROVE CellInv'
<1> DEFINE k == NameOf(s)
<1>1. /\ UNCHANGED <<layout, requested, pending, overdue, settling, ops, faults>>
      /\ at' = Move(at, {s}, "free") /\ made' = [made EXCEPT ![s] = <<>>]
      /\ snapshot' = [snapshot EXCEPT ![k] = RemoveFirst(@, s)]
      /\ events' = Post(events, "removed", k)
  BY DEF NodeVanishes, GraphOnly, watch, Vanish
<1>2. layout \in Layouts /\ GraphOK /\ events \in Seq(Event) /\ Sets /\ Counted
  BY Parts DEF CellInv
<1>3. k \in Names
  BY SlotNames
<1> HIDE DEF k
<1>4. /\ at' \in [Slots -> Places] /\ at'[s] \notin InSnapshot
      /\ \A x \in Slots : x # s => at'[x] = at[x]
  BY <1>1, <1>2 DEF Move, GraphOK, Places, InSnapshot
<1>5. made' \in [Slots -> Contents]
  BY <1>1, <1>2 DEF GraphOK, Contents
<1>6. /\ RemoveFirst(snapshot[k], s) \in Seq(Slots) /\ IsInjective(RemoveFirst(snapshot[k], s))
      /\ Members(RemoveFirst(snapshot[k], s)) = Announced(k) \ {s}
  BY <1>2, <1>3, Removed DEF GraphOK
<1>7. /\ snapshot' \in [Names -> Seq(Slots)] /\ snapshot'[k] = RemoveFirst(snapshot[k], s)
      /\ \A n \in Names : n # k => snapshot'[n] = snapshot[n]
  BY <1>1, <1>2, <1>3, <1>6 DEF GraphOK
<1>8. ASSUME NEW n \in Names
      PROVE  Members(snapshot'[n]) = Announced(n)' /\ IsInjective(snapshot'[n])
  <2>1. CASE n = k
    <3>1. Announced(k)' = Announced(k) \ {s}
      BY <1>4 DEF Announced, InSnapshot, k
    <3> QED
      BY <1>6, <1>7, <2>1, <3>1
  <2>2. CASE n # k
    <3>1. Announced(n)' = Announced(n)
      BY <1>4, <2>2 DEF Announced, InSnapshot, k
    <3> QED
      BY <1>2, <1>7, <2>2, <3>1 DEF GraphOK
  <2> QED
    BY <2>1, <2>2
<1>9. GraphOK'
  BY <1>4, <1>5, <1>7, <1>8 DEF GraphOK
<1>10. events' \in Seq(Event) /\ LooksAgain(events')
  BY <1>1, <1>2, <1>3, Posted
<1>11. NothingForgotten'
  BY <1>1, <1>10 DEF NothingForgotten, LooksAgain
<1> QED
  BY <1>1, <1>2, <1>9, <1>10, <1>11, PartsNext DEF CellInv, Sets, Counted

LEMMA ModuleVanishesStep == ASSUME CellInv, NEW s \in Slots, ModuleVanishes(s) PROVE CellInv'
<1>1. /\ UNCHANGED <<layout, requested, pending, overdue, settling, ops, faults, snapshot, events>>
      /\ at' = Move(at, {s}, "free") /\ made' = [made EXCEPT ![s] = <<>>] /\ at[s] = "unloaded"
  BY DEF ModuleVanishes, GraphOnly, watch, Vanish
<1>2. layout \in Layouts /\ GraphOK /\ events \in Seq(Event) /\ Sets /\ Counted
  BY Parts DEF CellInv
<1>3. /\ at' \in [Slots -> Places] /\ made' \in [Slots -> Contents]
      /\ \A x \in Slots : at'[x] \in InSnapshot <=> at[x] \in InSnapshot
  BY <1>1, <1>2 DEF Move, GraphOK, Places, InSnapshot, Contents
<1>4. GraphOK'
  BY <1>1, <1>3, SnapshotKept DEF CellInv
<1>5. NothingForgotten'
  BY <1>1, SeenTo DEF CellInv
<1> QED
  BY <1>1, <1>2, <1>4, <1>5, PartsNext DEF CellInv, Sets, Counted

LEMMA ModuleDiesStep == ASSUME CellInv, NEW s \in Slots, ModuleDies(s) PROVE CellInv'
<1>1. /\ UNCHANGED <<layout, requested, pending, overdue, settling, ops, made, snapshot, events>>
      /\ at' = Move(at, {s}, "leaving") /\ at[s] = "up"
      /\ faults < MaxFaults /\ faults' = faults + 1
  BY DEF ModuleDies, GraphOnly, watch
<1>2. layout \in Layouts /\ GraphOK /\ events \in Seq(Event) /\ Sets /\ Counted
  BY Parts DEF CellInv
<1>3. /\ at' \in [Slots -> Places]
      /\ \A x \in Slots : at'[x] \in InSnapshot <=> at[x] \in InSnapshot
  BY <1>1, <1>2 DEF Move, GraphOK, Places, InSnapshot
<1>4. GraphOK'
  BY <1>1, <1>2, <1>3, SnapshotKept DEF CellInv, GraphOK
<1>5. NothingForgotten'
  BY <1>1, SeenTo DEF CellInv
<1>6. Counted'
  BY <1>1, <1>2, CellGraphAssumption DEF Counted, CellGraphAssumption
<1> QED
  BY <1>1, <1>2, <1>4, <1>5, <1>6, PartsNext DEF CellInv, Sets
-----------------------------------------------------------------------------
(* The invariant                                                           *)

LEMMA NextCellInv == CellInv /\ [CellNext]_cellVars => CellInv'
<1> SUFFICES ASSUME CellInv, [CellNext]_cellVars PROVE CellInv'
  OBVIOUS
<1>1. CASE UNCHANGED cellVars
  <2>1. UNCHANGED <<layout, requested, pending, overdue, settling, ops, faults, at, made, snapshot, events>>
    BY <1>1 DEF cellVars, graph, watch, cellCounters
  <2>2. layout \in Layouts /\ GraphOK /\ events \in Seq(Event) /\ Sets /\ Counted
    BY Parts DEF CellInv
  <2>3. GraphOK'
    BY <2>1, <2>2, SnapshotKept DEF CellInv, GraphOK
  <2>4. NothingForgotten'
    BY <2>1, SeenTo DEF CellInv
  <2> QED
    BY <2>1, <2>2, <2>3, <2>4, PartsNext DEF CellInv, Sets, Counted
<1>2. CASE CellNext
  <2>1. CASE \E order \in Orders : Relayout(order) \/ MoveMix(order)
    BY <2>1, RelayoutStep, MoveMixStep
  <2>2. CASE \E m \in Mixes : RemoveMix(m)
    BY <2>2, RemoveMixStep
  <2>3. CASE \E c \in ChannelSlugs : RemoveChannel(c)
    BY <2>3, RemoveChannelStep
  <2>4. CASE HandleEvent \/ Reconcile \/ CheckPendingEdges
    BY <2>4, RecheckStep, OnNodeStep, OnNodeRemovedStep, ReconcileStep, CheckPendingEdgesStep
       DEF HandleEvent
  <2>5. CASE \E n \in Names : GracePasses(n)
    BY <2>5, GracePassesStep
  <2>6. CASE \E s \in Slots : NodeAnnounced(s) \/ NodeVanishes(s) \/ ModuleVanishes(s) \/ ModuleDies(s)
    BY <2>6, NodeAnnouncedStep, NodeVanishesStep, ModuleVanishesStep, ModuleDiesStep
  <2> QED
    BY <1>2, <2>1, <2>2, <2>3, <2>4, <2>5, <2>6 DEF CellNext
<1> QED
  BY <1>1, <1>2

LEMMA CellInvariant == CellSpec => []CellInv
<1>1. CellInit => CellInv
  BY InitCellInv
<1>2. CellInv /\ [CellNext]_cellVars => CellInv'
  BY NextCellInv
<1> QED
  BY <1>1, <1>2, PTL DEF CellSpec

\* The state stays in its types: a node of the graph was made from an order of mixes or
\* from a cell, names are asked for once, and nothing is overdue that was not expected.
THEOREM CellTypeCorrect == CellSpec => []CellTypeOK
<1>1. CellInv => CellTypeOK
  BY DEF CellInv
<1> QED
  BY <1>1, CellInvariant, PTL

\* A node the layout wants and the graph does not list is expected under its grace period,
\* or an event that makes ensureCellGraph() look again is on its way.
THEOREM MissingIsSeenTo == CellSpec => []NothingForgotten
<1>1. CellInv => NothingForgotten
  BY DEF CellInv
<1> QED
  BY <1>1, CellInvariant, PTL
-----------------------------------------------------------------------------
(* What a look at the graph spares                                         *)

\* A step spares the first node of a wanted name.
Spares ==
  \A n \in WantedNames(layout') : InGraph(n) =>
    LET oldest == snapshot[n][1] IN
      at[oldest] = "up" /\ made[oldest] = Rendered(layout'.mixes, n) /\ faults' = faults
        => at'[oldest] = "up"

\* A look that was preceded by nothing, or by the end of nodes nobody wants.
LEMMA LookSpares ==
  ASSUME CellTypeOK, layout' \in Layouts, NEW places, Dooming(places), NEW asked \in SUBSET Names,
         NEW evs \in Seq(Event), EnsureCellGraph(layout', places, asked, evs),
         \A s \in Slots : NameOf(s) \in WantedNames(layout') => places[s] = at[s]
  PROVE  Spares
<1> DEFINE l == layout'
<1>1. l \in Layouts /\ EnsureCellGraph(l, places, asked, evs)
  OBVIOUS
<1> HIDE DEF l
<1>2. Spared(l, places, at')
  BY <1>1, Look
<1>3. WantedNames(l) \subseteq Names
  BY <1>1, WantedIsNamed
<1> SUFFICES ASSUME NEW n \in WantedNames(l), InGraph(n), at[snapshot[n][1]] = "up",
                    made[snapshot[n][1]] = Rendered(l.mixes, n)
             PROVE  at'[snapshot[n][1]] = "up"
  BY DEF Spares, l
<1>4. snapshot[n][1] \in Slots /\ NameOf(snapshot[n][1]) = n
  BY <1>3, Snapshot DEF Announced
<1>5. places[snapshot[n][1]] = "up"
  BY <1>4 DEF l
<1> QED
  BY <1>2, <1>5 DEF Spared

\* A step after which every node that was up, and whose name is wanted, still is.
LEMMA KeepsSpares ==
  ASSUME CellTypeOK, layout' \in Layouts,
         \A s \in Slots : at[s] = "up" /\ NameOf(s) \in WantedNames(layout') /\ faults' = faults =>
           at'[s] = "up"
  PROVE  Spares
<1> DEFINE l == layout'
<1>1. WantedNames(l) \subseteq Names
  <2> HIDE DEF l
  <2>1. l \in Layouts
    BY DEF l
  <2> QED
    BY <2>1, WantedIsNamed
<1>2. ASSUME NEW n \in WantedNames(l), InGraph(n)
      PROVE  snapshot[n][1] \in Slots /\ NameOf(snapshot[n][1]) = n
  BY <1>1, <1>2, Snapshot DEF Announced
<1> QED
  BY <1>2 DEF Spares

\* Only ModuleDies takes a node for no reason, and that is counted.
LEMMA NextSpares == CellInv /\ [CellNext]_cellVars => Spares
<1> SUFFICES ASSUME CellInv, [CellNext]_cellVars PROVE Spares
  OBVIOUS
<1>1. CellInv'
  BY NextCellInv
<1>2. layout' \in Layouts /\ GraphOK /\ events \in Seq(Event) /\ Sets
  BY <1>1, Parts, PartsNext DEF CellInv
<1>3. at \in [Slots -> Places]
  BY <1>2 DEF GraphOK
<1>4. CASE UNCHANGED cellVars
  <2>1. at' = at
    BY <1>4 DEF cellVars, graph
  <2> QED
    BY <1>2, <2>1, KeepsSpares DEF CellInv
<1>5. CASE \E order \in Orders : Relayout(order)
  <2>1. EnsureCellGraph(layout', at, requested, events)
    BY <1>5 DEF Relayout
  <2> QED
    BY <1>2, <2>1, NothingDoomed, LookSpares DEF CellInv, Sets
<1>6. CASE \E order \in Orders : MoveMix(order)
  <2>1. at' = at
    BY <1>6 DEF MoveMix, graph
  <2> QED
    BY <1>2, <2>1, KeepsSpares DEF CellInv
<1>7. ASSUME NEW m \in Mixes, RemoveMix(m) PROVE Spares
  <2> DEFINE doomed == NodesOf({Tap(m)})
             places == Move(at, doomed, "leaving")
  <2>1. Tap(m) \in Names /\ Tap(m) \notin WantedNames(layout')
    BY <1>7, RemoveMixLayout DEF CellInv
  <2>2. Dooming(places) /\ \A s \in Slots : NameOf(s) \notin {Tap(m)} => places[s] = at[s]
    BY <2>1, DoomedNodes DEF CellInv
  <2>3. AskedAgain(requested, doomed) \in SUBSET Names
    BY AskedAgainType DEF CellInv
  <2>4. EnsureCellGraph(layout', places, AskedAgain(requested, doomed), events)
    BY <1>7 DEF RemoveMix
  <2> HIDE DEF doomed, places
  <2> QED
    BY <1>2, <2>1, <2>2, <2>3, <2>4, LookSpares DEF CellInv
<1>8. ASSUME NEW c \in ChannelSlugs, RemoveChannel(c) PROVE Spares
  <2> DEFINE gone == {ChainNode(c, b) : b \in Buses}
  <2>1. at' = Move(at, NodesOf(gone), "leaving")
    BY <1>8 DEF RemoveChannel
  <2>2. gone \in SUBSET Names
    BY DEF Names
  <2>3. gone \cap WantedNames(layout') = {}
    <3>1. c \notin layout'.channels
      BY <1>8, Parts DEF CellInv, RemoveChannel, Layouts
    <3> QED
      BY <3>1 DEF WantedNames, ChainNode, Tap
  <2> HIDE DEF gone
  <2>4. \A s \in Slots : NameOf(s) \notin gone => at'[s] = at[s]
    BY <2>1, <2>2, DoomedNodes DEF CellInv
  <2> QED
    BY <1>2, <2>3, <2>4, KeepsSpares DEF CellInv
<1>9. CASE Reconcile
  <2>1. EnsureCellGraph(layout', at, requested, events)
    BY <1>9 DEF Reconcile
  <2> QED
    BY <1>2, <2>1, NothingDoomed, LookSpares DEF CellInv, Sets
<1>10. CASE Recheck
  <2>1. EnsureCellGraph(layout', at, requested, Tail(events)) /\ events # <<>>
    BY <1>10 DEF Recheck, QtOnly, Handles
  <2>2. Tail(events) \in Seq(Event)
    BY <1>2, <2>1, Dropped
  <2> QED
    BY <1>2, <2>1, <2>2, NothingDoomed, LookSpares DEF CellInv, Sets
<1>11. CASE OnNode \/ OnNodeRemoved \/ \E n \in Names : GracePasses(n)
  <2>1. at' = at
    BY <1>11 DEF OnNode, OnNodeRemoved, GracePasses, graph
  <2> QED
    BY <1>2, <2>1, KeepsSpares DEF CellInv
<1>12. CASE CheckPendingEdges
  <2>1. PICK gone \in SUBSET {s \in Slots : at[s] = "coming"} : at' = Move(at, gone, "unloaded")
    <3> DEFINE late == overdue \ {n \in pending : InGraph(n)}
               gone == UNION {OnTheWay(n) : n \in late}
    <3>1. at' = Move(at, gone, "unloaded")
      BY <1>12 DEF CheckPendingEdges
    <3>2. gone \in SUBSET {s \in Slots : at[s] = "coming"}
      BY DEF OnTheWay
    <3> QED
      BY <3>1, <3>2
  <2>2. \A s \in Slots : at[s] = "up" => at'[s] = "up"
    BY <2>1 DEF Move
  <2> QED
    BY <1>2, <2>2, KeepsSpares DEF CellInv
<1>13. ASSUME NEW s \in Slots,
              NodeAnnounced(s) \/ NodeVanishes(s) \/ ModuleVanishes(s) \/ ModuleDies(s)
       PROVE  Spares
  <2>1. CASE ModuleDies(s)
    <3>1. faults' # faults
      BY <1>1, <2>1, Parts, PartsNext, CellGraphAssumption
         DEF CellInv, Counted, CellGraphAssumption, ModuleDies
    <3> QED
      BY <3>1 DEF Spares
  <2>2. CASE NodeAnnounced(s) \/ NodeVanishes(s) \/ ModuleVanishes(s)
    <3>1. at[s] # "up" /\ \E to \in Places : at' = Move(at, {s}, to)
      BY <2>2 DEF NodeAnnounced, NodeVanishes, ModuleVanishes, Vanish, Places
    <3>2. \A x \in Slots : at[x] = "up" => at'[x] = "up"
      BY <3>1 DEF Move
    <3> QED
      BY <1>2, <3>2, KeepsSpares DEF CellInv
  <2> QED
    BY <1>13, <2>1, <2>2
<1> QED
  BY <1>4, <1>5, <1>6, <1>7, <1>8, <1>9, <1>10, <1>11, <1>12, <1>13 DEF CellNext, HandleEvent

\* What ensureCellGraph() destroys when it sweeps is never the one node of a cell that is
\* wanted and made as the layout has it.
THEOREM LooksSpareTheFirst == CellSpec => SweepSpares
<1>1. CellInv /\ [CellNext]_cellVars => [Spares]_cellVars
  BY NextSpares
<1>2. SweepSpares <=> [][Spares]_cellVars
  BY PTL DEF SweepSpares, Spares
<1> QED
  BY <1>1, <1>2, CellInvariant, PTL DEF CellSpec

=============================================================================
