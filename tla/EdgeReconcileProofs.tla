-------------------------- MODULE EdgeReconcileProofs --------------------------
(***************************************************************************)
(* What holds of EdgeReconcile for every number of edges, modules,         *)
(* commands, faults and restarts of PipeWire: the state stays in its       *)
(* types, and an edge of the layout that is missing is on somebody's list. *)
(*                                                                         *)
(* The second is not inductive.  When the Qt thread handles the removal of *)
(* a node it looks again only if it had handled its arrival, so the        *)
(* invariant must follow every node from the snapshot through the event    *)
(* queue to m_idToName: an arrival is queued before its removal, neither   *)
(* twice, and nothing about a node behind the loss of PipeWire.            *)
(***************************************************************************)
EXTENDS EdgeReconcile, FiniteSetTheorems, TLAPS

\* Where a module stands whose node was announced and has not been forgotten.
Here == {"up", "leaving", "left"}

Added(s) == [type |-> "added", slot |-> s]
Removed(s) == [type |-> "removed", slot |-> s]
NodeEvents == {"added", "removed"}

\* The events about nodes, given where the modules stand and what is known.
AddedOK(q, a, k) ==
  \A i \in 1..Len(q) : q[i].type = "added" =>
    q[i].slot \in Slots /\ a[q[i].slot] \in Here /\ q[i].slot \notin k
RemovedOK(q, a, k) ==
  \A i \in 1..Len(q) : q[i].type = "removed" =>
    /\ q[i].slot \in Slots /\ a[q[i].slot] = "left"
    /\ q[i].slot \in k \/ \E j \in 1..Len(q) : j < i /\ q[j] = Added(q[i].slot)
Once(q) ==
  \A i, j \in 1..Len(q) : q[i].type \in NodeEvents /\ q[i] = q[j] => i = j
LossIsLast(q) ==
  \A i, j \in 1..Len(q) : q[i].type = "disconnected" /\ i < j => q[j].type \notin NodeEvents
KnownOK(q, a, k) ==
  /\ \A s \in k : a[s] \in Here
  /\ \A s \in Slots : a[s] \in {"up", "leaving"} =>
       s \in k \/ \E i \in 1..Len(q) : q[i] = Added(s)
LossOK(q, up) == \A i \in 1..Len(q) : q[i].type = "disconnected" => ~up

QueueOK(q, a, k) ==
  AddedOK(q, a, k) /\ RemovedOK(q, a, k) /\ Once(q) /\ LossIsLast(q) /\ KnownOK(q, a, k)

\* The invariant.
IInv == TypeOK /\ QueueOK(events, at, known) /\ LossOK(events, server) /\ NothingForgotten
-----------------------------------------------------------------------------
(* The queue *)

LEMMA AppendProperties ==
  ASSUME NEW q \in Seq(Event), NEW e \in Event
  PROVE  /\ Append(q, e) \in Seq(Event) /\ Len(q) \in Nat /\ Len(Append(q, e)) = Len(q) + 1
         /\ \A i \in 1..Len(q) : Append(q, e)[i] = q[i]
         /\ Append(q, e)[Len(q) + 1] = e
OBVIOUS

LEMMA TailProperties ==
  ASSUME NEW q \in Seq(Event), q # <<>>
  PROVE  /\ Tail(q) \in Seq(Event) /\ Len(q) \in Nat \ {0} /\ Len(Tail(q)) = Len(q) - 1
         /\ \A i \in 1..(Len(q) - 1) : Tail(q)[i] = q[i + 1]
         /\ Head(q) = q[1] /\ Head(q) \in Event
OBVIOUS

\* An event that is not about a node goes to the end of any queue.
LEMMA PostOther ==
  ASSUME NEW q \in Seq(Event), NEW a, NEW k, NEW e \in Event, QueueOK(q, a, k),
         e.type \notin NodeEvents
  PROVE  QueueOK(Append(q, e), a, k)
<1> DEFINE r == Append(q, e)
<1>1. /\ Len(q) \in Nat /\ Len(r) = Len(q) + 1
      /\ \A i \in 1..Len(q) : r[i] = q[i]
      /\ r[Len(q) + 1] = e
  BY AppendProperties
<1> HIDE DEF r
<1>2. \A i \in 1..Len(r) : r[i].type \in NodeEvents => i \in 1..Len(q) /\ r[i] = q[i]
  BY <1>1
<1>3. \A i \in 1..Len(q) : i \in 1..Len(r)
  BY <1>1
<1>4. AddedOK(r, a, k)
  BY <1>2 DEF QueueOK, AddedOK, NodeEvents
<1>5. RemovedOK(r, a, k)
  BY <1>1, <1>2, <1>3 DEF QueueOK, RemovedOK, NodeEvents
<1>6. Once(r)
  BY <1>2 DEF QueueOK, Once
<1>7. LossIsLast(r)
  <2> SUFFICES ASSUME NEW i \in 1..Len(r), NEW j \in 1..Len(r), r[i].type = "disconnected",
                      i < j, r[j].type \in NodeEvents
               PROVE  FALSE
    BY DEF LossIsLast
  <2>1. j \in 1..Len(q) /\ i \in 1..Len(q)
    BY <1>1, <1>2
  <2> QED
    BY <1>1, <2>1 DEF QueueOK, LossIsLast
<1>8. KnownOK(r, a, k)
  BY <1>1, <1>3 DEF QueueOK, KnownOK
<1> QED
  BY <1>4, <1>5, <1>6, <1>7, <1>8 DEF QueueOK, r

\* Neither of the two parts about the order of events minds the loss of the head.
LEMMA TailOrder ==
  ASSUME NEW q \in Seq(Event), q # <<>>, Once(q), LossIsLast(q)
  PROVE  Once(Tail(q)) /\ LossIsLast(Tail(q))
<1> DEFINE r == Tail(q)
<1>1. \A i \in 1..Len(r) : i \in Nat /\ i + 1 \in 1..Len(q) /\ r[i] = q[i + 1]
  BY TailProperties
<1> HIDE DEF r
<1>2. Once(r)
  <2> SUFFICES ASSUME NEW i \in 1..Len(r), NEW j \in 1..Len(r), r[i].type \in NodeEvents,
                      r[i] = r[j]
               PROVE  i = j
    BY DEF Once
  <2>1. q[i + 1].type \in NodeEvents /\ q[i + 1] = q[j + 1]
    BY <1>1
  <2>2. i + 1 = j + 1
    BY <1>1, <2>1 DEF Once
  <2> QED
    BY <1>1, <2>2
<1>3. LossIsLast(r)
  <2> SUFFICES ASSUME NEW i \in 1..Len(r), NEW j \in 1..Len(r), r[i].type = "disconnected", i < j
               PROVE  r[j].type \notin NodeEvents
    BY DEF LossIsLast
  <2>1. q[i + 1].type = "disconnected" /\ i + 1 < j + 1
    BY <1>1
  <2>2. q[j + 1].type \notin NodeEvents
    BY <1>1, <2>1 DEF LossIsLast
  <2> QED
    BY <1>1, <2>2
<1> QED
  BY <1>2, <1>3 DEF r

\* The head is taken off: what was known or queued before stays so, but for the head's node.
LEMMA DropHead ==
  ASSUME NEW q \in Seq(Event), q # <<>>, NEW a, NEW k, QueueOK(q, a, k)
  PROVE  /\ q[1].type \notin NodeEvents => QueueOK(Tail(q), a, k)
         /\ q[1].type = "added" => QueueOK(Tail(q), a, k \cup {q[1].slot})
<1> DEFINE r == Tail(q)
<1>1. /\ Len(q) \in Nat \ {0} /\ Len(r) = Len(q) - 1
      /\ \A i \in 1..Len(r) : i + 1 \in 1..Len(q) /\ r[i] = q[i + 1]
      /\ q[1] \in Event
  BY TailProperties
<1> HIDE DEF r
<1>2. \A j \in 1..Len(q) : j # 1 => \E i \in 1..Len(r) : j = i + 1 /\ r[i] = q[j]
  <2> SUFFICES ASSUME NEW j \in 1..Len(q), j # 1
               PROVE  \E i \in 1..Len(r) : j = i + 1 /\ r[i] = q[j]
    OBVIOUS
  <2>1. j - 1 \in 1..Len(r) /\ j = (j - 1) + 1
    BY <1>1
  <2> QED
    BY <1>1, <2>1
<1>3. Once(r) /\ LossIsLast(r)
  BY TailOrder DEF QueueOK, r
<1>5. ASSUME q[1].type \notin NodeEvents
      PROVE  QueueOK(r, a, k)
  <2>1. AddedOK(r, a, k)
    BY <1>1 DEF QueueOK, AddedOK
  <2>2. RemovedOK(r, a, k)
    <3> SUFFICES ASSUME NEW i \in 1..Len(r), r[i].type = "removed"
                 PROVE  /\ r[i].slot \in Slots /\ a[r[i].slot] = "left"
                        /\ r[i].slot \in k \/ \E j \in 1..Len(r) : j < i /\ r[j] = Added(r[i].slot)
      BY DEF RemovedOK
    <3>1. /\ r[i].slot \in Slots /\ a[r[i].slot] = "left"
          /\ r[i].slot \in k \/ \E j \in 1..Len(q) : j < i + 1 /\ q[j] = Added(r[i].slot)
      BY <1>1 DEF QueueOK, RemovedOK
    <3>2. ASSUME NEW j \in 1..Len(q), j < i + 1, q[j] = Added(r[i].slot)
          PROVE  \E m \in 1..Len(r) : m < i /\ r[m] = Added(r[i].slot)
      <4>1. j # 1
        BY <1>5, <3>2 DEF Added, NodeEvents
      <4>2. PICK m \in 1..Len(r) : j = m + 1 /\ r[m] = q[j]
        BY <1>2, <4>1
      <4> QED
        BY <1>1, <3>2, <4>2
    <3> QED
      BY <3>1, <3>2
  <2>3. KnownOK(r, a, k)
    BY <1>2, <1>5 DEF QueueOK, KnownOK, Added, NodeEvents
  <2> QED
    BY <1>3, <2>1, <2>2, <2>3 DEF QueueOK
<1>6. ASSUME q[1].type = "added"
      PROVE  QueueOK(r, a, k \cup {q[1].slot})
  <2> DEFINE s == q[1].slot
  <2>0. q[1] = Added(s) /\ 1 \in 1..Len(q) /\ a[s] \in Here
    BY <1>1, <1>6 DEF Added, Event, QueueOK, AddedOK
  <2> HIDE DEF s
  <2>1. AddedOK(r, a, k \cup {s})
    <3> SUFFICES ASSUME NEW i \in 1..Len(r), r[i].type = "added"
                 PROVE  r[i].slot \in Slots /\ a[r[i].slot] \in Here /\ r[i].slot \notin k \cup {s}
      BY DEF AddedOK
    <3>1. q[i + 1] = r[i] /\ i + 1 \in 1..Len(q) /\ r[i] \in Event /\ i \in Nat /\ i + 1 # 1
      BY <1>1
    <3>2. r[i] # Added(s)
      BY <1>6, <2>0, <3>1 DEF QueueOK, Once, NodeEvents
    <3>3. r[i].slot # s
      BY <3>1, <3>2 DEF Added, Event
    <3> QED
      BY <3>1, <3>3 DEF QueueOK, AddedOK
  <2>2. RemovedOK(r, a, k \cup {s})
    <3> SUFFICES ASSUME NEW i \in 1..Len(r), r[i].type = "removed"
                 PROVE  /\ r[i].slot \in Slots /\ a[r[i].slot] = "left"
                        /\ r[i].slot \in k \cup {s}
                           \/ \E j \in 1..Len(r) : j < i /\ r[j] = Added(r[i].slot)
      BY DEF RemovedOK
    <3>1. /\ r[i].slot \in Slots /\ a[r[i].slot] = "left"
          /\ r[i].slot \in k \/ \E j \in 1..Len(q) : j < i + 1 /\ q[j] = Added(r[i].slot)
      BY <1>1 DEF QueueOK, RemovedOK
    <3>2. ASSUME NEW j \in 1..Len(q), j < i + 1, q[j] = Added(r[i].slot), r[i].slot # s
          PROVE  \E m \in 1..Len(r) : m < i /\ r[m] = Added(r[i].slot)
      <4>1. j # 1
        BY <2>0, <3>2 DEF Added
      <4>2. PICK m \in 1..Len(r) : j = m + 1 /\ r[m] = q[j]
        BY <1>2, <4>1
      <4> QED
        BY <1>1, <3>2, <4>2
    <3> QED
      BY <3>1, <3>2
  <2>3. KnownOK(r, a, k \cup {s})
    <3>1. \A t \in k \cup {s} : a[t] \in Here
      BY <2>0 DEF QueueOK, KnownOK
    <3>2. ASSUME NEW t \in Slots, a[t] \in {"up", "leaving"}, t \notin k \cup {s}
          PROVE  \E i \in 1..Len(r) : r[i] = Added(t)
      <4>1. PICK j \in 1..Len(q) : q[j] = Added(t)
        BY <3>2 DEF QueueOK, KnownOK
      <4>2. j # 1
        BY <2>0, <3>2, <4>1 DEF Added
      <4> QED
        BY <1>2, <4>1, <4>2
    <3> QED
      BY <3>1, <3>2 DEF KnownOK
  <2> QED
    BY <1>3, <2>1, <2>2, <2>3 DEF QueueOK, s
<1> QED
  BY <1>5, <1>6 DEF r

\* Where modules stand may change, as long as no node comes into the graph or out of it.
LEMMA StandElsewhere ==
  ASSUME NEW q, NEW a, NEW b, NEW k \in SUBSET Slots, QueueOK(q, a, k),
         \A s \in Slots : /\ b[s] \in {"up", "leaving"} <=> a[s] \in {"up", "leaving"}
                          /\ b[s] = "left" <=> a[s] = "left"
  PROVE  QueueOK(q, b, k)
BY DEF QueueOK, AddedOK, RemovedOK, KnownOK, Here

LEMMA DropRemoval ==
  ASSUME NEW q \in Seq(Event), q # <<>>, NEW a, NEW b, NEW k, QueueOK(q, a, k),
         q[1].type = "removed",
         b[q[1].slot] = "free", \A t \in Slots : t # q[1].slot => b[t] = a[t],
         k \subseteq Slots
  PROVE  q[1].slot \in k /\ QueueOK(Tail(q), b, k \ {q[1].slot})
<1> DEFINE r == Tail(q)
           s == q[1].slot
<1>1. /\ Len(q) \in Nat \ {0} /\ Len(r) = Len(q) - 1
      /\ \A i \in 1..Len(r) : i + 1 \in 1..Len(q) /\ r[i] = q[i + 1] /\ r[i] \in Event
      /\ q[1] \in Event /\ 1 \in 1..Len(q)
  BY TailProperties
<1>2. q[1] = Removed(s) /\ s \in Slots /\ a[s] = "left" /\ s \in k
  BY <1>1 DEF Removed, Event, QueueOK, RemovedOK
<1> HIDE DEF r, s
<1>3. ASSUME NEW t \in Slots, NEW j \in 1..Len(q), q[j] = Added(t)
      PROVE  \E i \in 1..Len(r) : j = i + 1 /\ r[i] = Added(t)
  <2>1. j # 1
    BY <1>2, <1>3 DEF Added, Removed
  <2>2. j - 1 \in 1..Len(r) /\ j = (j - 1) + 1
    BY <1>1, <2>1
  <2> QED
    BY <1>1, <1>3, <2>2
<1>4. AddedOK(r, b, k \ {s})
  BY <1>1, <1>2 DEF QueueOK, AddedOK, s
<1>5. RemovedOK(r, b, k \ {s})
  <2> SUFFICES ASSUME NEW i \in 1..Len(r), r[i].type = "removed"
               PROVE  /\ r[i].slot \in Slots /\ b[r[i].slot] = "left"
                      /\ r[i].slot \in k \ {s}
                         \/ \E j \in 1..Len(r) : j < i /\ r[j] = Added(r[i].slot)
    BY DEF RemovedOK
  <2> DEFINE t == r[i].slot
  <2>1. q[i + 1] = r[i] /\ i + 1 \in 1..Len(q) /\ r[i] \in Event /\ i \in Nat /\ i + 1 # 1
    BY <1>1
  <2>2. r[i] # q[1] /\ r[i] = Removed(t)
    BY <1>1, <2>1 DEF QueueOK, Once, NodeEvents, Removed, Event
  <2>3. t # s
    BY <1>2, <2>2
  <2>4. /\ t \in Slots /\ a[t] = "left"
        /\ t \in k \/ \E j \in 1..Len(q) : j < i + 1 /\ q[j] = Added(t)
    BY <2>1 DEF QueueOK, RemovedOK
  <2> HIDE DEF t
  <2>5. ASSUME NEW j \in 1..Len(q), j < i + 1, q[j] = Added(t)
        PROVE  \E m \in 1..Len(r) : m < i /\ r[m] = Added(t)
    <3>1. PICK m \in 1..Len(r) : j = m + 1 /\ r[m] = Added(t)
      BY <1>3, <2>4, <2>5
    <3> QED
      BY <1>1, <2>5, <3>1
  <2> QED
    BY <2>3, <2>4, <2>5 DEF s, t
<1>6. Once(r) /\ LossIsLast(r)
  BY TailOrder DEF QueueOK, r
<1>7. KnownOK(r, b, k \ {s})
  <2>1. \A t \in k \ {s} : b[t] \in Here
    BY DEF QueueOK, KnownOK, s
  <2>2. ASSUME NEW t \in Slots, b[t] \in {"up", "leaving"}, t \notin k \ {s}
        PROVE  \E i \in 1..Len(r) : r[i] = Added(t)
    <3>1. t # s
      BY <2>2 DEF s
    <3>2. PICK j \in 1..Len(q) : q[j] = Added(t)
      BY <2>2, <3>1 DEF QueueOK, KnownOK, s
    <3> QED
      BY <1>3, <3>2
  <2> QED
    BY <2>1, <2>2 DEF KnownOK
<1> QED
  BY <1>2, <1>4, <1>5, <1>6, <1>7 DEF QueueOK, r, s

\* A node comes into the graph, or leaves it: its event goes to the end of a queue in which the
\* loss of PipeWire is not waiting.
LEMMA PostNode ==
  ASSUME NEW q \in Seq(Event), NEW a, NEW b, NEW k \in SUBSET Slots, NEW s \in Slots,
         NEW e \in {Added(s), Removed(s)}, QueueOK(q, a, k),
         \A i \in 1..Len(q) : q[i].type # "disconnected",
         \A t \in Slots : t # s => b[t] = a[t],
         e = Added(s) => a[s] \notin Here /\ b[s] \in {"up", "leaving"},
         e = Removed(s) => a[s] = "leaving" /\ b[s] = "left"
  PROVE  QueueOK(Append(q, e), b, k)
<1> DEFINE r == Append(q, e)
           n == Len(q)
<1>1. e \in Event
  BY DEF Event, Added, Removed
<1>2. /\ n \in Nat /\ Len(r) = n + 1 /\ r[n + 1] = e
      /\ \A i \in 1..n : r[i] = q[i] /\ i \in 1..Len(r) /\ i < n + 1
      /\ \A i \in 1..Len(r) : i = n + 1 \/ i \in 1..n
  BY <1>1, AppendProperties
<1> HIDE DEF r, n
<1>3. \A i \in 1..n : q[i] # e
  <2>1. ASSUME NEW i \in 1..n, q[i] = e, e = Added(s)
        PROVE  FALSE
    BY <2>1 DEF QueueOK, AddedOK, Added, n
  <2>2. ASSUME NEW i \in 1..n, q[i] = e, e = Removed(s)
        PROVE  FALSE
    BY <2>2 DEF QueueOK, RemovedOK, Removed, n
  <2> QED
    BY <2>1, <2>2
<1>4. AddedOK(r, b, k)
  <2> SUFFICES ASSUME NEW i \in 1..Len(r), r[i].type = "added"
               PROVE  r[i].slot \in Slots /\ b[r[i].slot] \in Here /\ r[i].slot \notin k
    BY DEF AddedOK
  <2>1. CASE i = n + 1
    <3>1. r[i] = Added(s)
      BY <1>2, <2>1 DEF Added, Removed
    <3>2. a[s] \notin Here /\ b[s] \in Here
      BY <1>2, <2>1, <3>1 DEF Here
    <3> QED
      BY <3>1, <3>2 DEF Added, QueueOK, KnownOK
  <2>2. CASE i \in 1..n
    BY <1>2, <2>2 DEF QueueOK, AddedOK, Here, n
  <2> QED
    BY <1>2, <2>1, <2>2
<1>5. RemovedOK(r, b, k)
  <2> SUFFICES ASSUME NEW i \in 1..Len(r), r[i].type = "removed"
               PROVE  /\ r[i].slot \in Slots /\ b[r[i].slot] = "left"
                      /\ r[i].slot \in k \/ \E j \in 1..Len(r) : j < i /\ r[j] = Added(r[i].slot)
    BY DEF RemovedOK
  <2>1. CASE i = n + 1
    <3>1. r[i] = Removed(s) /\ e = Removed(s) /\ r[i].slot = s
      BY <1>2, <2>1 DEF Added, Removed
    <3>2. s \in k \/ \E j \in 1..n : q[j] = Added(s)
      BY <3>1 DEF QueueOK, KnownOK, n
    <3> QED
      BY <1>2, <2>1, <3>1, <3>2
  <2>2. CASE i \in 1..n
    <3>1. /\ r[i].slot \in Slots /\ a[r[i].slot] = "left"
          /\ r[i].slot \in k \/ \E j \in 1..n : j < i /\ q[j] = Added(r[i].slot)
      BY <1>2, <2>2 DEF QueueOK, RemovedOK, n
    <3>2. r[i].slot # s
      BY <3>1 DEF Here
    <3> QED
      BY <1>2, <3>1, <3>2
  <2> QED
    BY <1>2, <2>1, <2>2
<1>6. Once(r)
  <2> SUFFICES ASSUME NEW i \in 1..Len(r), NEW j \in 1..Len(r), r[i].type \in NodeEvents,
                      r[i] = r[j]
               PROVE  i = j
    BY DEF Once
  <2>1. i \in 1..n <=> j \in 1..n
    BY <1>2, <1>3
  <2>2. CASE i \in 1..n
    BY <1>2, <2>1, <2>2 DEF QueueOK, Once, n
  <2> QED
    BY <1>2, <2>1, <2>2
<1>7. LossIsLast(r)
  BY <1>2 DEF LossIsLast, Added, Removed, n
<1>8. KnownOK(r, b, k)
  <2>1. \A t \in k : b[t] \in Here
    BY DEF QueueOK, KnownOK, Here
  <2>2. ASSUME NEW t \in Slots, b[t] \in {"up", "leaving"}, t \notin k
        PROVE  \E i \in 1..Len(r) : r[i] = Added(t)
    <3>1. CASE t = s
      BY <1>2, <2>2, <3>1
    <3>2. CASE t # s
      BY <1>2, <2>2, <3>2 DEF QueueOK, KnownOK, n
    <3> QED
      BY <3>1, <3>2
  <2> QED
    BY <2>1, <2>2 DEF KnownOK
<1> QED
  BY <1>4, <1>5, <1>6, <1>7, <1>8 DEF QueueOK, r

\* Behind the loss of PipeWire nothing is queued about a node: all can be forgotten.
LEMMA DropLoss ==
  ASSUME NEW q \in Seq(Event), q # <<>>, NEW a, NEW b, NEW k, QueueOK(q, a, k),
         q[1].type = "disconnected", \A s \in Slots : b[s] \notin Here
  PROVE  QueueOK(Tail(q), b, {})
<1> DEFINE r == Tail(q)
<1>1. /\ Len(q) \in Nat \ {0} /\ Len(r) = Len(q) - 1
      /\ \A i \in 1..Len(r) : i + 1 \in 1..Len(q) /\ 1 < i + 1 /\ r[i] = q[i + 1]
  BY TailProperties
<1> HIDE DEF r
<1>2. \A i \in 1..Len(r) : r[i].type \notin NodeEvents
  BY <1>1 DEF QueueOK, LossIsLast
<1> QED
  BY <1>2 DEF QueueOK, AddedOK, RemovedOK, Once, LossIsLast, KnownOK, NodeEvents, Here, r

LEMMA LossKept ==
  ASSUME NEW q \in Seq(Event), NEW up, LossOK(q, up)
  PROVE  /\ \A e \in Event : e.type # "disconnected" \/ ~up => LossOK(Append(q, e), up)
         /\ q # <<>> => LossOK(Tail(q), up)
<1>1. ASSUME NEW e \in Event, e.type # "disconnected" \/ ~up
      PROVE  LossOK(Append(q, e), up)
  <2>1. \A i \in 1..Len(Append(q, e)) :
          \/ i \in 1..Len(q) /\ Append(q, e)[i] = q[i]
          \/ Append(q, e)[i] = e
    BY AppendProperties
  <2> QED
    BY <1>1, <2>1 DEF LossOK
<1>2. ASSUME q # <<>>
      PROVE  LossOK(Tail(q), up)
  <2>1. \A i \in 1..Len(Tail(q)) : i + 1 \in 1..Len(q) /\ Tail(q)[i] = q[i + 1]
    BY <1>2, TailProperties
  <2> QED
    BY <2>1 DEF LossOK
<1> QED
  BY <1>1, <1>2
-----------------------------------------------------------------------------
(* Modules *)

LEMMA TakenAreFree ==
  ASSUME NEW es \in SUBSET Edges, NEW places, Room(es, places)
  PROVE  \A s \in FreeSlots(es, places) : s \in Slots /\ places[s] = "free"
<1> SUFFICES ASSUME NEW e \in es
             PROVE  LET s == CHOOSE s \in {e} \X (1..PerEdge) : places[s] = "free" IN
                      s \in Slots /\ places[s] = "free"
  BY DEF FreeSlots
<1>1. \E s \in {e} \X (1..PerEdge) : places[s] = "free"
  BY DEF Room
<1>2. {e} \X (1..PerEdge) \subseteq Slots
  BY DEF Slots
<1> QED
  BY <1>1, <1>2

Same(a, b) ==
  \A s \in Slots : /\ b[s] \in {"up", "leaving"} <=> a[s] \in {"up", "leaving"}
                   /\ b[s] = "left" <=> a[s] = "left"

LEMMA SnapshotOf ==
  ASSUME Same(at, at')
  PROVE  Snapshot' = Snapshot /\ \A e \in Edges : InGraph(e)' <=> InGraph(e)
BY DEF Same, Snapshot, InGraph

Failed == [type |-> "failed", slot |-> NoSlot]

\* What asking for edges does, wherever it is called from.
LEMMA EnsureStep ==
  ASSUME TypeOK, NEW want \in SUBSET Edges, NEW places \in [Slots -> Places],
         NEW asked \in SUBSET Edges, NEW q \in Seq(Event), EnsureEdges(want, places, asked, q)
  PROVE  /\ at' \in [Slots -> Places] /\ ours' \subseteq Slots
         /\ requested' \subseteq Edges /\ pending' \subseteq Edges /\ overdue' \subseteq pending'
         /\ watching' \in BOOLEAN /\ faults' \in 0..MaxFaults
         /\ failed' = failed /\ reported' = reported
         /\ loadFailed' = loadFailed /\ lastError' = lastError
         /\ Same(places, at')
         /\ events' = q \/ events' = Append(q, Failed)
         /\ \A e \in want : InGraph(e) \/ e \in pending'
<1> DEFINE absent == want \cap Missing
           new == absent \ asked
<1>1. /\ Load(new, places, q) /\ requested' = asked \cup absent
      /\ pending' = pending \cup absent /\ overdue' = overdue \ absent
      /\ watching' = (watching \/ absent # {})
      /\ UNCHANGED <<failed, reported, loadFailed, lastError>>
  BY DEF EnsureEdges
<1>2. new \in SUBSET Edges /\ absent \in SUBSET Edges
  OBVIOUS
<1>3. \A e \in want : InGraph(e) \/ e \in absent
  BY DEF Missing
<1> HIDE DEF new, absent
<1>4. PICK ok \in SUBSET new :
        /\ Room(ok, places)
        /\ server => faults + Cardinality(new \ ok) <= MaxFaults
        /\ faults' = IF server THEN faults + Cardinality(new \ ok) ELSE faults
        /\ at' = [s \in Slots |-> IF s \in FreeSlots(ok, places) THEN "coming" ELSE places[s]]
        /\ ours' = ours \cup FreeSlots(ok, places)
        /\ events' = IF ok = new THEN q ELSE Append(q, Failed)
  BY <1>1 DEF Load, Post, Failed
<1>5. \A s \in FreeSlots(ok, places) : s \in Slots /\ places[s] = "free"
  BY <1>2, <1>4, TakenAreFree
<1>6. faults' \in 0..MaxFaults
  <2>1. IsFiniteSet(new \ ok)
    BY <1>2, EdgeReconcileAssumption, FS_Subset
  <2>2. Cardinality(new \ ok) \in Nat
    BY <2>1, FS_CardinalityType
  <2> QED
    BY <1>4, <2>2, EdgeReconcileAssumption DEF TypeOK
<1>7. at' \in [Slots -> Places] /\ Same(places, at')
  BY <1>4, <1>5 DEF Same, Places
<1>8. ours' \subseteq Slots
  BY <1>4, <1>5 DEF TypeOK
<1> QED
  BY <1>1, <1>2, <1>3, <1>4, <1>6, <1>7, <1>8 DEF TypeOK

LEMMA EnsureIInv ==
  ASSUME IInv, NEW places \in [Slots -> Places], NEW asked \in SUBSET Edges,
         NEW q \in Seq(Event), Same(at, places),
         QueueOK(q, at, known), LossOK(q, server),
         EnsureEdges(IF mix' THEN Edges ELSE {}, places, asked, q),
         mix' \in BOOLEAN, settling' \in BOOLEAN, ops' \in 0..MaxOps,
         UNCHANGED <<known, server, connected, drops>>
  PROVE  IInv'
<1> DEFINE want == IF mix' THEN Edges ELSE {}
<1>1. TypeOK /\ known \in SUBSET Slots /\ want \in SUBSET Edges /\ Failed \in Event
  BY DEF IInv, TypeOK, Failed, Event
<1>2. /\ at' \in [Slots -> Places] /\ ours' \subseteq Slots
      /\ requested' \subseteq Edges /\ pending' \subseteq Edges /\ overdue' \subseteq pending'
      /\ watching' \in BOOLEAN /\ faults' \in 0..MaxFaults
      /\ failed' = failed /\ reported' = reported
      /\ loadFailed' = loadFailed /\ lastError' = lastError
      /\ Same(places, at')
      /\ events' = q \/ events' = Append(q, Failed)
      /\ \A e \in want : InGraph(e) \/ e \in pending'
  BY <1>1, EnsureStep
<1>3. Same(at, at')
  BY <1>2 DEF Same
<1>4. events' \in Seq(Event) /\ QueueOK(events', at, known) /\ LossOK(events', server)
  <2>1. Append(q, Failed) \in Seq(Event)
    BY <1>1, AppendProperties
  <2>2. QueueOK(Append(q, Failed), at, known)
    BY <1>1, PostOther DEF Failed, NodeEvents
  <2>3. LossOK(Append(q, Failed), server)
    BY <1>1, LossKept DEF Failed
  <2> QED
    BY <1>2, <2>1, <2>2, <2>3
<1>5. QueueOK(events', at', known)
  BY <1>1, <1>3, <1>4, StandElsewhere DEF Same
<1>6. TypeOK'
  BY <1>1, <1>2, <1>4 DEF TypeOK
<1>7. NothingForgotten'
  BY <1>1, <1>2, <1>3, SnapshotOf DEF NothingForgotten, Wanted
<1> QED
  BY <1>4, <1>5, <1>6, <1>7 DEF IInv

\* Steps that take nobody off the lists.
LEMMA KeepLists ==
  ASSUME IInv, TypeOK', QueueOK(events', at', known'), LossOK(events', server'),
         \A e \in Edges : InGraph(e) => InGraph(e)', mix' = mix, pending \subseteq pending',
         \A i \in 1..Len(events) :
           events[i].type \in {"removed", "recheck", "disconnected"} =>
             \E j \in 1..Len(events') : events'[j] = events[i],
         settling => settling' \/ ~connected', ~connected => ~connected' \/ settling'
  PROVE  IInv'
<1>1. NothingForgotten'
  <2> SUFFICES ASSUME NEW e \in Wanted \cap Watched
               PROVE  \/ InGraph(e)' \/ e \in pending'
                      \/ RemovalQueued(e)' \/ IsQueued({"recheck", "disconnected"})'
                      \/ settling' \/ ~connected'
    BY DEF NothingForgotten, Wanted
  <2>1. events \in Seq(Event) /\ events' \in Seq(Event) /\ e \in Edges
    BY EdgeReconcileAssumption DEF IInv, TypeOK
  <2>2. DOMAIN events = 1..Len(events) /\ DOMAIN events' = 1..Len(events')
    BY <2>1
  <2>3. RemovalQueued(e) => RemovalQueued(e)'
    BY <2>2 DEF RemovalQueued
  <2>4. IsQueued({"recheck", "disconnected"}) => IsQueued({"recheck", "disconnected"})'
    BY <2>2 DEF IsQueued
  <2> QED
    BY <2>1, <2>3, <2>4 DEF IInv, NothingForgotten
<1> QED
  BY <1>1 DEF IInv

LEMMA AppendKeeps ==
  ASSUME NEW q \in Seq(Event), NEW e \in Event
  PROVE  \A i \in 1..Len(q) : \E j \in 1..Len(Append(q, e)) : Append(q, e)[j] = q[i]
<1>1. \A i \in 1..Len(q) : i \in 1..Len(Append(q, e)) /\ Append(q, e)[i] = q[i]
  BY AppendProperties
<1> QED
  BY <1>1

LEMMA TailKeeps ==
  ASSUME NEW q \in Seq(Event), q # <<>>
  PROVE  \A i \in 1..Len(q) : i = 1 \/ \E j \in 1..Len(Tail(q)) : Tail(q)[j] = q[i]
<1> SUFFICES ASSUME NEW i \in 1..Len(q), i # 1
             PROVE  \E j \in 1..Len(Tail(q)) : Tail(q)[j] = q[i]
  OBVIOUS
<1>1. i - 1 \in 1..Len(Tail(q)) /\ Tail(q)[i - 1] = q[i]
  BY TailProperties
<1> QED
  BY <1>1

\* The event that a handler takes.
LEMMA TakesHead ==
  ASSUME TypeOK, NEW type, Handles(type)
  PROVE  /\ events \in Seq(Event) /\ events # <<>> /\ events[1] = Head(events)
         /\ events[1] \in Event /\ events[1].type = type /\ Tail(events) \in Seq(Event)
BY TailProperties DEF TypeOK, Handles

LEMMA InitIInv == Init => IInv
<1> SUFFICES ASSUME Init
             PROVE  IInv
  OBVIOUS
<1>1. TypeOK
  <2>1. at \in [Slots -> Places] /\ ours \subseteq Slots /\ known \subseteq Slots
        /\ requested \subseteq Edges /\ pending \subseteq Edges /\ failed \subseteq Edges
        /\ overdue \subseteq pending
    BY DEF Init, Places
  <2>2. events \in Seq(Event)
    BY DEF Init
  <2>3. ops \in 0..MaxOps /\ faults \in 0..MaxFaults /\ drops \in 0..MaxDrops
    BY EdgeReconcileAssumption DEF Init
  <2> QED
    BY <2>1, <2>2, <2>3 DEF Init, TypeOK
<1>2. Len(events) = 0 /\ known = {} /\ \A s \in Slots : at[s] = "free"
  BY DEF Init
<1>3. QueueOK(events, at, known) /\ LossOK(events, server)
  BY <1>2 DEF QueueOK, AddedOK, RemovedOK, Once, LossIsLast, KnownOK, LossOK
<1>4. NothingForgotten
  BY DEF Init, NothingForgotten
<1> QED
  BY <1>1, <1>3, <1>4 DEF IInv
-----------------------------------------------------------------------------
(* The steps that ask for edges *)

LEMMA ReconcileIInv ==
  ASSUME IInv, Reconcile
  PROVE  IInv'
<1>0. TypeOK /\ UNCHANGED <<mix, known, connected, server, ops, drops>> /\ settling' = FALSE
  BY DEF IInv, Reconcile
<1>1. CASE connected
  <2>1. EnsureEdges(IF mix' THEN Edges ELSE {}, at, requested, events)
    BY <1>1 DEF Reconcile, Wanted
  <2>2. at \in [Slots -> Places] /\ requested \in SUBSET Edges /\ events \in Seq(Event)
    BY <1>0 DEF TypeOK
  <2>3. mix' \in BOOLEAN /\ settling' \in BOOLEAN /\ ops' \in 0..MaxOps /\ Same(at, at)
    BY <1>0 DEF TypeOK, Same
  <2>4. QueueOK(events, at, known) /\ LossOK(events, server)
    BY DEF IInv
  <2> QED
    BY <1>0, <2>1, <2>2, <2>3, <2>4, EnsureIInv
<1>2. CASE ~connected
  <2>1. UNCHANGED <<at, ours, events, requested, watch, faults>>
    BY <1>2 DEF Reconcile
  <2>2. TypeOK'
    BY <1>0, <2>1 DEF TypeOK, watch
  <2>3. QueueOK(events', at', known') /\ LossOK(events', server')
    BY <1>0, <2>1 DEF IInv
  <2>4. NothingForgotten'
    BY <1>0, <1>2 DEF NothingForgotten
  <2> QED
    BY <2>2, <2>3, <2>4 DEF IInv
<1> QED
  BY <1>0, <1>1, <1>2 DEF TypeOK

LEMMA AddMixIInv ==
  ASSUME IInv, AddMix
  PROVE  IInv'
<1>0. /\ TypeOK /\ mix' = TRUE /\ UNCHANGED <<known, link, drops>> /\ ops' \in 0..MaxOps
  BY EdgeReconcileAssumption DEF IInv, TypeOK, AddMix, Ops
<1>1. CASE connected
  <2>1. EnsureEdges(IF mix' THEN Edges ELSE {}, at, requested, events)
    BY <1>0, <1>1 DEF AddMix
  <2>2. at \in [Slots -> Places] /\ requested \in SUBSET Edges /\ events \in Seq(Event)
    BY <1>0 DEF TypeOK
  <2>3. mix' \in BOOLEAN /\ settling' \in BOOLEAN /\ Same(at, at)
        /\ UNCHANGED <<known, server, connected, drops>>
    BY <1>0 DEF TypeOK, Same, link
  <2>4. QueueOK(events, at, known) /\ LossOK(events, server)
    BY DEF IInv
  <2> QED
    BY <1>0, <2>1, <2>2, <2>3, <2>4, EnsureIInv
<1>2. CASE ~connected
  <2>1. UNCHANGED <<at, ours, events, requested, watch, faults>>
    BY <1>2 DEF AddMix
  <2>2. TypeOK'
    BY <1>0, <2>1 DEF TypeOK, watch, link
  <2>3. QueueOK(events', at', known') /\ LossOK(events', server')
    BY <1>0, <2>1 DEF IInv, link
  <2>4. NothingForgotten'
    BY <1>0, <1>2 DEF NothingForgotten, link
  <2> QED
    BY <2>2, <2>3, <2>4 DEF IInv
<1> QED
  BY <1>0, <1>1, <1>2 DEF TypeOK

LEMMA SetMixOutputsIInv ==
  ASSUME IInv, SetMixOutputs
  PROVE  IInv'
<1>0. /\ TypeOK /\ UNCHANGED <<mix, known, link, drops>> /\ ops' \in 0..MaxOps
  BY EdgeReconcileAssumption DEF IInv, TypeOK, SetMixOutputs, Ops
<1>1. PICK doomed \in SUBSET Snapshot :
        EnsureEdges(Wanted, Move(doomed, "leaving"), requested, events)
  BY DEF SetMixOutputs
<1>2. Move(doomed, "leaving") \in [Slots -> Places] /\ Same(at, Move(doomed, "leaving"))
  BY <1>0 DEF TypeOK, Move, Places, Same, Snapshot
<1>3. EnsureEdges(IF mix' THEN Edges ELSE {}, Move(doomed, "leaving"), requested, events)
  BY <1>0, <1>1 DEF Wanted
<1>4. requested \in SUBSET Edges /\ events \in Seq(Event) /\ mix' \in BOOLEAN
      /\ settling' \in BOOLEAN /\ UNCHANGED <<known, server, connected, drops>>
  BY <1>0 DEF TypeOK, link
<1>5. QueueOK(events, at, known) /\ LossOK(events, server)
  BY DEF IInv
<1> QED
  BY <1>0, <1>2, <1>3, <1>4, <1>5, EnsureIInv

LEMMA RebuildIInv ==
  ASSUME IInv, RebuildMixOutputEdges
  PROVE  IInv'
<1> DEFINE places == Move(Snapshot, "leaving")
<1>0. /\ TypeOK /\ UNCHANGED <<mix, known, link, drops>> /\ ops' \in 0..MaxOps
  BY EdgeReconcileAssumption DEF IInv, TypeOK, RebuildMixOutputEdges, Ops
<1>2. places \in [Slots -> Places] /\ Same(at, places)
  BY <1>0 DEF TypeOK, Move, Places, Same, Snapshot
<1>3. EnsureEdges(IF mix' THEN Edges ELSE {}, places, requested \cap Missing, events)
  BY <1>0 DEF Wanted, RebuildMixOutputEdges
<1>4. requested \cap Missing \in SUBSET Edges /\ events \in Seq(Event) /\ mix' \in BOOLEAN
      /\ settling' \in BOOLEAN /\ UNCHANGED <<known, server, connected, drops>>
  BY <1>0 DEF TypeOK, link
<1>5. QueueOK(events, at, known) /\ LossOK(events, server)
  BY DEF IInv
<1> HIDE DEF places
<1> QED
  BY <1>0, <1>2, <1>3, <1>4, <1>5, EnsureIInv

LEMMA RecheckIInv ==
  ASSUME IInv, Recheck
  PROVE  IInv'
<1>0. TypeOK /\ UNCHANGED <<mix, known, link, ops, drops>> /\ Handles("recheck")
  BY DEF IInv, Recheck
<1>1. /\ events \in Seq(Event) /\ events # <<>> /\ events[1].type = "recheck"
      /\ Tail(events) \in Seq(Event)
  BY <1>0, TakesHead
<1>2. EnsureEdges(IF mix' THEN Edges ELSE {}, at, requested, Tail(events))
  BY <1>0 DEF Wanted, Recheck
<1>3. QueueOK(Tail(events), at, known) /\ LossOK(Tail(events), server)
  BY <1>1, DropHead, LossKept DEF IInv, NodeEvents
<1>4. at \in [Slots -> Places] /\ requested \in SUBSET Edges /\ mix' \in BOOLEAN
      /\ settling' \in BOOLEAN /\ ops' \in 0..MaxOps /\ Same(at, at)
      /\ UNCHANGED <<known, server, connected, drops>>
  BY <1>0 DEF TypeOK, Same, link
<1> QED
  BY <1>1, <1>2, <1>3, <1>4, EnsureIInv
-----------------------------------------------------------------------------
(* The steps that take nobody off the lists *)

LEMMA GracePassesIInv ==
  ASSUME IInv, NEW e \in Edges, GracePasses(e)
  PROVE  IInv'
<1>0. TypeOK
  BY DEF IInv
<1>1. /\ UNCHANGED <<mix, at, ours, events, known, requested, pending, failed, reported,
                     loadFailed, lastError, watching, link, ops, drops>>
      /\ overdue' \subseteq pending
      /\ faults' \in 0..MaxFaults
  BY <1>0, EdgeReconcileAssumption DEF GracePasses, TypeOK
<1>2. TypeOK'
  BY <1>0, <1>1 DEF TypeOK, link
<1>3. QueueOK(events', at', known') /\ LossOK(events', server')
  BY <1>1 DEF IInv, link
<1>4. \A f \in Edges : InGraph(f) => InGraph(f)'
  BY <1>1 DEF InGraph, Snapshot
<1> QED
  BY <1>1, <1>2, <1>3, <1>4, KeepLists DEF link

LEMMA OnNodeIInv ==
  ASSUME IInv, OnNode
  PROVE  IInv'
<1>0. TypeOK /\ Handles("added") /\ UNCHANGED <<mix, at, ours, watch, link, counters>>
      /\ events' = Tail(events) /\ known' = known \cup {Head(events).slot}
  BY DEF IInv, OnNode
<1>1. /\ events \in Seq(Event) /\ events # <<>> /\ events[1] = Head(events)
      /\ events[1].type = "added" /\ Tail(events) \in Seq(Event)
  BY <1>0, TakesHead
<1>2. events[1].slot \in Slots
  BY <1>1 DEF IInv, QueueOK, AddedOK
<1>3. requested' \subseteq Edges
  BY <1>0 DEF OnNode, TypeOK
<1>4. TypeOK'
  BY <1>0, <1>1, <1>2, <1>3 DEF TypeOK, watch, link, counters
<1>5. QueueOK(events', at', known') /\ LossOK(events', server')
  BY <1>0, <1>1, DropHead, LossKept DEF IInv, link
<1>6. \A i \in 1..Len(events) :
        events[i].type \in {"removed", "recheck", "disconnected"} =>
          \E j \in 1..Len(events') : events'[j] = events[i]
  BY <1>0, <1>1, TailKeeps
<1>7. \A f \in Edges : InGraph(f) => InGraph(f)'
  BY <1>0 DEF InGraph, Snapshot
<1> QED
  BY <1>0, <1>4, <1>5, <1>6, <1>7, KeepLists DEF watch, link

LEMMA OnModuleLoadFailedIInv ==
  ASSUME IInv, OnModuleLoadFailed
  PROVE  IInv'
<1>0. /\ TypeOK /\ Handles("failed") /\ events' = Tail(events)
      /\ loadFailed' = TRUE /\ lastError' = TRUE /\ requested' \subseteq Edges
      /\ UNCHANGED <<mix, at, ours, known, pending, overdue, failed, reported, watching, link,
                     counters>>
  BY DEF IInv, TypeOK, OnModuleLoadFailed
<1>1. /\ events \in Seq(Event) /\ events # <<>> /\ events[1].type = "failed"
      /\ Tail(events) \in Seq(Event)
  BY <1>0, TakesHead
<1>4. TypeOK'
  BY <1>0, <1>1 DEF TypeOK, link, counters
<1>5. QueueOK(events', at', known') /\ LossOK(events', server')
  BY <1>0, <1>1, DropHead, LossKept DEF IInv, link, NodeEvents
<1>6. \A i \in 1..Len(events) :
        events[i].type \in {"removed", "recheck", "disconnected"} =>
          \E j \in 1..Len(events') : events'[j] = events[i]
  BY <1>0, <1>1, TailKeeps
<1>7. \A f \in Edges : InGraph(f) => InGraph(f)'
  BY <1>0 DEF InGraph, Snapshot
<1> QED
  BY <1>0, <1>4, <1>5, <1>6, <1>7, KeepLists DEF link

\* Modules come, go and stand elsewhere, in the graph or out of it, and at most an event that is
\* not about a node is queued.
LEMMA ModulesMove ==
  ASSUME IInv, UNCHANGED <<mix, known, requested, watch, connected, settling, ops>>,
         at' \in [Slots -> Places], Same(at, at'), ours' \subseteq Slots,
         server' \in BOOLEAN, faults' \in 0..MaxFaults, drops' \in 0..MaxDrops,
         \/ events' = events
         \/ \E e \in Event : e.type \notin NodeEvents /\ events' = Append(events, e),
         LossOK(events', server')
  PROVE  IInv'
<1>0. TypeOK /\ events \in Seq(Event) /\ known \in SUBSET Slots
  BY DEF IInv, TypeOK
<1>1. /\ events' \in Seq(Event) /\ QueueOK(events', at, known)
      /\ \A i \in 1..Len(events) : \E j \in 1..Len(events') : events'[j] = events[i]
  <2>1. CASE events' = events
    BY <1>0, <2>1 DEF IInv
  <2>2. ASSUME NEW e \in Event, e.type \notin NodeEvents, events' = Append(events, e)
        PROVE  /\ events' \in Seq(Event) /\ QueueOK(events', at, known)
               /\ \A i \in 1..Len(events) : \E j \in 1..Len(events') : events'[j] = events[i]
    <3>1. QueueOK(Append(events, e), at, known)
      BY <1>0, <2>2, PostOther DEF IInv
    <3> QED
      BY <1>0, <2>2, <3>1, AppendKeeps
  <2> QED
    BY <2>1, <2>2
<1>2. QueueOK(events', at', known')
  BY <1>0, <1>1, StandElsewhere DEF Same
<1>3. TypeOK'
  BY <1>0, <1>1 DEF TypeOK, watch
<1>4. \A f \in Edges : InGraph(f) => InGraph(f)'
  BY SnapshotOf
<1> QED
  BY <1>1, <1>2, <1>3, <1>4, KeepLists DEF watch

LEMMA ModuleVanishesIInv ==
  ASSUME IInv, NEW s \in Slots, ModuleVanishes(s)
  PROVE  IInv'
<1>0. TypeOK /\ LossOK(events, server)
  BY DEF IInv
<1>1. /\ UNCHANGED <<mix, known, requested, watch, link, ops, drops, ours, events, faults>>
      /\ at[s] = "unloaded" /\ at' = Move({s}, "free")
  BY DEF ModuleVanishes, GraphOnly
<1>2. at' \in [Slots -> Places] /\ Same(at, at')
  BY <1>0, <1>1 DEF TypeOK, Move, Places, Same
<1> QED
  BY <1>0, <1>1, <1>2, ModulesMove DEF TypeOK, link

LEMMA ModuleDiesIInv ==
  ASSUME IInv, NEW s \in Slots, ModuleDies(s)
  PROVE  IInv'
<1>0. TypeOK /\ LossOK(events, server)
  BY DEF IInv
<1>1. /\ UNCHANGED <<mix, known, requested, watch, link, ops, drops, events>>
      /\ \/ at[s] = "coming" /\ at' = Move({s}, "free")
         \/ at[s] = "up" /\ at' = Move({s}, "leaving")
      /\ ours' = ours \ {s}
  BY DEF ModuleDies, GraphOnly
<1>2. at' \in [Slots -> Places] /\ Same(at, at')
  BY <1>0, <1>1 DEF TypeOK, Move, Places, Same
<1>3. faults' \in 0..MaxFaults
  BY <1>0, EdgeReconcileAssumption DEF TypeOK, ModuleDies
<1> QED
  BY <1>0, <1>1, <1>2, <1>3, ModulesMove DEF TypeOK, link

LEMMA ServerDiesIInv ==
  ASSUME IInv, ServerDies
  PROVE  IInv'
<1> DEFINE e == [type |-> "disconnected", slot |-> NoSlot]
<1>0. TypeOK
  BY DEF IInv
<1>1. /\ UNCHANGED <<mix, known, requested, watch, connected, settling, ops, faults>>
      /\ server' = FALSE /\ ours' = {} /\ events' = Append(events, e)
      /\ at' = [s \in Slots |-> IF at[s] \in {"coming", "unloaded"} THEN "free" ELSE at[s]]
  BY DEF ServerDies, Post
<1>2. at' \in [Slots -> Places] /\ Same(at, at')
  BY <1>0, <1>1 DEF TypeOK, Places, Same
<1>3. drops' \in 0..MaxDrops
  BY <1>0, EdgeReconcileAssumption DEF TypeOK, ServerDies
<1>4. e \in Event /\ e.type \notin NodeEvents
  BY DEF Event, NodeEvents
<1>5. LossOK(events', server')
  BY <1>1 DEF LossOK
<1> HIDE DEF e
<1> QED
  BY <1>0, <1>1, <1>2, <1>3, <1>4, <1>5, ModulesMove DEF TypeOK

LEMMA ServerReturnsIInv ==
  ASSUME IInv, ServerReturns
  PROVE  IInv'
<1>0. TypeOK /\ DOMAIN events = 1..Len(events)
  BY DEF IInv, TypeOK
<1>1. /\ UNCHANGED <<mix, ours, events, known, requested, watch, connected, settling, counters>>
      /\ server' = TRUE /\ ~\E i \in DOMAIN events : events[i].type = "disconnected"
  BY DEF ServerReturns
<1>2. PICK built \in SUBSET Edges :
        Room(built, at) /\ at' = Move(FreeSlots(built, at), "coming")
  BY DEF ServerReturns, Wanted
<1>3. \A s \in FreeSlots(built, at) : s \in Slots /\ at[s] = "free"
  BY <1>2, TakenAreFree
<1>4. at' \in [Slots -> Places] /\ Same(at, at')
  BY <1>0, <1>2, <1>3 DEF TypeOK, Move, Places, Same
<1>5. LossOK(events', server')
  BY <1>0, <1>1 DEF LossOK
<1> QED
  BY <1>0, <1>1, <1>4, <1>5, ModulesMove DEF TypeOK, counters

LEMMA ReconnectIInv ==
  ASSUME IInv, Reconnect
  PROVE  IInv'
<1>0. TypeOK
  BY DEF IInv
<1>1. /\ UNCHANGED <<mix, at, ours, events, known, requested, watch, server, counters>>
      /\ connected' = TRUE /\ settling' = TRUE
  BY DEF Reconnect
<1>2. TypeOK'
  BY <1>0, <1>1 DEF TypeOK, watch, counters
<1>3. QueueOK(events', at', known') /\ LossOK(events', server')
  BY <1>1 DEF IInv
<1>4. NothingForgotten'
  BY <1>1 DEF NothingForgotten
<1> QED
  BY <1>2, <1>3, <1>4 DEF IInv

LEMMA NodeAnnouncedIInv ==
  ASSUME IInv, NEW s \in Slots, NodeAnnounced(s)
  PROVE  IInv'
<1>0. TypeOK /\ events \in Seq(Event) /\ known \in SUBSET Slots /\ Added(s) \in Event
  BY DEF IInv, TypeOK, Added, Event
<1>1. /\ UNCHANGED <<mix, known, requested, watch, link, ops, drops, ours, faults>> /\ server
      /\ \/ at[s] = "coming" /\ at' = Move({s}, "up")
         \/ at[s] = "unloaded" /\ at' = Move({s}, "leaving")
      /\ events' = Append(events, Added(s))
  BY DEF NodeAnnounced, GraphOnly, Post, Added
<1>2. /\ at' \in [Slots -> Places] /\ \A t \in Slots : t # s => at'[t] = at[t]
      /\ at[s] \notin Here /\ at'[s] \in {"up", "leaving"}
  BY <1>0, <1>1 DEF TypeOK, Move, Places, Here
<1>3. \A i \in 1..Len(events) : events[i].type # "disconnected"
  BY <1>1 DEF IInv, LossOK
<1>4. QueueOK(events', at', known')
  <2>1. Added(s) \in {Added(s), Removed(s)} /\ Added(s) # Removed(s) /\ QueueOK(events, at, known)
    BY DEF Added, Removed, IInv
  <2>2. QueueOK(Append(events, Added(s)), at', known)
    BY <1>0, <1>2, <1>3, <2>1, PostNode
  <2> QED
    BY <1>1, <2>2
<1>5. LossOK(events', server')
  <2>1. Added(s).type # "disconnected" /\ LossOK(events, server)
    BY DEF Added, IInv
  <2>2. LossOK(Append(events, Added(s)), server)
    BY <1>0, <2>1, LossKept
  <2> QED
    BY <1>1, <2>2 DEF link
<1>6. TypeOK'
  BY <1>0, <1>1, <1>2, AppendProperties DEF TypeOK, watch, link
<1>7. \A f \in Edges : InGraph(f) => InGraph(f)'
  BY <1>2 DEF InGraph, Snapshot, Here
<1>8. \A i \in 1..Len(events) : \E j \in 1..Len(events') : events'[j] = events[i]
  BY <1>0, <1>1, AppendKeeps
<1> QED
  BY <1>1, <1>4, <1>5, <1>6, <1>7, <1>8, KeepLists DEF watch, link
-----------------------------------------------------------------------------
(* The steps that take an edge off a list, or put it on one *)

\* What is no longer expected has arrived, or a second look is queued.
LEMMA CheckPendingEdgesIInv ==
  ASSUME IInv, CheckPendingEdges
  PROVE  IInv'
<1> DEFINE late == (pending \cap Missing) \cap overdue
           unload == {s \in ours : EdgeOf(s) \in late /\ at[s] = "coming"}
           e == [type |-> "recheck", slot |-> NoSlot]
<1>0. TypeOK /\ events \in Seq(Event) /\ known \in SUBSET Slots
  BY DEF IInv, TypeOK
<1>1. /\ UNCHANGED <<mix, known, loadFailed, link, counters>>
      /\ pending' = pending \ ((pending \ Missing) \cup late)
      /\ overdue' = overdue \ ((pending \ Missing) \cup late)
      /\ failed' = ((failed \cap pending) \ (pending \ Missing)) \cup late
      /\ at' = Move(unload, "unloaded") /\ ours' = ours \ unload /\ requested' = requested \ late
      /\ events' = IF late = {} THEN events ELSE Append(events, e)
      /\ watching' = KeepsWatching(pending', failed')
  BY DEF CheckPendingEdges, Post, Unloaded
<1>2. lastError' \in BOOLEAN /\ reported' \in BOOLEAN
  BY DEF CheckPendingEdges
<1>3. at' \in [Slots -> Places] /\ Same(at, at')
  BY <1>0, <1>1 DEF TypeOK, Move, Places, Same
<1>4. e \in Event /\ e.type = "recheck"
  BY DEF Event
<1>5. /\ pending' \subseteq Edges /\ failed' \subseteq Edges /\ overdue' \subseteq pending'
      /\ \A f \in pending : f \in pending' \/ f \in late \/ f \notin Missing
  BY <1>0, <1>1 DEF TypeOK
<1> HIDE DEF late, e
<1>6. /\ events' \in Seq(Event) /\ QueueOK(events', at, known) /\ LossOK(events', server)
      /\ \A i \in 1..Len(events) : \E j \in 1..Len(events') : events'[j] = events[i]
      /\ late # {} => \E j \in 1..Len(events') : events'[j].type = "recheck"
  <2>1. CASE late = {}
    BY <1>0, <1>1, <2>1 DEF IInv
  <2>2. CASE late # {}
    <3>1. events' = Append(events, e)
      BY <1>1, <2>2
    <3>2. QueueOK(events', at, known)
      BY <1>0, <1>4, <3>1, PostOther DEF IInv, NodeEvents
    <3>3. LossOK(events', server)
      BY <1>0, <1>4, <3>1, LossKept DEF IInv
    <3>4. Len(events) + 1 \in 1..Len(events') /\ events'[Len(events) + 1] = e
          /\ events' \in Seq(Event)
      BY <1>0, <1>4, <3>1, AppendProperties
    <3>5. \A i \in 1..Len(events) : \E j \in 1..Len(events') : events'[j] = events[i]
      BY <1>0, <1>4, <3>1, AppendKeeps
    <3> QED
      BY <1>4, <3>2, <3>3, <3>4, <3>5
  <2> QED
    BY <2>1, <2>2
<1>7. QueueOK(events', at', known') /\ LossOK(events', server')
  BY <1>0, <1>1, <1>3, <1>6, StandElsewhere DEF Same, link
<1>8. watching' \in BOOLEAN
  BY <1>1 DEF KeepsWatching
<1>9. TypeOK'
  <2>1. ours' \subseteq Slots /\ requested' \subseteq Edges
    BY <1>0, <1>1 DEF TypeOK
  <2> QED
    BY <1>0, <1>1, <1>2, <1>3, <1>5, <1>6, <1>8, <2>1 DEF TypeOK, link, counters
<1>10. NothingForgotten'
  <2> SUFFICES ASSUME NEW f \in Wanted \cap Watched
               PROVE  \/ InGraph(f)' \/ f \in pending'
                      \/ RemovalQueued(f)' \/ IsQueued({"recheck", "disconnected"})'
                      \/ settling' \/ ~connected'
    BY <1>1 DEF NothingForgotten, Wanted
  <2>1. DOMAIN events = 1..Len(events) /\ DOMAIN events' = 1..Len(events') /\ f \in Edges
    BY <1>0, <1>6, EdgeReconcileAssumption
  <2>2. InGraph(f) => InGraph(f)'
    BY <1>3, <2>1, SnapshotOf
  <2>3. f \in pending => f \in pending' \/ InGraph(f) \/ IsQueued({"recheck", "disconnected"})'
    BY <1>5, <1>6, <2>1 DEF IsQueued, Missing
  <2>4. RemovalQueued(f) => RemovalQueued(f)'
    BY <1>6, <2>1 DEF RemovalQueued
  <2>5. IsQueued({"recheck", "disconnected"}) => IsQueued({"recheck", "disconnected"})'
    BY <1>6, <2>1 DEF IsQueued
  <2> QED
    BY <1>1, <2>2, <2>3, <2>4, <2>5 DEF IInv, NothingForgotten, link
<1> QED
  BY <1>7, <1>9, <1>10 DEF IInv

\* Nothing is wanted any more.
LEMMA RemoveMixIInv ==
  ASSUME IInv, RemoveMix
  PROVE  IInv'
<1>0. TypeOK /\ known \in SUBSET Slots
  BY DEF IInv, TypeOK
<1>1. /\ mix' = FALSE /\ at' = Move(Snapshot, "leaving") /\ requested' = requested \cap Missing
      /\ UNCHANGED <<ours, events, known, watch, link, faults, drops>>
  BY DEF RemoveMix
<1>2. at' \in [Slots -> Places] /\ Same(at, at')
  BY <1>0, <1>1 DEF TypeOK, Move, Places, Same, Snapshot
<1>3. ops' \in 0..MaxOps
  BY <1>0, EdgeReconcileAssumption DEF RemoveMix, Ops, TypeOK
<1>4. TypeOK'
  BY <1>0, <1>1, <1>2, <1>3 DEF TypeOK, watch, link
<1>5. QueueOK(events', at', known') /\ LossOK(events', server')
  BY <1>0, <1>1, <1>2, StandElsewhere DEF Same, IInv, link
<1>6. NothingForgotten'
  BY <1>1 DEF NothingForgotten, Wanted
<1> QED
  BY <1>4, <1>5, <1>6 DEF IInv

\* The removal is of a node whose arrival was handled, so that a watched edge is looked for again.
LEMMA OnNodeRemovedIInv ==
  ASSUME IInv, OnNodeRemoved
  PROVE  IInv'
<1> DEFINE s == events[1].slot
           e == [type |-> "recheck", slot |-> NoSlot]
           again == s \in known /\ connected /\ EdgeOf(s) \in Watched
           rest == Tail(events)
<1>0. TypeOK /\ known \in SUBSET Slots /\ Handles("removed") /\ QueueOK(events, at, known)
      /\ LossOK(events, server)
  BY DEF IInv, TypeOK, OnNodeRemoved
<1>1. /\ events \in Seq(Event) /\ events # <<>> /\ events[1] = Head(events)
      /\ events[1] \in Event /\ events[1].type = "removed" /\ rest \in Seq(Event)
  BY <1>0, TakesHead
<1>2. /\ UNCHANGED <<mix, ours, requested, watch, link, counters>>
      /\ known' = known \ {s} /\ at' = Move({s}, "free")
      /\ events' = IF again THEN Append(rest, e) ELSE rest
  BY <1>1 DEF OnNodeRemoved, Post
<1>3. s \in Slots /\ at[s] = "left"
  <2>1. 1 \in 1..Len(events)
    BY <1>1
  <2> QED
    BY <1>0, <1>1, <2>1 DEF QueueOK, RemovedOK
<1>4. e \in Event /\ e.type = "recheck"
  BY DEF Event
<1>5. at' \in [Slots -> Places] /\ at'[s] = "free" /\ \A t \in Slots : t # s => at'[t] = at[t]
  BY <1>0, <1>2, <1>3 DEF TypeOK, Move, Places
<1>6. s \in known /\ QueueOK(rest, at', known')
  BY <1>0, <1>1, <1>2, <1>5, DropRemoval
<1>7. LossOK(rest, server)
  BY <1>0, <1>1, LossKept
<1>8. \A i \in 1..Len(events) : i = 1 \/ \E j \in 1..Len(rest) : rest[j] = events[i]
  BY <1>1, TailKeeps
<1> HIDE DEF rest, e
<1>9. /\ events' \in Seq(Event) /\ QueueOK(events', at', known') /\ LossOK(events', server)
      /\ \A i \in 1..Len(rest) : \E j \in 1..Len(events') : events'[j] = rest[i]
      /\ again => \E j \in 1..Len(events') : events'[j].type = "recheck"
  <2>1. CASE ~again
    BY <1>1, <1>2, <1>6, <1>7, <2>1
  <2>2. CASE again
    <3>1. events' = Append(rest, e)
      BY <1>2, <2>2
    <3>2. QueueOK(events', at', known')
      BY <1>1, <1>4, <1>6, <3>1, PostOther DEF NodeEvents
    <3>3. LossOK(events', server)
      BY <1>1, <1>4, <1>7, <3>1, LossKept
    <3>4. Len(rest) + 1 \in 1..Len(events') /\ events'[Len(rest) + 1] = e
          /\ events' \in Seq(Event)
      BY <1>1, <1>4, <3>1, AppendProperties
    <3>5. \A i \in 1..Len(rest) : \E j \in 1..Len(events') : events'[j] = rest[i]
      BY <1>1, <1>4, <3>1, AppendKeeps
    <3> QED
      BY <1>4, <3>2, <3>3, <3>4, <3>5
  <2> QED
    BY <2>1, <2>2
<1>10. TypeOK'
  BY <1>0, <1>2, <1>5, <1>9 DEF TypeOK, watch, link, counters
<1>11. NothingForgotten'
  <2> SUFFICES ASSUME NEW f \in Wanted \cap Watched
               PROVE  \/ InGraph(f)' \/ f \in pending'
                      \/ RemovalQueued(f)' \/ IsQueued({"recheck", "disconnected"})'
                      \/ settling' \/ ~connected'
    BY <1>2 DEF NothingForgotten, Wanted
  <2>1. DOMAIN events = 1..Len(events) /\ DOMAIN events' = 1..Len(events') /\ f \in Watched
    BY <1>1, <1>9
  <2>2. InGraph(f) => InGraph(f)'
    BY <1>3, <1>5 DEF InGraph, Snapshot
  <2>3. \A i \in 1..Len(events) : i = 1 \/ \E j \in 1..Len(events') : events'[j] = events[i]
    BY <1>8, <1>9
  <2>4. RemovalQueued(f) =>
          RemovalQueued(f)' \/ IsQueued({"recheck", "disconnected"})' \/ ~connected
    <3> SUFFICES ASSUME NEW i \in 1..Len(events), events[i].type = "removed",
                        EdgeOf(events[i].slot) = f
                 PROVE  RemovalQueued(f)' \/ IsQueued({"recheck", "disconnected"})' \/ ~connected
      BY <2>1 DEF RemovalQueued
    <3>1. CASE i = 1
      BY <1>6, <1>9, <2>1, <3>1 DEF IsQueued
    <3>2. CASE i # 1
      BY <2>1, <2>3, <3>2 DEF RemovalQueued
    <3> QED
      BY <3>1, <3>2
  <2>5. IsQueued({"recheck", "disconnected"}) => IsQueued({"recheck", "disconnected"})'
    BY <1>1, <2>1, <2>3 DEF IsQueued
  <2> QED
    BY <1>2, <2>2, <2>4, <2>5 DEF IInv, NothingForgotten, watch, link
<1> QED
  BY <1>2, <1>9, <1>10, <1>11 DEF IInv, link

\* PipeWire is gone for the Qt thread too.
LEMMA OnDisconnectedIInv ==
  ASSUME IInv, OnDisconnected
  PROVE  IInv'
<1> DEFINE e == [type |-> "recheck", slot |-> NoSlot]
           rest == Tail(events)
<1>0. /\ TypeOK /\ Handles("disconnected") /\ QueueOK(events, at, known) /\ LossOK(events, server)
      /\ UNCHANGED <<mix, ours, watch, settling, server, counters>>
      /\ known' = {} /\ requested' = {} /\ connected' = FALSE
      /\ at' = [s \in Slots |-> IF at[s] \in {"up", "leaving", "left"} THEN "free" ELSE at[s]]
      /\ events' = Append(rest, e) \/ events' = rest
  BY DEF IInv, OnDisconnected, Post, TornDown
<1>1. /\ events \in Seq(Event) /\ events # <<>> /\ events[1].type = "disconnected"
      /\ rest \in Seq(Event)
  BY <1>0, TakesHead
<1>2. at' \in [Slots -> Places] /\ \A s \in Slots : at'[s] \notin Here
  BY <1>0 DEF TypeOK, Places, Here
<1>3. QueueOK(rest, at', {}) /\ LossOK(rest, server)
  BY <1>0, <1>1, <1>2, DropLoss, LossKept
<1>4. e \in Event /\ e.type = "recheck"
  BY DEF Event
<1> HIDE DEF rest, e
<1>5. events' \in Seq(Event) /\ QueueOK(events', at', {}) /\ LossOK(events', server)
  <2>1. CASE events' = rest
    BY <1>1, <1>3, <2>1
  <2>2. CASE events' = Append(rest, e)
    <3>1. QueueOK(events', at', {})
      BY <1>1, <1>3, <1>4, <2>2, PostOther DEF NodeEvents
    <3> QED
      BY <1>1, <1>3, <1>4, <2>2, <3>1, AppendProperties, LossKept
  <2> QED
    BY <1>0, <2>1, <2>2
<1>6. TypeOK'
  BY <1>0, <1>2, <1>5 DEF TypeOK, watch, counters
<1>7. NothingForgotten'
  BY <1>0 DEF NothingForgotten
<1> QED
  BY <1>0, <1>5, <1>6, <1>7 DEF IInv

\* A node leaves the graph: what is missing now is what the queued removal is about.
LEMMA NodeVanishesIInv ==
  ASSUME IInv, NEW s \in Slots, NodeVanishes(s)
  PROVE  IInv'
<1>0. TypeOK /\ events \in Seq(Event) /\ known \in SUBSET Slots /\ Removed(s) \in Event
      /\ QueueOK(events, at, known) /\ LossOK(events, server)
  BY DEF IInv, TypeOK, Removed, Event
<1>1. /\ UNCHANGED <<mix, known, requested, watch, link, ops, drops, faults>> /\ server
      /\ at[s] = "leaving" /\ at' = Move({s}, "left") /\ ours' = ours \ {s}
      /\ events' = Append(events, Removed(s))
  BY DEF NodeVanishes, GraphOnly, Post, Removed
<1>2. /\ at' \in [Slots -> Places] /\ at'[s] = "left" /\ \A t \in Slots : t # s => at'[t] = at[t]
  BY <1>0, <1>1 DEF TypeOK, Move, Places
<1>3. \A i \in 1..Len(events) : events[i].type # "disconnected"
  BY <1>0, <1>1 DEF LossOK
<1>4. QueueOK(events', at', known')
  <2>1. Removed(s) \in {Added(s), Removed(s)} /\ Added(s) # Removed(s)
    BY DEF Added, Removed
  <2>2. QueueOK(Append(events, Removed(s)), at', known)
    BY <1>0, <1>1, <1>2, <1>3, <2>1, PostNode
  <2> QED
    BY <1>1, <2>2
<1>5. LossOK(events', server')
  <2>1. Removed(s).type # "disconnected"
    BY DEF Removed
  <2>2. LossOK(Append(events, Removed(s)), server)
    BY <1>0, <2>1, LossKept
  <2> QED
    BY <1>1, <2>2 DEF link
<1>6. events' \in Seq(Event) /\ Len(events) + 1 \in 1..Len(events')
      /\ events'[Len(events) + 1] = Removed(s)
      /\ \A i \in 1..Len(events) : \E j \in 1..Len(events') : events'[j] = events[i]
  BY <1>0, <1>1, AppendProperties, AppendKeeps
<1>7. TypeOK'
  BY <1>0, <1>1, <1>2, <1>6 DEF TypeOK, watch, link
<1>8. NothingForgotten'
  <2> SUFFICES ASSUME NEW f \in Wanted \cap Watched
               PROVE  \/ InGraph(f)' \/ f \in pending'
                      \/ RemovalQueued(f)' \/ IsQueued({"recheck", "disconnected"})'
                      \/ settling' \/ ~connected'
    BY <1>1 DEF NothingForgotten, Wanted
  <2>1. DOMAIN events = 1..Len(events) /\ DOMAIN events' = 1..Len(events')
    BY <1>0, <1>6
  <2>2. InGraph(f) => InGraph(f)' \/ RemovalQueued(f)'
    <3>1. CASE f = EdgeOf(s)
      BY <1>6, <2>1, <3>1 DEF RemovalQueued, Removed
    <3>2. CASE f # EdgeOf(s)
      BY <1>2, <3>2 DEF InGraph, Snapshot
    <3> QED
      BY <3>1, <3>2
  <2>3. RemovalQueued(f) => RemovalQueued(f)'
    BY <1>6, <2>1 DEF RemovalQueued
  <2>4. IsQueued({"recheck", "disconnected"}) => IsQueued({"recheck", "disconnected"})'
    BY <1>6, <2>1 DEF IsQueued
  <2> QED
    BY <1>1, <2>2, <2>3, <2>4 DEF IInv, NothingForgotten, watch, link
<1> QED
  BY <1>4, <1>5, <1>7, <1>8 DEF IInv
-----------------------------------------------------------------------------
LEMMA StepIInv == IInv /\ [Next]_vars => IInv'
<1> SUFFICES ASSUME IInv, [Next]_vars
             PROVE  IInv'
  OBVIOUS
<1>1. CASE Commands
  BY <1>1, AddMixIInv, RemoveMixIInv, SetMixOutputsIInv, RebuildIInv DEF Commands
<1>2. CASE HandleEvent
  BY <1>2, RecheckIInv, OnNodeIInv, OnNodeRemovedIInv, OnModuleLoadFailedIInv, OnDisconnectedIInv
  DEF HandleEvent
<1>3. CASE Reconcile \/ CheckPendingEdges \/ Reconnect
  BY <1>3, ReconcileIInv, CheckPendingEdgesIInv, ReconnectIInv
<1>4. CASE ServerDies \/ ServerReturns
  BY <1>4, ServerDiesIInv, ServerReturnsIInv
<1>5. CASE \E e \in Edges : GracePasses(e)
  BY <1>5, GracePassesIInv
<1>6. CASE \E s \in Slots :
             NodeAnnounced(s) \/ NodeVanishes(s) \/ ModuleVanishes(s) \/ ModuleDies(s)
  BY <1>6, NodeAnnouncedIInv, NodeVanishesIInv, ModuleVanishesIInv, ModuleDiesIInv
<1>7. CASE UNCHANGED vars
  BY <1>7 DEF vars, watch, link, counters, IInv, TypeOK, QueueOK, AddedOK, RemovedOK, Once,
              LossIsLast, KnownOK, LossOK, NothingForgotten, Wanted, InGraph, Snapshot,
              RemovalQueued, IsQueued
<1> QED
  BY <1>1, <1>2, <1>3, <1>4, <1>5, <1>6, <1>7 DEF Next

LEMMA Invariance == Spec => []IInv
<1> QED
  BY InitIInv, StepIInv, PTL DEF Spec

\* Every variable of the edges of a mix keeps its type, whatever is queued: slots and events exist,
\* nothing is overdue that is not expected, and no counter passes its bound.
THEOREM TypeCorrect == Spec => []TypeOK
<1>1. IInv => TypeOK
  BY DEF IInv
<1> QED
  BY <1>1, Invariance, PTL

\* An edge of the layout that is missing from the graph is on somebody's list (m_edgePending, the
\* event queue, the reconcile after a connection), for any number of edges, faults and restarts of
\* PipeWire: ensureEdgeLoopbacks, checkPendingEdges and onNodeRemoved between them lose none.
THEOREM NothingIsForgotten == Spec => []NothingForgotten
<1>1. IInv => NothingForgotten
  BY DEF IInv
<1> QED
  BY <1>1, Invariance, PTL
=============================================================================
