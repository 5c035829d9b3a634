-------------------------- MODULE StreamsWatchProofs --------------------------
(***************************************************************************)
(* What holds of two parts of the Mixer that touch nothing in common: the  *)
(* streams of applications, pads and playbacks (Streams), and the layout   *)
(* file (LayoutWatch).  Each half reads without the other.                 *)
(*                                                                         *)
(* Streams, for every set of applications and channels, any number of      *)
(* nodes, voices and events, whichever of two nodes of one name the graph  *)
(* hands out.  Besides the types, SInv says what the properties rest on:   *)
(*   - a channel whose chain was not changed in a hurry has at most one    *)
(*     that stays, and whatever waits for it knows the one that goes, so   *)
(*     that another node of the name is the one that stays (Settled).  A   *)
(*     channel loses its chain to another's change, too, when its slug     *)
(*     begins with the other's; that is a hurry if something waits for it; *)
(*   - every relay an application is owed stands (RelaysStand): what one   *)
(*     loop destroys the other loads again in the same call, or it is not  *)
(*     owed any more.  The cases in which the second loop takes a dying    *)
(*     relay for a standing one, and those in which a relay goes with one  *)
(*     stream though another of its node name plays on, are recorded in    *)
(*     `tripped`.                                                          *)
(* The loops over channels are folds; the first lemmas say what a fold     *)
(* over a list without repetition keeps.                                   *)
(***************************************************************************)
EXTENDS Streams, LayoutWatch, SequenceTheorems, FiniteSetTheorems, WellFoundedInduction, TLAPS

-----------------------------------------------------------------------------
(* Numbers: induction, the smallest and the largest of a set               *)

LEMMA Smallest ==
  ASSUME NEW s \in SUBSET Nat, s # {}
  PROVE  \E x \in s : \A y \in s : x <= y
<1>1. PICK x \in s : \A y \in s : <<y, x>> \notin OpToRel(<, Nat)
  BY NatLessThanWellFounded, WFMin
<1>2. ASSUME NEW y \in s PROVE x <= y
  <2>1. ~(y < x)
    BY <1>1 DEF OpToRel
  <2> QED
    BY <2>1
<1> QED
  BY <1>2

LEMMA LargestBelow ==
  ASSUME NEW k \in Nat, NEW s \in SUBSET (0..k), s # {}
  PROVE  \E x \in s : \A y \in s : y <= x
<1> DEFINE t == {k - x : x \in s}
<1>1. t \in SUBSET Nat /\ t # {}
  <2>1. ASSUME NEW x \in s PROVE k - x \in Nat
    <3>1. x \in 0..k
      OBVIOUS
    <3> QED
      BY <3>1
  <2>2. t \in SUBSET Nat
    BY <2>1
  <2>3. t # {}
    OBVIOUS
  <2> QED
    BY <2>2, <2>3
<1>2. PICK z \in t : \A y \in t : z <= y
  <2> HIDE DEF t
  <2> QED
    BY <1>1, Smallest
<1>3. PICK x \in s : z = k - x
  OBVIOUS
<1>4. ASSUME NEW y \in s PROVE y <= x
  <2>1. k - y \in t
    OBVIOUS
  <2>2. k - x <= k - y
    BY <1>2, <1>3, <2>1
  <2> QED
    BY <2>2
<1> QED
  BY <1>4

LEMMA MaxIsLargest ==
  ASSUME NEW k \in Nat, NEW s \in SUBSET (1..k), s # {}
  PROVE  Max(s) \in s /\ \A y \in s : y <= Max(s)
<1>1. s \in SUBSET (0..k)
  OBVIOUS
<1>2. \E x \in s : \A y \in s : x >= y
  BY <1>1, LargestBelow
<1> QED
  BY <1>2 DEF Max

\* What holds of 0 and of the next number holds of every number.
LEMMA Induction ==
  ASSUME NEW T, 0 \in T, \A n \in Nat : n \in T => n + 1 \in T
  PROVE  Nat \subseteq T
<1> SUFFICES ASSUME Nat \ T # {} PROVE FALSE
  OBVIOUS
<1> DEFINE U == Nat \ T
<1>1. U \in SUBSET Nat /\ U # {}
  OBVIOUS
<1>2. PICK x \in U : \A y \in U : x <= y
  <2> HIDE DEF U
  <2> QED
    BY <1>1, Smallest
<1>3. x - 1 \in U
  OBVIOUS
<1> QED
  BY <1>2, <1>3

-----------------------------------------------------------------------------
(* The two loops of the module: over the channels of a list that is merged *)
(* into another, and over those that get a relay                           *)

\* One turn of either.
Turn(loop, acc, c) ==
  IF loop.merges THEN With(acc, c) ELSE EnsureOne(acc, loop.key, c, loop.from, loop.older)
After(f, s, base, q, loop) ==
  IF s = {} THEN base ELSE Turn(loop, f[s \ {Max(s)}], q[Max(s)])
IsFold(f, k, base, q, loop) == f = [s \in SUBSET (1..k) |-> After(f, s, base, q, loop)]

LEMMA FoldExists ==
  ASSUME NEW base, NEW q, NEW loop, NEW k \in Nat
  PROVE  \E f : IsFold(f, k, base, q, loop)
<1> DEFINE T == {n \in Nat : \E f : IsFold(f, n, base, q, loop)}
<1>1. 0 \in T
  <2> DEFINE f == [s \in SUBSET (1..0) |-> base]
  <2>1. IsFold(f, 0, base, q, loop)
    BY DEF IsFold, After
  <2> QED
    BY <2>1
<1>2. ASSUME NEW n \in Nat, n \in T PROVE n + 1 \in T
  <2>1. PICK f : IsFold(f, n, base, q, loop)
    BY <1>2
  <2> DEFINE g == [s \in SUBSET (1..(n + 1)) |-> After(f, s, base, q, loop)]
  <2>2. ASSUME NEW s \in SUBSET (1..n) PROVE g[s] = f[s]
    <3>1. s \in SUBSET (1..(n + 1))
      OBVIOUS
    <3> QED
      BY <2>1, <3>1 DEF IsFold
  <2>3. ASSUME NEW s \in SUBSET (1..(n + 1)), s # {} PROVE s \ {Max(s)} \in SUBSET (1..n)
    <3>1. Max(s) \in s /\ \A y \in s : y <= Max(s)
      <4>1. n + 1 \in Nat
        OBVIOUS
      <4> QED
        BY <2>3, <4>1, MaxIsLargest
    <3>2. ASSUME NEW y \in s, y # Max(s) PROVE y \in 1..n
      <4>1. y \in 1..(n + 1) /\ Max(s) \in 1..(n + 1) /\ y <= Max(s)
        BY <3>1
      <4> QED
        BY <3>2, <4>1
    <3> QED
      BY <3>2
  <2> HIDE DEF g
  <2>4. ASSUME NEW s \in SUBSET (1..(n + 1))
        PROVE  After(f, s, base, q, loop) = After(g, s, base, q, loop)
    BY <2>2, <2>3 DEF After
  <2>5. IsFold(g, n + 1, base, q, loop)
    BY <2>4 DEF g, IsFold
  <2> QED
    BY <2>5
<1>3. Nat \subseteq T
  <2> HIDE DEF T
  <2> QED
    BY <1>1, <1>2, Induction
<1> QED
  BY <1>3

\* What a loop passes through: a set D[i] for every turn i.
LEMMA FoldPasses ==
  ASSUME NEW k \in Nat, NEW base, NEW q, NEW loop, NEW f, IsFold(f, k, base, q, loop),
         NEW D, base \in D[0],
         \A i \in 1..k : \A acc \in D[i - 1] : Turn(loop, acc, q[i]) \in D[i]
  PROVE  f[1..k] \in D[k]
<1> DEFINE T == {n \in Nat : n <= k => f[1..n] \in D[n]}
<1>1. 0 \in T
  <2>1. 1..0 = {} /\ {} \in SUBSET (1..k)
    OBVIOUS
  <2> QED
    BY <2>1 DEF IsFold, After
<1>2. ASSUME NEW n \in Nat, n \in T PROVE n + 1 \in T
  <2> SUFFICES ASSUME n + 1 <= k PROVE f[1..(n + 1)] \in D[n + 1]
    OBVIOUS
  <2>1. f[1..n] \in D[n] /\ n + 1 \in 1..k /\ (n + 1) - 1 = n
    BY <1>2
  <2> DEFINE s == 1..(n + 1)
  <2>2. s \in SUBSET (1..k) /\ s \in SUBSET (1..(n + 1)) /\ s # {} /\ n + 1 \in s
    <3>1. \A i \in 1..(n + 1) : i \in 1..k
      BY <2>1
    <3>2. n + 1 \in 1..(n + 1)
      OBVIOUS
    <3> QED
      BY <3>1, <3>2
  <2>3. Max(s) = n + 1
    <3>1. Max(s) \in s /\ n + 1 <= Max(s)
      <4> HIDE DEF s
      <4>1. n + 1 \in Nat
        OBVIOUS
      <4> QED
        BY <2>2, <4>1, MaxIsLargest
    <3> QED
      BY <3>1
  <2>4. s \ {n + 1} = 1..n
    OBVIOUS
  <2> HIDE DEF s
  <2>5. f[s] = Turn(loop, f[1..n], q[n + 1])
    BY <2>2, <2>3, <2>4 DEF IsFold, After
  <2> QED
    BY <2>1, <2>5 DEF s
<1>3. Nat \subseteq T
  <2> HIDE DEF T
  <2> QED
    BY <1>1, <1>2, Induction
<1> QED
  BY <1>3

-----------------------------------------------------------------------------
(* Lists of channels                                                       *)

LEMMA ListsAre ==
  ASSUME NEW s
  PROVE  /\ s \in Lists <=> s \in Seq(Channels) /\ IsInjective(s)
         /\ s \in Lists => Len(s) <= Cardinality(Channels)
<1>1. IsFiniteSet(Channels) /\ Cardinality(Channels) \in Nat
  BY StreamsAssumption, FS_CardinalityType
<1>2. ASSUME s \in Lists PROVE s \in Seq(Channels) /\ IsInjective(s) /\ Len(s) <= Cardinality(Channels)
  <2>1. PICK n \in 0..Cardinality(Channels) : s \in [1..n -> Channels]
    BY <1>2 DEF Lists
  <2>2. n \in Nat /\ s \in Seq(Channels) /\ Len(s) = n
    BY <2>1
  <2> QED
    BY <1>1, <1>2, <2>1, <2>2 DEF Lists
<1>3. ASSUME s \in Seq(Channels), IsInjective(s) PROVE s \in Lists
  <2>1. s \in [1..Len(s) -> Channels] /\ Len(s) \in Nat
    BY <1>3
  <2>2. s \in Injection(1..Len(s), Channels)
    BY <1>3, <2>1 DEF Injection, IsInjective
  <2>3. Cardinality(1..Len(s)) = Len(s)
    <3>1. 1 \in Int /\ Len(s) \in Int
      BY <2>1
    <3>2. Cardinality(1..Len(s)) = IF 1 > Len(s) THEN 0 ELSE Len(s) - 1 + 1
      BY <3>1, FS_Interval
    <3> QED
      BY <2>1, <3>2
  <2>4. Len(s) <= Cardinality(Channels)
    BY <1>1, <2>2, <2>3, FS_Injection
  <2>5. Len(s) \in 0..Cardinality(Channels)
    BY <1>1, <2>1, <2>4
  <2> QED
    BY <1>3, <2>1, <2>5 DEF Lists
<1> QED
  BY <1>2, <1>3

LEMMA ShortLists ==
  /\ <<>> \in Lists
  /\ \A c \in Channels : <<c>> \in Lists
<1>1. <<>> \in Seq(Channels) /\ IsInjective(<<>>)
  BY DEF IsInjective
<1>2. ASSUME NEW c \in Channels PROVE <<c>> \in Seq(Channels) /\ IsInjective(<<c>>)
  BY DEF IsInjective
<1> QED
  BY <1>1, <1>2, ListsAre

LEMMA WithKeeps ==
  ASSUME NEW list \in Lists, NEW c \in Channels
  PROVE  With(list, c) \in Lists
<1>1. list \in Seq(Channels) /\ IsInjective(list)
  BY ListsAre
<1>2. CASE c \in Range(list)
  BY <1>2 DEF With
<1>3. CASE c \notin Range(list)
  <2> DEFINE r == Append(list, c)
  <2>1. /\ r \in Seq(Channels) /\ Len(r) = Len(list) + 1 /\ Len(list) \in Nat
        /\ DOMAIN r = 1..(Len(list) + 1) /\ r[Len(list) + 1] = c
        /\ \A i \in 1..Len(list) : r[i] = list[i] /\ r[i] # c
    BY <1>1, <1>3 DEF Range
  <2>2. With(list, c) = r
    BY <1>3 DEF With
  <2> HIDE DEF r
  <2>3. IsInjective(r)
    <3> SUFFICES ASSUME NEW i \in 1..(Len(list) + 1), NEW j \in 1..(Len(list) + 1), r[i] = r[j]
                 PROVE  i = j
      BY <2>1 DEF IsInjective
    <3>1. CASE i = Len(list) + 1 \/ j = Len(list) + 1
      BY <2>1, <3>1
    <3>2. CASE i \in 1..Len(list) /\ j \in 1..Len(list)
      BY <1>1, <2>1, <3>2 DEF IsInjective
    <3> QED
      BY <2>1, <3>1, <3>2
  <2> QED
    BY <2>1, <2>2, <2>3, ListsAre
<1> QED
  BY <1>2, <1>3

\* Whatever is merged into a list, no channel is in it twice.
LEMMA FoldedWith ==
  ASSUME NEW base \in Lists, NEW q \in Lists
  PROVE  FoldLeft(With, base, q) \in Lists
<1> DEFINE k == Len(q)
           loop == [merges |-> TRUE]
           iter == CHOOSE f : f = [s \in SUBSET DOMAIN q |->
                     IF s = {} THEN base ELSE With(f[s \ {Max(s)}], q[Max(s)])]
<1>1. q \in Seq(Channels) /\ k \in Nat /\ DOMAIN q = 1..k /\ \A i \in 1..k : q[i] \in Channels
  BY ListsAre
<1>2. FoldLeft(With, base, q) = iter[DOMAIN q]
  BY DEF FoldLeft, MapThenFoldSet
<1>3. \A acc, c : Turn(loop, acc, c) = With(acc, c)
  BY DEF Turn
<1> HIDE DEF loop, k
<1>4. PICK f : IsFold(f, k, base, q, loop)
  BY <1>1, FoldExists
<1>5. f = [s \in SUBSET DOMAIN q |-> IF s = {} THEN base ELSE With(f[s \ {Max(s)}], q[Max(s)])]
  BY <1>1, <1>3, <1>4 DEF IsFold, After
<1>6. iter = [s \in SUBSET DOMAIN q |->
                IF s = {} THEN base ELSE With(iter[s \ {Max(s)}], q[Max(s)])]
  BY <1>5
<1> HIDE DEF iter
<1>7. IsFold(iter, k, base, q, loop)
  BY <1>1, <1>3, <1>6 DEF IsFold, After
<1> DEFINE D == [i \in 0..k |-> Lists]
<1>8. base \in D[0]
  BY <1>1
<1>9. ASSUME NEW i \in 1..k, NEW acc \in D[i - 1] PROVE Turn(loop, acc, q[i]) \in D[i]
  BY <1>1, <1>3, WithKeeps
<1>10. k \in 0..k
  BY <1>1
<1> HIDE DEF D
<1>11. iter[1..k] \in D[k]
  BY <1>1, <1>7, <1>8, <1>9, FoldPasses
<1> QED
  BY <1>1, <1>2, <1>10, <1>11 DEF D

LEMMA MergedIsList ==
  ASSUME NEW now \in Lists, NEW entry \in Lists, NEW want \in Lists
  PROVE  Merged(now, entry, want) \in Lists
<1>1. FoldLeft(With, now, entry) \in Lists
  BY FoldedWith
<1> QED
  BY <1>1, FoldedWith DEF Merged

-----------------------------------------------------------------------------
(* Nodes                                                                   *)

NodesOK(ns) == ns \subseteq Node /\ \A m, n \in ns : m.id = n.id => m = n

\* The relays of a key into a channel, and what is no relay of the key.
Of(ns, k, c) == {n \in ns : n.role.kind = "relay" /\ n.role.key = k /\ n.role.channel = c}
Rest(ns, k)  == {n \in ns : ~(n.role.kind = "relay" /\ n.role.key = k)}
FxOf(ns)     == {n \in ns : n.role.kind = "fx"}

LEMMA RoleFacts ==
  /\ \A c : Fx(c).kind = "fx" /\ Fx(c).channel = c
  /\ \A k, c, x : LET r == Relay(k, c, x)
                  IN  r.kind = "relay" /\ r.key = k /\ r.channel = c /\ r.from = x
  /\ \A r \in Roles : \/ r.kind = "fx" /\ r.channel \in Channels /\ r = Fx(r.channel)
                      \/ /\ r.kind = "relay" /\ r.key \in Keys /\ r.channel \in Channels
                         /\ r.from \in Names /\ r = Relay(r.key, r.channel, r.from)
  /\ \A k, c, x, d : Relay(k, c, x) # Fx(d)
  /\ \A c \in Channels : Fx(c) \in Roles
  /\ \A k \in Keys, c \in Channels, x \in Names : Relay(k, c, x) \in Roles
<1>1. \A c : Fx(c).kind = "fx" /\ Fx(c).channel = c
  BY DEF Fx
<1>2. \A k, c, x : LET r == Relay(k, c, x)
                 IN  r.kind = "relay" /\ r.key = k /\ r.channel = c /\ r.from = x
  BY DEF Relay
<1>3. ASSUME NEW r \in Roles
      PROVE  \/ r.kind = "fx" /\ r.channel \in Channels /\ r = Fx(r.channel)
             \/ /\ r.kind = "relay" /\ r.key \in Keys /\ r.channel \in Channels
                /\ r.from \in Names /\ r = Relay(r.key, r.channel, r.from)
  <2>1. CASE \E c \in Channels : r = Fx(c)
    BY <1>1, <2>1
  <2>2. CASE \E k \in Keys, c \in Channels, x \in Names : r = Relay(k, c, x)
    BY <1>2, <2>2
  <2> QED
    BY <2>1, <2>2 DEF Roles
<1>4. \A k, c, x, d : Relay(k, c, x) # Fx(d)
  BY <1>1, <1>2
<1>5. /\ \A c \in Channels : Fx(c) \in Roles
      /\ \A k \in Keys, c \in Channels, x \in Names : Relay(k, c, x) \in Roles
  BY DEF Roles
<1> QED
  BY <1>1, <1>2, <1>3, <1>4, <1>5

LEMMA NodesFinite ==
  ASSUME NEW ns, NodesOK(ns)
  PROVE  /\ IsFiniteSet(ns) /\ Cardinality(ns) \in Nat
         /\ Cardinality(ns) < MaxNodes => \E i \in Ids : \A n \in ns : n.id # i
<1> DEFINE f == [n \in ns |-> n.id]
<1>1. IsFiniteSet(Ids) /\ Cardinality(Ids) = MaxNodes
  <2>1. MaxNodes \in Nat /\ 1 \in Int /\ MaxNodes \in Int
    BY StreamsAssumption
  <2>2. IsFiniteSet(1..MaxNodes)
        /\ Cardinality(1..MaxNodes) = IF 1 > MaxNodes THEN 0 ELSE MaxNodes - 1 + 1
    BY <2>1, FS_Interval
  <2> QED
    BY <2>1, <2>2 DEF Ids
<1>2. f \in Injection(ns, Ids)
  <2>1. ASSUME NEW n \in ns PROVE n.id \in Ids
    BY DEF NodesOK, Node
  <2>2. f \in [ns -> Ids]
    BY <2>1
  <2>3. \A m, n \in ns : f[m] = f[n] => m = n
    BY DEF NodesOK
  <2> QED
    BY <2>2, <2>3 DEF Injection, IsInjective
<1>3. IsFiniteSet(ns) /\ (Cardinality(ns) = Cardinality(Ids) <=> f \in Surjection(ns, Ids))
  BY <1>1, <1>2, FS_Injection
<1>4. Cardinality(ns) \in Nat
  BY <1>3, FS_CardinalityType
<1>5. ASSUME Cardinality(ns) < MaxNodes PROVE \E i \in Ids : \A n \in ns : n.id # i
  <2>1. Cardinality(ns) # Cardinality(Ids)
    BY <1>1, <1>4, <1>5, StreamsAssumption
  <2>2. f \notin Surjection(ns, Ids)
    BY <1>3, <2>1
  <2> QED
    BY <1>2, <2>2 DEF Surjection, Injection
<1> QED
  BY <1>3, <1>4, <1>5

LEMMA TwinIsOne ==
  ASSUME NEW ns, NodesOK(ns), NEW some \in SUBSET ns, some # {}, NEW older
  PROVE  Twin(some, older) \in some
<1> DEFINE ids == {n.id : n \in some}
<1>1. ids \in SUBSET (0..MaxNodes) /\ ids \in SUBSET Nat /\ ids # {} /\ MaxNodes \in Nat
  <2>1. ASSUME NEW n \in some PROVE n.id \in 1..MaxNodes
    BY DEF NodesOK, Node, Ids
  <2>2. ASSUME NEW i \in ids PROVE i \in 1..MaxNodes
    BY <2>1
  <2>3. MaxNodes \in Nat
    BY StreamsAssumption
  <2>4. ids # {}
    OBVIOUS
  <2> HIDE DEF ids
  <2> QED
    BY <2>2, <2>3, <2>4
<1>2. \E x \in ids : \A y \in ids : x <= y
  <2> HIDE DEF ids
  <2> QED
    BY <1>1, Smallest
<1>3. \E x \in ids : \A y \in ids : y <= x
  <2> HIDE DEF ids
  <2> QED
    BY <1>1, LargestBelow
<1>4. \E n \in some : \A m \in some : IF older THEN n.id <= m.id ELSE n.id >= m.id
  <2>1. CASE older
    BY <1>2, <2>1
  <2>2. CASE ~older
    <3>1. PICK n \in some : \A m \in some : m.id <= n.id
      BY <1>3
    <3>2. \A m \in some : n.id \in Nat /\ m.id \in Nat
      BY <1>1
    <3> QED
      BY <2>2, <3>1, <3>2
  <2> QED
    BY <2>1, <2>2
<1> QED
  BY <1>4 DEF Twin

LEMMA LoadedNode ==
  ASSUME NEW ns, NodesOK(ns), Cardinality(ns) < MaxNodes, NEW role \in Roles
  PROVE  /\ NodesOK(Loaded(ns, role))
         /\ Cardinality(Loaded(ns, role)) = Cardinality(ns) + 1
         /\ \E i \in Ids : LET n == [id |-> i, role |-> role, state |-> "loading"]
                           IN  n \notin ns /\ Loaded(ns, role) = ns \cup {n}
<1> DEFINE i == CHOOSE j \in Ids : \A n \in ns : n.id # j
           new == [id |-> i, role |-> role, state |-> "loading"]
<1>1. i \in Ids /\ \A n \in ns : n.id # i
  BY NodesFinite
<1>2. Loaded(ns, role) = ns \cup {new}
  BY DEF Loaded
<1> HIDE DEF i
<1>3. new \in Node /\ new \notin ns
  BY <1>1 DEF Node, States
<1>4. NodesOK(ns \cup {new})
  BY <1>1, <1>3 DEF NodesOK
<1>5. Cardinality(ns \cup {new}) = Cardinality(ns) + 1
  BY <1>3, NodesFinite, FS_AddElement
<1> QED
  BY <1>1, <1>2, <1>3, <1>4, <1>5

\* What becomes of one node.
Dying(n, some) == IF n \in some THEN [n EXCEPT !.state = "dying"] ELSE n

LEMMA DestroyedNodes ==
  ASSUME NEW ns, NodesOK(ns), NEW some
  PROVE  /\ Destroyed(ns, some) = {Dying(n, some) : n \in ns}
         /\ NodesOK(Destroyed(ns, some))
         /\ Cardinality(Destroyed(ns, some)) <= Cardinality(ns)
         /\ \A n \in ns : Dying(n, some).id = n.id /\ Dying(n, some).role = n.role
<1> DEFINE T == {Dying(n, some) : n \in ns}
           g == [n \in ns |-> Dying(n, some)]
<1>1. Destroyed(ns, some) = T
  BY DEF Destroyed, Dying
<1>2. ASSUME NEW n \in ns
      PROVE  Dying(n, some) \in Node /\ Dying(n, some).id = n.id /\ Dying(n, some).role = n.role
  BY DEF Dying, NodesOK, Node, States
<1>3. NodesOK(T)
  BY <1>2 DEF NodesOK
<1>4. g \in Surjection(ns, T)
  BY DEF Surjection
<1>5. Cardinality(T) <= Cardinality(ns)
  <2> HIDE DEF T, g
  <2> QED
    BY <1>4, NodesFinite, FS_Surjection
<1> QED
  BY <1>1, <1>2, <1>3, <1>5

-----------------------------------------------------------------------------
(* Relays                                                                  *)

LEMMA ExtrasAre ==
  ASSUME NEW chans \in Lists, Len(chans) > 1
  PROVE  /\ Tail(chans) \in Seq(Channels) /\ Len(Tail(chans)) = Len(chans) - 1
         /\ IsInjective(Tail(chans)) /\ Len(Tail(chans)) <= Cardinality(Channels)
         /\ Extras(chans) \subseteq Channels
         /\ Extras(chans) = {Tail(chans)[i] : i \in 1..Len(Tail(chans))}
<1> DEFINE q == Tail(chans)
<1>1. chans \in Seq(Channels) /\ IsInjective(chans) /\ Len(chans) <= Cardinality(Channels)
  BY ListsAre
<1>2. Cardinality(Channels) \in Nat /\ Len(chans) \in Nat
  BY <1>1, StreamsAssumption, FS_CardinalityType
<1>3. /\ q \in Seq(Channels) /\ Len(q) = Len(chans) - 1 /\ DOMAIN q = 1..(Len(chans) - 1)
      /\ \A i \in 1..(Len(chans) - 1) : q[i] = chans[i + 1]
  BY <1>1
<1> HIDE DEF q
<1>4. IsInjective(q)
  <2> SUFFICES ASSUME NEW i \in 1..(Len(chans) - 1), NEW j \in 1..(Len(chans) - 1), q[i] = q[j]
               PROVE  i = j
    BY <1>3 DEF IsInjective
  <2>1. i + 1 \in 1..Len(chans) /\ j + 1 \in 1..Len(chans) /\ chans[i + 1] = chans[j + 1]
    BY <1>2, <1>3
  <2>2. DOMAIN chans = 1..Len(chans)
    BY <1>1
  <2>3. i + 1 = j + 1
    BY <1>1, <2>1, <2>2 DEF IsInjective
  <2> QED
    BY <2>3
<1>5. Extras(chans) = {q[i] : i \in DOMAIN q}
  BY DEF Extras, Range, q
<1>6. DOMAIN q = 1..Len(q)
  BY <1>3
<1>7. Extras(chans) \subseteq Channels /\ Extras(chans) = {q[i] : i \in 1..Len(q)}
  BY <1>3, <1>5, <1>6
<1>8. Len(q) <= Cardinality(Channels)
  BY <1>1, <1>2, <1>3
<1> QED
  BY <1>3, <1>4, <1>7, <1>8 DEF q

\* What is taken down are relays of the key into the channels named, of those
\* the graph lists.
LEMMA StandingAre ==
  ASSUME NEW ns, NodesOK(ns), NEW k, NEW chans \in Lists, NEW older,
         NEW n \in Standing(ns, k, chans, older)
  PROVE  Len(chans) > 1 /\ \E c \in Extras(chans) : n \in RelaysOf(ns, k, c)
<1>1. Len(chans) > 1
  <2>1. Len(chans) \in Nat /\ ~(Len(chans) < 2)
    BY ListsAre DEF Standing
  <2> QED
    BY <2>1
<1>2. PICK c \in Extras(chans) : RelaysOf(ns, k, c) # {}
                                 /\ n = Twin(RelaysOf(ns, k, c), older)
  <2>1. ~(Len(chans) < 2)
    BY DEF Standing
  <2> QED
    BY <2>1 DEF Standing
<1>3. RelaysOf(ns, k, c) \in SUBSET ns
  BY DEF RelaysOf, Listed
<1> QED
  BY <1>1, <1>2, <1>3, TwinIsOne

LEMMA RelaysRemoved ==
  ASSUME NEW ns, NodesOK(ns), NEW k, NEW chans \in Lists, NEW older
  PROVE  LET ms == RemoveAppRelays(ns, k, chans, older)
         IN  /\ NodesOK(ms) /\ Cardinality(ms) <= Cardinality(ns)
             /\ Rest(ms, k) = Rest(ns, k)
             /\ \A m \in ms : \E n \in ns :
                  /\ n.role = m.role
                  /\ \/ m = n
                     \/ /\ Len(chans) > 1
                        /\ \E c \in Extras(chans) : n \in RelaysOf(ns, k, c)
<1> DEFINE some == Standing(ns, k, chans, older)
           ms   == RemoveAppRelays(ns, k, chans, older)
<1>1. ms = Destroyed(ns, some)
  BY DEF RemoveAppRelays
<1>2. ASSUME NEW n \in some
      PROVE  Len(chans) > 1 /\ \E c \in Extras(chans) : n \in RelaysOf(ns, k, c)
  BY StandingAre
<1> HIDE DEF some
<1>3. /\ ms = {Dying(n, some) : n \in ns} /\ NodesOK(ms) /\ Cardinality(ms) <= Cardinality(ns)
      /\ \A n \in ns : Dying(n, some).role = n.role
  BY <1>1, DestroyedNodes
<1>4. Rest(ms, k) = Rest(ns, k)
  <2>1. ASSUME NEW n \in ns, n \in some PROVE n \notin Rest(ns, k) /\ Dying(n, some) \notin Rest(ms, k)
    BY <1>2, <1>3, <2>1 DEF RelaysOf, Rest
  <2>2. ASSUME NEW n \in ns, n \notin some PROVE Dying(n, some) = n
    BY <2>2 DEF Dying
  <2> HIDE DEF ms
  <2>3. ASSUME NEW n \in Rest(ns, k) PROVE n \in Rest(ms, k)
    BY <1>3, <2>1, <2>2 DEF Rest
  <2>4. ASSUME NEW n \in Rest(ms, k) PROVE n \in Rest(ns, k)
    BY <1>3, <2>1, <2>2 DEF Rest
  <2> QED
    BY <2>3, <2>4 DEF Rest
<1>5. ASSUME NEW m \in ms
      PROVE  \E n \in ns : /\ n.role = m.role
                           /\ \/ m = n
                              \/ /\ Len(chans) > 1
                                 /\ \E c \in Extras(chans) : n \in RelaysOf(ns, k, c)
  <2> HIDE DEF ms
  <2>1. PICK n \in ns : m = Dying(n, some)
    BY <1>3
  <2>2. n \in some \/ m = n
    BY <2>1 DEF Dying
  <2> QED
    BY <1>2, <1>3, <2>1, <2>2
<1> QED
  BY <1>3, <1>4, <1>5

\* One turn of ensureAppRelays(): a relay that is there or on its way, unless
\* one that captures the right node was seen.
LEMMA OneEnsured ==
  ASSUME NEW ns, NodesOK(ns), Cardinality(ns) < MaxNodes, NEW k \in Keys, NEW c \in Channels,
         NEW from \in Names, NEW older
  PROVE  LET ms == EnsureOne(ns, k, c, from, older)
         IN  /\ NodesOK(ms) /\ Cardinality(ms) <= Cardinality(ns) + 1
             /\ Rest(ms, k) = Rest(ns, k)
             /\ \A d : d # c => Of(ms, k, d) = Of(ns, k, d)
             /\ \E n \in ms : n.role = Relay(k, c, from) /\ (n.state # "dying" \/ n \in ns)
<1> DEFINE seen == RelaysOf(ns, k, c)
           one  == Twin(seen, older)
           role == Relay(k, c, from)
           ms   == EnsureOne(ns, k, c, from, older)
<1>1. seen \in SUBSET ns /\ \A n \in seen : n.role.kind = "relay" /\ n.role.key = k /\ n.role.channel = c
  BY DEF RelaysOf, Listed
<1>2. seen # {} => one \in seen
  BY <1>1, TwinIsOne
<1>3. role \in Roles /\ role.kind = "relay" /\ role.key = k /\ role.channel = c
  BY RoleFacts
<1>4. Cardinality(ns) \in Nat
  BY NodesFinite
<1>5. CASE seen # {} /\ one.role.from = from
  <2>1. ms = ns
    BY <1>5 DEF EnsureOne
  <2>2. one.role \in Roles
    BY <1>1, <1>2, <1>5 DEF NodesOK, Node
  <2>3. one.role = role
    BY <1>1, <1>2, <1>5, <2>2, RoleFacts
  <2> QED
    BY <1>1, <1>2, <1>4, <1>5, <2>1, <2>3
<1>6. CASE ~(seen # {} /\ one.role.from = from)
  <2> DEFINE kept == IF seen = {} THEN ns ELSE Destroyed(ns, {one})
  <2>1. ms = Loaded(kept, role)
    BY <1>6 DEF EnsureOne
  <2>2. /\ NodesOK(kept) /\ Cardinality(kept) <= Cardinality(ns)
        /\ Rest(kept, k) = Rest(ns, k)
        /\ \A d : d # c => Of(kept, k, d) = Of(ns, k, d)
    <3>1. CASE seen = {}
      BY <1>4, <3>1
    <3>2. CASE seen # {}
      <4>1. /\ kept = {Dying(n, {one}) : n \in ns} /\ NodesOK(kept)
            /\ Cardinality(kept) <= Cardinality(ns)
            /\ \A n \in ns : Dying(n, {one}).role = n.role
        <5> DEFINE gone == {one}
        <5>1. kept = Destroyed(ns, gone)
          BY <3>2
        <5> HIDE DEF kept, gone
        <5>2. /\ kept = {Dying(n, gone) : n \in ns} /\ NodesOK(kept)
              /\ Cardinality(kept) <= Cardinality(ns)
              /\ \A n \in ns : Dying(n, gone).role = n.role
          BY <5>1, DestroyedNodes
        <5> QED
          BY <5>2 DEF gone
      <4>2. one \in ns /\ one.role.kind = "relay" /\ one.role.key = k /\ one.role.channel = c
        BY <1>1, <1>2, <3>2
      <4>3. \A n \in ns : n # one => Dying(n, {one}) = n
        BY DEF Dying
      <4> HIDE DEF kept, one
      <4>4. Rest(kept, k) = Rest(ns, k)
        <5>1. ASSUME NEW n \in Rest(ns, k) PROVE n \in Rest(kept, k)
          BY <4>1, <4>2, <4>3 DEF Rest
        <5>2. ASSUME NEW n \in Rest(kept, k) PROVE n \in Rest(ns, k)
          BY <4>1, <4>2, <4>3 DEF Rest
        <5> QED
          BY <5>1, <5>2 DEF Rest
      <4>5. ASSUME NEW d, d # c PROVE Of(kept, k, d) = Of(ns, k, d)
        <5>1. ASSUME NEW n \in Of(ns, k, d) PROVE n \in Of(kept, k, d)
          BY <4>1, <4>2, <4>3, <4>5 DEF Of
        <5>2. ASSUME NEW n \in Of(kept, k, d) PROVE n \in Of(ns, k, d)
          BY <4>1, <4>2, <4>3, <4>5 DEF Of
        <5> QED
          BY <5>1, <5>2 DEF Of
      <4> QED
        BY <4>1, <4>4, <4>5
    <3> QED
      BY <3>1, <3>2
  <2> HIDE DEF kept
  <2>3. Cardinality(kept) \in Nat /\ Cardinality(kept) < MaxNodes /\ MaxNodes \in Nat
    BY <1>4, <2>2, NodesFinite, StreamsAssumption
  <2>4. /\ NodesOK(Loaded(kept, role)) /\ Cardinality(Loaded(kept, role)) = Cardinality(kept) + 1
        /\ \E i \in Ids : LET n == [id |-> i, role |-> role, state |-> "loading"]
                          IN  n \notin kept /\ Loaded(kept, role) = kept \cup {n}
    BY <1>3, <2>2, <2>3, LoadedNode
  <2>5. PICK n : n.role = role /\ n.state = "loading" /\ ms = kept \cup {n}
    BY <2>1, <2>4
  <2> HIDE DEF ms, role
  <2>6. Rest(ms, k) = Rest(kept, k)
    BY <1>3, <2>5 DEF Rest
  <2>7. ASSUME NEW d, d # c PROVE Of(ms, k, d) = Of(kept, k, d)
    BY <1>3, <2>5, <2>7 DEF Of
  <2>8. Cardinality(ms) <= Cardinality(ns) + 1 /\ NodesOK(ms)
    BY <1>4, <2>1, <2>2, <2>3, <2>4
  <2>9. \E m \in ms : m.role = role /\ m.state # "dying"
    BY <2>5
  <2> QED
    BY <2>2, <2>6, <2>7, <2>8, <2>9 DEF ms, role
<1> QED
  BY <1>5, <1>6

\* The loop of ensureAppRelays(), with room for one more relay a channel: none
\* but relays of the key are touched, and each channel has its own.
LEMMA RelaysEnsured ==
  ASSUME NEW ns, NodesOK(ns), Room(ns, Cardinality(Channels)), NEW k \in Keys, NEW chans \in Lists,
         NEW from \in Names, NEW there, NEW older
  PROVE  LET ms == EnsureAppRelays(ns, k, chans, from, there, older)
         IN  /\ NodesOK(ms) /\ Rest(ms, k) = Rest(ns, k)
             /\ Len(chans) > 1 /\ from \in there =>
                  \A c \in Extras(chans) : \E n \in ms :
                    n.role = Relay(k, c, from) /\ (n.state # "dying" \/ n \in ns)
<1> DEFINE ms == EnsureAppRelays(ns, k, chans, from, there, older)
           q  == Tail(chans)
           m  == Len(q)
           N  == Cardinality(Channels)
           loop == [merges |-> FALSE, key |-> k, from |-> from, older |-> older]
<1>1. Len(chans) \in Nat
  BY ListsAre
<1>2. CASE Len(chans) < 2
  BY <1>1, <1>2 DEF EnsureAppRelays
<1>3. CASE ~(Len(chans) < 2) /\ from \notin there
  <2>1. ms = RemoveAppRelays(ns, k, chans, older)
    BY <1>3 DEF EnsureAppRelays
  <2> QED
    BY <1>3, <2>1, RelaysRemoved
<1>4. CASE Len(chans) > 1 /\ from \in there
  <2> DEFINE iter == CHOOSE f : f = [s \in SUBSET DOMAIN q |->
                       IF s = {} THEN ns
                       ELSE EnsureOne(f[s \ {Max(s)}], k, q[Max(s)], from, older)]
  <2>1. ~(Len(chans) < 2) /\ ~(from \notin there)
    BY <1>1, <1>4
  <2>2. ms = iter[DOMAIN q]
    BY <2>1 DEF EnsureAppRelays, FoldLeft, MapThenFoldSet
  <2>3. /\ q \in Seq(Channels) /\ IsInjective(q) /\ m \in Nat /\ DOMAIN q = 1..m /\ m <= N
        /\ Extras(chans) = {q[i] : i \in 1..m} /\ \A i \in 1..m : q[i] \in Channels
    BY <1>1, <1>4, ExtrasAre
  <2>4. \A acc, c : Turn(loop, acc, c) = EnsureOne(acc, k, c, from, older)
    BY DEF Turn
  <2> HIDE DEF loop, m, q
  <2>5. PICK f : IsFold(f, m, ns, q, loop)
    BY <2>3, FoldExists
  <2>6. f = [s \in SUBSET DOMAIN q |->
               IF s = {} THEN ns ELSE EnsureOne(f[s \ {Max(s)}], k, q[Max(s)], from, older)]
    BY <2>3, <2>4, <2>5 DEF IsFold, After
  <2>7. iter = [s \in SUBSET DOMAIN q |->
                  IF s = {} THEN ns ELSE EnsureOne(iter[s \ {Max(s)}], k, q[Max(s)], from, older)]
    BY <2>6
  <2> HIDE DEF iter, ms
  <2>8. IsFold(iter, m, ns, q, loop)
    BY <2>3, <2>4, <2>7 DEF IsFold, After
  <2> DEFINE HeardIn(acc, c) == \E n \in acc :
               n.role = Relay(k, c, from) /\ (n.state # "dying" \/ n \in ns)
             Stage(i, acc) ==
               /\ NodesOK(acc) /\ Cardinality(acc) <= Cardinality(ns) + i
               /\ Rest(acc, k) = Rest(ns, k)
               /\ \A d : (\A j \in 1..i : d # q[j]) => Of(acc, k, d) = Of(ns, k, d)
               /\ \A j \in 1..i : HeardIn(acc, q[j])
             D == [i \in 0..m |-> {acc \in SUBSET Node : Stage(i, acc)}]
  <2>9. Cardinality(ns) \in Nat /\ N \in Nat /\ MaxNodes \in Nat /\ Cardinality(ns) + N <= MaxNodes
    BY NodesFinite, StreamsAssumption, FS_CardinalityType DEF Room
  <2>10. ns \in D[0]
    <3>1. Stage(0, ns) /\ ns \in SUBSET Node
      BY <2>9 DEF NodesOK
    <3> QED
      BY <2>3, <3>1
  <2>11. ASSUME NEW i \in 1..m, NEW acc \in D[i - 1] PROVE Turn(loop, acc, q[i]) \in D[i]
    <3> DEFINE c == q[i]
               r == EnsureOne(acc, k, c, from, older)
    <3>1. i - 1 \in 0..m /\ i \in 0..m /\ c \in Channels /\ i - 1 \in Nat
      BY <2>3
    <3>2. Stage(i - 1, acc) /\ acc \in SUBSET Node
      BY <3>1
    <3>3. Cardinality(acc) < MaxNodes /\ Cardinality(acc) \in Nat
      <4>1. NodesOK(acc) /\ Cardinality(acc) <= Cardinality(ns) + (i - 1)
        BY <3>2
      <4>2. Cardinality(acc) \in Nat
        BY <4>1, NodesFinite
      <4> QED
        BY <2>3, <2>9, <3>1, <4>1, <4>2
    <3>4. /\ NodesOK(r) /\ Cardinality(r) <= Cardinality(acc) + 1
          /\ Rest(r, k) = Rest(acc, k)
          /\ \A d : d # c => Of(r, k, d) = Of(acc, k, d)
          /\ \E n \in r : n.role = Relay(k, c, from) /\ (n.state # "dying" \/ n \in acc)
      <4> HIDE DEF c
      <4> QED
        BY <3>1, <3>2, <3>3, OneEnsured
    <3>5. \A j \in 1..(i - 1) : c # q[j]
      BY <2>3, <3>1 DEF IsInjective
    <3> HIDE DEF r, D
    <3>6. Cardinality(r) \in Nat
      BY <3>4, NodesFinite
    <3>7. Cardinality(r) <= Cardinality(ns) + i /\ Rest(r, k) = Rest(ns, k)
      BY <2>9, <3>1, <3>2, <3>3, <3>4, <3>6
    <3>8. ASSUME NEW d, \A j \in 1..i : d # q[j] PROVE Of(r, k, d) = Of(ns, k, d)
      <4>1. d # c /\ \A j \in 1..(i - 1) : d # q[j]
        BY <3>1, <3>8
      <4> QED
        BY <3>2, <3>4, <4>1
    <3>9. ASSUME NEW j \in 1..i PROVE HeardIn(r, q[j])
      <4>1. CASE j = i
        <5>1. PICK n \in r : n.role = Relay(k, c, from) /\ (n.state # "dying" \/ n \in acc)
          BY <3>4
        <5>2. ASSUME n \in acc PROVE n \in ns
          <6>1. n \in Of(acc, k, c)
            BY <5>1, <5>2, RoleFacts DEF Of
          <6>2. Of(acc, k, c) = Of(ns, k, c)
            BY <3>2, <3>5
          <6> QED
            BY <6>1, <6>2 DEF Of
        <5> QED
          BY <4>1, <5>1, <5>2
      <4>2. CASE j # i
        <5>1. j \in 1..(i - 1)
          BY <3>1, <4>2
        <5>2. PICK n \in acc : n.role = Relay(k, q[j], from) /\ (n.state # "dying" \/ n \in ns)
          BY <3>2, <5>1
        <5>3. q[j] # c
          BY <3>5, <5>1
        <5>4. n \in Of(acc, k, q[j])
          BY <5>2, RoleFacts DEF Of
        <5>5. n \in r
          BY <3>4, <5>3, <5>4 DEF Of
        <5> QED
          BY <5>2, <5>5
      <4> QED
        BY <4>1, <4>2
    <3>10. Stage(i, r) /\ r \in SUBSET Node
      BY <3>4, <3>7, <3>8, <3>9 DEF NodesOK
    <3>11. r \in D[i]
      BY <3>1, <3>10 DEF D
    <3> QED
      BY <2>4, <3>11 DEF r
  <2>12. m \in 0..m
    BY <2>3
  <2> HIDE DEF D
  <2>13. iter[1..m] \in D[m]
    BY <2>3, <2>8, <2>10, <2>11, FoldPasses
  <2>14. Stage(m, ms)
    BY <2>2, <2>3, <2>12, <2>13 DEF D
  <2>15. \A c \in Extras(chans) : HeardIn(ms, c)
    BY <2>3, <2>14
  <2> QED
    BY <2>14, <2>15 DEF ms
<1> QED
  BY <1>1, <1>2, <1>3, <1>4

-----------------------------------------------------------------------------
(* The invariant                                                           *)

\* The three parts of the types.
ChainsOK ==
  /\ active \subseteq Channels /\ NodesOK(nodes) /\ waits \subseteq Waits
  /\ hurried \subseteq Channels /\ tripped \subseteq Keys \X Channels
  /\ events \in 0..MaxEvents /\ chains \in 0..MaxChains
RoutesOK ==
  /\ apps \subseteq Apps /\ pending \subseteq apps
  /\ shown \in [Apps -> Lists] /\ home \in [Keys -> Lists]
  /\ target \in [Apps -> Refs] /\ link \in [Apps -> Refs \ {Gone}]
  /\ routed \in [Apps -> Seq(Refs)] /\ \A s \in Apps : Len(routed[s]) <= 2
  /\ \A s \in Apps \ apps : target[s] = None /\ link[s] = None
  /\ named \in [Keys -> Names \cup {None}]
  /\ \A k \in Keys : named[k] = None <=> home[k] = <<>>
  /\ known \subseteq Keys /\ chosen \subseteq known
SoundOK ==
  /\ samples \subseteq Samples /\ voices \subseteq Voice
  /\ track \in [Channels -> Refs \ {Elsewhere}]

LEMMA TypeParts == TypeOK <=> ChainsOK /\ RoutesOK /\ SoundOK
BY Zenon DEF TypeOK, ChainsOK, RoutesOK, SoundOK, NodesOK

LEMMA TypePartsNext == ChainsOK' /\ RoutesOK' /\ SoundOK' => TypeOK'
BY Zenon DEF TypeOK, ChainsOK, RoutesOK, SoundOK, NodesOK

\* Only a default channel is waited for.
Awaiting == pending # {} => Default # None

\* A channel whose chain was not changed in a hurry has at most one that stays,
\* and what waits for it knows the one that goes.
OneChain(c) ==
  \A m, n \in nodes : /\ m.role = Fx(c) /\ n.role = Fx(c)
                      /\ m.state # "dying" /\ n.state # "dying"
                      => m = n
OldKnown(c) ==
  \A w \in waits, n \in nodes :
    /\ w.channel = c /\ w.what = "track"
    /\ n.role = Fx(c) /\ n.state = "dying"
    => n.id = w.old
Settled == \A c \in Channels \ hurried : OneChain(c) /\ OldKnown(c)

\* The relay of every channel an application is expected on is there, or on its way.
RelaysStand ==
  \A k \in Keys, c \in Channels :
    Expected(k, c) => \E n \in nodes : n.state # "dying" /\ n.role = Relay(k, c, named[k])

SInv == TypeOK /\ NothingRevived /\ Awaiting /\ Settled /\ RelaysStand

-----------------------------------------------------------------------------
(* What the actions look at                                                *)

LEMMA KeysOfApps == \A s \in Apps : KeyOf[s] \in Keys /\ NameOf[s] \in Names
BY StreamsAssumption DEF Keys

LEMMA RefsOfChannels ==
  /\ Channels \subseteq Refs \ {None, Gone, Elsewhere}
  /\ Ids \subseteq Refs \ {None, Gone, Elsewhere}
  /\ {None, Gone, Elsewhere} \subseteq Refs
  /\ None # Gone /\ None # Elsewhere /\ Gone # Elsewhere /\ Channels \cap Ids = {}
<1>1. Channels \cap Ids = {} /\ {None, Gone, Elsewhere} \cap (Channels \cup Ids) = {}
  BY NamesAssumption DEF Ids
<1>2. None # Gone /\ None # Elsewhere /\ Gone # Elsewhere
  BY NamesAssumption
<1> HIDE DEF Ids
<1> QED
  BY <1>1, <1>2 DEF Refs

LEMMA EntriesAre ==
  ASSUME NodesOK(nodes), NEW c \in Channels, NEW older
  PROVE  /\ \A n : n \in Entries(c) <=> n \in nodes /\ n.role = Fx(c) /\ n.state # "loading"
         /\ Entries(c) # {} => /\ Twin(Entries(c), older) \in Entries(c)
                               /\ Entry(c, older) = Twin(Entries(c), older).id
                               /\ Entry(c, older) \in Ids /\ Entry(c, older) # None
         /\ Entries(c) = {} => Entry(c, older) = None
         /\ Entry(c, older) \in Ids \cup {None}
         /\ FxTarget(c, older) \in Channels \cup Ids
<1>1. \A n : n \in Entries(c) <=> n \in nodes /\ n.role = Fx(c) /\ n.state # "loading"
  BY DEF Entries, Listed
<1>2. Entries(c) \in SUBSET nodes
  BY <1>1
<1>3. ASSUME Entries(c) # {}
      PROVE  Twin(Entries(c), older) \in Entries(c) /\ Twin(Entries(c), older).id \in Ids
  <2>1. Twin(Entries(c), older) \in Entries(c)
    BY <1>2, <1>3, TwinIsOne
  <2> QED
    BY <1>2, <2>1 DEF NodesOK, Node
<1>4. None \notin Ids
  BY RefsOfChannels
<1> QED
  BY <1>1, <1>3, <1>4 DEF Entry, FxTarget

LEMMA MovedTo ==
  ASSUME RoutesOK, NEW some, NEW ref \in Refs
  PROVE  /\ Moved(some, ref) \in [Apps -> Refs]
         /\ \A s \in Apps \ apps : Moved(some, ref)[s] = None
BY DEF Moved, RoutesOK

LEMMA LiveIsList ==
  ASSUME NodesOK(nodes), NEW ref
  PROVE  Live(ref) \in Lists
<1> DEFINE S == ChannelAt(ref)
           n == Cardinality(S)
           q == SetToSeq(S)
<1>1. S \in SUBSET Channels
  <2>1. ASSUME NEW m \in nodes, m.role.kind = "fx" PROVE m.role.channel \in Channels
    BY <2>1, RoleFacts DEF NodesOK, Node
  <2> QED
    BY <2>1 DEF ChannelAt
<1>2. IsFiniteSet(S)
  BY <1>1, StreamsAssumption, FS_Subset
<1>3. n \in Nat /\ \E f \in [1..n -> S] : IsInjective(f)
  <2>1. n \in Nat /\ ExistsBijection(1..n, S)
    BY <1>2, FS_CardinalityType
  <2> QED
    BY <2>1 DEF ExistsBijection, Bijection, Injection, IsInjective
<1>4. q \in [1..n -> S] /\ IsInjective(q)
  BY <1>3 DEF SetToSeq
<1>5. q \in Seq(Channels)
  BY <1>1, <1>3, <1>4
<1> QED
  BY <1>4, <1>5, ListsAre DEF Live

LEMMA ShownIsList ==
  ASSUME NodesOK(nodes), RoutesOK, NEW s \in Apps, NEW ref
  PROVE  Shown(s, ref) \in Lists
BY LiveIsList, KeysOfApps DEF Shown, RoutesOK

-----------------------------------------------------------------------------
(* The types, action by action                                             *)

\* What an action does to nodes, lists and relays on the way, in one place.
LEMMA AppearsFacts ==
  ASSUME TypeOK, NEW s \in Apps, NEW older, AppAppears(s, older)
  PROVE  LET k       == KeyOf[s]
             x       == NameOf[s]
             renamed == Len(home[k]) > 1 /\ named[k] # x
             freed   == IF renamed THEN RemoveAppRelays(nodes, k, home[k], older) ELSE nodes
         IN  /\ NodesOK(freed) /\ Room(freed, Cardinality(Channels)) /\ Rest(freed, k) = Rest(nodes, k)
             /\ NodesOK(nodes') /\ Rest(nodes', k) = Rest(nodes, k)
             /\ Len(home[k]) > 1 =>
                  \A c \in Extras(home[k]) : \E n \in nodes' :
                    n.role = Relay(k, c, x) /\ (n.state # "dying" \/ n \in freed)
<1> DEFINE k       == KeyOf[s]
           x       == NameOf[s]
           there   == {NameOf[y] : y \in apps'}
           several == Len(home[k]) > 1
           renamed == several /\ named[k] # x
           freed   == IF renamed THEN RemoveAppRelays(nodes, k, home[k], older) ELSE nodes
<1>1. /\ k \in Keys /\ x \in Names /\ home[k] \in Lists /\ NodesOK(nodes) /\ Cardinality(nodes) \in Nat
      /\ Cardinality(Channels) \in Nat /\ MaxNodes \in Nat
  BY TypeParts, KeysOfApps, NodesFinite, StreamsAssumption, FS_CardinalityType DEF ChainsOK, RoutesOK
<1>2. Room(nodes, Cardinality(Channels)) /\ apps' = apps \cup {s}
      /\ nodes' = IF several THEN EnsureAppRelays(freed, k, home[k], x, there, older) ELSE nodes
  BY DEF AppAppears
<1>3. NodesOK(freed) /\ Cardinality(freed) <= Cardinality(nodes) /\ Rest(freed, k) = Rest(nodes, k)
  BY <1>1, RelaysRemoved
<1> HIDE DEF freed, k, x
<1>4. Room(freed, Cardinality(Channels))
  <2>1. Cardinality(freed) \in Nat
    BY <1>3, NodesFinite
  <2> QED
    BY <1>1, <1>2, <1>3, <2>1 DEF Room
<1>5. CASE several
  <2>1. nodes' = EnsureAppRelays(freed, k, home[k], x, there, older)
    BY <1>2, <1>5
  <2>2. x \in there
    BY <1>2 DEF x
  <2> HIDE DEF there
  <2>3. /\ NodesOK(nodes') /\ Rest(nodes', k) = Rest(freed, k)
        /\ \A c \in Extras(home[k]) : \E n \in nodes' :
             n.role = Relay(k, c, x) /\ (n.state # "dying" \/ n \in freed)
    BY <1>1, <1>3, <1>4, <1>5, <2>1, <2>2, RelaysEnsured
  <2> QED
    BY <1>3, <1>4, <2>3 DEF freed, k, x
<1>6. CASE ~several
  <2>1. nodes' = nodes
    BY <1>2, <1>6
  <2> QED
    BY <1>1, <1>3, <1>4, <1>6, <2>1 DEF freed, k, x
<1> QED
  BY <1>5, <1>6

LEMMA AssignFacts ==
  ASSUME TypeOK, NEW s \in Apps, NEW c0 \in Channels, NEW addOn, NEW older, Assign(s, <<c0>>, addOn, older)
  PROVE  LET k     == KeyOf[s]
             old   == home[k]
             new   == IF addOn THEN Merged(shown[s], old, <<c0>>) ELSE <<c0>>
             freed == IF Renewed(old, new) THEN RemoveAppRelays(nodes, k, old, older) ELSE nodes
         IN  /\ new \in Lists /\ new # <<>> /\ new[1] \in Channels
             /\ home' = [home EXCEPT ![k] = new] /\ shown' = [shown EXCEPT ![s] = new]
             /\ NodesOK(freed) /\ Rest(freed, k) = Rest(nodes, k)
             /\ NodesOK(nodes') /\ Rest(nodes', k) = Rest(nodes, k)
             /\ Len(new) > 1 =>
                  \A c \in Extras(new) : \E n \in nodes' :
                    n.role = Relay(k, c, NameOf[s]) /\ (n.state # "dying" \/ n \in freed)
<1> DEFINE k     == KeyOf[s]
           x     == NameOf[s]
           there == {NameOf[y] : y \in apps}
           old   == home[k]
           new   == IF addOn THEN Merged(shown[s], old, <<c0>>) ELSE <<c0>>
           freed == IF Renewed(old, new) THEN RemoveAppRelays(nodes, k, old, older) ELSE nodes
<1>1. /\ k \in Keys /\ x \in Names /\ old \in Lists /\ shown[s] \in Lists /\ NodesOK(nodes) /\ Cardinality(nodes) \in Nat
      /\ Cardinality(Channels) \in Nat /\ MaxNodes \in Nat
  BY TypeParts, KeysOfApps, NodesFinite, StreamsAssumption, FS_CardinalityType DEF ChainsOK, RoutesOK
<1>2. new \in Lists
  BY <1>1, ShortLists, MergedIsList
<1>3. /\ Room(nodes, Cardinality(Channels)) /\ x \in there /\ new # <<>>
      /\ home' = [home EXCEPT ![k] = new] /\ shown' = [shown EXCEPT ![s] = new]
      /\ nodes' = EnsureAppRelays(freed, k, new, x, there, older)
  BY DEF Assign
<1> HIDE DEF new
<1>4. new[1] \in Channels
  <2>1. new \in Seq(Channels)
    BY <1>2, ListsAre
  <2> QED
    BY <1>3, <2>1
<1>5. NodesOK(freed) /\ Cardinality(freed) <= Cardinality(nodes) /\ Rest(freed, k) = Rest(nodes, k)
  <2> HIDE DEF k
  <2>1. CASE Renewed(old, new)
    <3>1. freed = RemoveAppRelays(nodes, k, old, older)
      BY <2>1
    <3> HIDE DEF old, freed
    <3> QED
      BY <1>1, <3>1, RelaysRemoved
  <2>2. CASE ~Renewed(old, new)
    BY <1>1, <2>2
  <2> QED
    BY <2>1, <2>2
<1> HIDE DEF freed, x, there
<1>6. Room(freed, Cardinality(Channels))
  <2>1. Cardinality(freed) \in Nat
    BY <1>5, NodesFinite
  <2> QED
    BY <1>1, <1>3, <1>5, <2>1 DEF Room
<1>7. /\ NodesOK(nodes') /\ Rest(nodes', k) = Rest(freed, k)
      /\ Len(new) > 1 => \A c \in Extras(new) : \E n \in nodes' :
           n.role = Relay(k, c, x) /\ (n.state # "dying" \/ n \in freed)
  BY <1>1, <1>2, <1>3, <1>5, <1>6, RelaysEnsured
<1> QED
  BY <1>2, <1>3, <1>4, <1>5, <1>7 DEF new, freed, x

\* Relays tripped over are relays.
LEMMA TrippedType ==
  ASSUME NEW k \in Keys, NEW chans \in Lists, NEW from, NEW renewed
  PROVE  TrippedOver(k, chans, from, renewed) \subseteq Keys \X Channels
<1>1. Len(chans) \in Nat
  BY ListsAre
<1>2. CASE Len(chans) < 2
  BY <1>2 DEF TrippedOver
<1>3. CASE Len(chans) > 1
  BY <1>1, <1>3, ExtrasAre DEF TrippedOver
<1> QED
  BY <1>1, <1>2, <1>3

LEMMA EventType ==
  ASSUME events \in 0..MaxEvents, Event
  PROVE  events' \in 0..MaxEvents /\ events' # events
BY StreamsAssumption DEF Event

LEMMA AppearsType ==
  ASSUME TypeOK, NEW s \in Apps, NEW older, AppAppears(s, older)
  PROVE  TypeOK'
<1> DEFINE k == KeyOf[s]
<1>1. ChainsOK /\ RoutesOK /\ SoundOK /\ k \in Keys
  BY TypeParts, KeysOfApps
<1>2. NodesOK(nodes') /\ Event
  BY AppearsFacts DEF AppAppears
<1>3. home[k] \in Lists /\ Shown(s, None) \in Lists
  BY <1>1, ShownIsList DEF ChainsOK, RoutesOK
<1>4. tripped' \subseteq Keys \X Channels
  <2>1. \A r : TrippedOver(k, home[k], NameOf[s], r) \subseteq Keys \X Channels
    BY <1>1, <1>3, TrippedType
  <2> QED
    BY <1>1, <2>1 DEF AppAppears, ChainsOK
<1>5. ChainsOK'
  BY <1>1, <1>2, <1>4, EventType DEF AppAppears, ChainsOK, chain
<1>6. RoutesOK'
  <2>1. /\ apps' = apps \cup {s} /\ pending' \subseteq pending \cup {s}
        /\ shown' = [shown EXCEPT ![s] = Shown(s, None)]
        /\ named' = [named EXCEPT ![k] = IF Len(home[k]) > 1 /\ named[k] # NameOf[s] THEN NameOf[s] ELSE @]
        /\ UNCHANGED <<routed, home, known, chosen, target, link>>
    BY DEF AppAppears, where
  <2>2. shown' \in [Apps -> Lists]
    BY <1>1, <1>3, <2>1 DEF RoutesOK
  <2>3. named' \in [Keys -> Names \cup {None}] /\ \A x \in Keys : named'[x] = None <=> home[x] = <<>>
    BY <1>1, <2>1, KeysOfApps, NamesAssumption DEF RoutesOK
  <2> QED
    BY <1>1, <2>1, <2>2, <2>3 DEF RoutesOK
<1>7. SoundOK'
  BY <1>1 DEF AppAppears, SoundOK, board
<1> QED
  BY <1>5, <1>6, <1>7, TypePartsNext

\* The relays that go with a stream are relays, of keys named after it.
LEMMA VanishesFacts ==
  ASSUME TypeOK, NEW s \in Apps, NEW older, AppVanishes(s, older)
  PROVE  LET some == UNION {Standing(nodes, k, home[k], older) :
                              k \in {x \in Keys : named[x] = NameOf[s]}}
         IN  /\ NodesOK(nodes') /\ nodes' = {Dying(n, some) : n \in nodes}
             /\ \A n \in some : \E k \in Keys :
                  /\ named[k] = NameOf[s] /\ Len(home[k]) > 1
                  /\ \E c \in Extras(home[k]) : n \in RelaysOf(nodes, k, c)
<1> DEFINE some == UNION {Standing(nodes, k, home[k], older) :
                            k \in {x \in Keys : named[x] = NameOf[s]}}
<1>1. NodesOK(nodes) /\ \A k \in Keys : home[k] \in Lists
  BY TypeParts DEF ChainsOK, RoutesOK
<1>2. nodes' = Destroyed(nodes, some)
  BY DEF AppVanishes
<1>3. ASSUME NEW n \in some
      PROVE  \E k \in Keys :
               /\ named[k] = NameOf[s] /\ Len(home[k]) > 1
               /\ \E c \in Extras(home[k]) : n \in RelaysOf(nodes, k, c)
  <2>1. PICK k \in Keys : named[k] = NameOf[s] /\ n \in Standing(nodes, k, home[k], older)
    OBVIOUS
  <2> QED
    BY <1>1, <2>1, StandingAre
<1> HIDE DEF some
<1>4. NodesOK(nodes') /\ nodes' = {Dying(n, some) : n \in nodes}
  BY <1>1, <1>2, DestroyedNodes
<1> QED
  BY <1>3, <1>4 DEF some

LEMMA VanishesType ==
  ASSUME TypeOK, NEW s \in Apps, NEW older, AppVanishes(s, older)
  PROVE  TypeOK'
<1>1. ChainsOK /\ RoutesOK /\ SoundOK
  BY TypeParts
<1>2. NodesOK(nodes')
  BY VanishesFacts
<1>3. ChainsOK'
  <2>1. tripped' \subseteq Keys \X Channels
    BY <1>1 DEF AppVanishes, BereftOf, ChainsOK
  <2> QED
    BY <1>1, <1>2, <2>1, EventType DEF AppVanishes, ChainsOK, chain
<1>4. RoutesOK'
  <2>1. /\ apps' = apps \ {s} /\ pending' = pending \ {s}
        /\ target' = [target EXCEPT ![s] = None] /\ link' = [link EXCEPT ![s] = None]
        /\ routed' = [routed EXCEPT ![s] = <<>>] /\ shown' = [shown EXCEPT ![s] = <<>>]
        /\ UNCHANGED <<home, named, known, chosen>>
    BY DEF AppVanishes
  <2>2. /\ shown' \in [Apps -> Lists] /\ target' \in [Apps -> Refs]
        /\ link' \in [Apps -> Refs \ {Gone}]
    BY <1>1, <2>1, ShortLists, RefsOfChannels DEF RoutesOK
  <2>3. routed' \in [Apps -> Seq(Refs)] /\ \A x \in Apps : Len(routed'[x]) <= 2
    <3>1. <<>> \in Seq(Refs) /\ Len(<<>>) <= 2
      OBVIOUS
    <3> QED
      BY <1>1, <2>1, <3>1 DEF RoutesOK
  <2>4. \A x \in Apps \ apps' : target'[x] = None /\ link'[x] = None
    BY <1>1, <2>1 DEF RoutesOK
  <2> QED
    BY <1>1, <2>1, <2>2, <2>3, <2>4 DEF RoutesOK
<1>5. SoundOK'
  BY <1>1 DEF AppVanishes, SoundOK, board
<1> QED
  BY <1>3, <1>4, <1>5, TypePartsNext

LEMMA LinkType ==
  ASSUME TypeOK, NEW s \in Apps, Link(s)
  PROVE  TypeOK'
<1>1. ChainsOK /\ RoutesOK /\ SoundOK
  BY TypeParts
<1>2. PICK ref \in Channels \cup Ids \cup {Elsewhere} :
         link' = [link EXCEPT ![s] = ref] /\ routed' = [routed EXCEPT ![s] = Append(@, ref)]
  <2> DEFINE Choice == CASE target[s] \in Channels -> {target[s]}
                         [] target[s] \in Ids -> {target[s]}
                         [] target[s] = Gone -> {Elsewhere}
                         [] OTHER -> IF link[s] \in {None, Gone}
                                       THEN Restored ELSE {}
  <2>1. Choice \subseteq Channels \cup Ids \cup {Elsewhere}
    BY RefsOfChannels, StreamsAssumption
  <2>2. \E ref \in Choice :
          link' = [link EXCEPT ![s] = ref] /\ routed' = [routed EXCEPT ![s] = Append(@, ref)]
    BY DEF Link
  <2> QED
    BY <2>1, <2>2
<1>3. ref \in Refs \ {None, Gone} /\ s \in apps /\ Len(routed[s]) < 2
  BY <1>2, RefsOfChannels DEF Link
<1>4. routed' \in [Apps -> Seq(Refs)] /\ \A x \in Apps : Len(routed'[x]) <= 2
  <2>1. routed[s] \in Seq(Refs) /\ Len(routed[s]) \in Nat
    BY <1>1 DEF RoutesOK
  <2>2. Append(routed[s], ref) \in Seq(Refs) /\ Len(Append(routed[s], ref)) = Len(routed[s]) + 1
    BY <1>3, <2>1
  <2> QED
    BY <1>1, <1>2, <1>3, <2>1, <2>2 DEF RoutesOK
<1>5. link' \in [Apps -> Refs \ {Gone}] /\ \A x \in Apps \ apps : link'[x] = None
  BY <1>1, <1>2, <1>3 DEF RoutesOK
<1>6. UNCHANGED <<chain, nodes, apps, shown, home, named, known, pending, chosen, tripped, target,
                  board, track, events>>
  BY DEF Link
<1>7. ChainsOK' /\ SoundOK'
  BY <1>1, <1>6 DEF ChainsOK, SoundOK, chain, board
<1>8. RoutesOK'
  BY <1>1, <1>4, <1>5, <1>6 DEF RoutesOK
<1> QED
  BY <1>7, <1>8, TypePartsNext

LEMMA RoutedType ==
  ASSUME TypeOK, Awaiting, NEW s \in Apps, NEW older, StreamRouted(s, older)
  PROVE  TypeOK'
<1> DEFINE k    == KeyOf[s]
           here == Shown(s, routed[s][1])
           asks == s \in pending /\ StillUnknown(k)
           goes == asks /\ here = <<>> /\ CanEnter(Default)
<1>1. ChainsOK /\ RoutesOK /\ SoundOK /\ k \in Keys
  BY TypeParts, KeysOfApps
<1>2. /\ routed[s] # <<>> /\ routed' = [routed EXCEPT ![s] = Tail(@)] /\ pending' = pending \ {s}
      /\ known' = IF goes \/ (asks /\ here # <<>>) THEN known \cup {k} ELSE known
      /\ shown' = [shown EXCEPT ![s] = IF goes THEN <<Default>> ELSE here]
      /\ target' = IF goes THEN Moved({s}, FxTarget(Default, older)) ELSE target
      /\ UNCHANGED <<chain, nodes, apps, home, named, chosen, tripped, link, board, track, events>>
  BY DEF StreamRouted
<1>3. here \in Lists
  BY <1>1, ShownIsList DEF ChainsOK
<1>4. goes => Default \in Channels
  BY StreamsAssumption DEF Awaiting
<1> HIDE DEF here, asks, goes
<1>5. shown' \in [Apps -> Lists]
  BY <1>1, <1>2, <1>3, <1>4, ShortLists DEF RoutesOK
<1>6. target' \in [Apps -> Refs] /\ \A x \in Apps \ apps : target'[x] = None
  <2>1. CASE goes
    <3>1. FxTarget(Default, older) \in Refs
      BY <1>1, <1>4, <2>1, EntriesAre, RefsOfChannels DEF ChainsOK
    <3> QED
      BY <1>1, <1>2, <2>1, <3>1, MovedTo
  <2>2. CASE ~goes
    BY <1>1, <1>2, <2>2 DEF RoutesOK
  <2> QED
    BY <2>1, <2>2
<1>7. routed' \in [Apps -> Seq(Refs)] /\ \A x \in Apps : Len(routed'[x]) <= 2
  <2>1. routed[s] \in Seq(Refs) /\ Len(routed[s]) \in Nat /\ Len(routed[s]) <= 2
    BY <1>1 DEF RoutesOK
  <2>2. Tail(routed[s]) \in Seq(Refs) /\ Len(Tail(routed[s])) <= 2
    BY <1>2, <2>1
  <2> QED
    BY <1>1, <1>2, <2>2 DEF RoutesOK
<1>8. ChainsOK' /\ SoundOK'
  BY <1>1, <1>2 DEF ChainsOK, SoundOK, chain, board
<1>9. RoutesOK'
  BY <1>1, <1>2, <1>5, <1>6, <1>7 DEF RoutesOK
<1> QED
  BY <1>8, <1>9, TypePartsNext

LEMMA AssignType ==
  ASSUME TypeOK, NEW s \in Apps, NEW c0 \in Channels, NEW addOn, NEW older, Assign(s, <<c0>>, addOn, older)
  PROVE  TypeOK'
<1> DEFINE k   == KeyOf[s]
           new == IF addOn THEN Merged(shown[s], home[k], <<c0>>) ELSE <<c0>>
<1>1. ChainsOK /\ RoutesOK /\ SoundOK /\ k \in Keys
  BY TypeParts, KeysOfApps
<1>2. /\ new \in Lists /\ new # <<>> /\ new[1] \in Channels /\ NodesOK(nodes')
      /\ home' = [home EXCEPT ![k] = new] /\ shown' = [shown EXCEPT ![s] = new]
  BY AssignFacts
<1>3. /\ Event /\ s \in apps /\ target' = Moved({s}, FxTarget(new[1], older))
      /\ pending' = pending \ {s} /\ named' = [named EXCEPT ![k] = NameOf[s]] /\ known' = known \cup {k}
      /\ chosen' = chosen \cup {k}
      /\ UNCHANGED <<chain, apps, routed, link, board, track>>
  BY DEF Assign
<1>4. tripped' \subseteq Keys \X Channels
  <2>1. \A r : TrippedOver(k, new, NameOf[s], r) \subseteq Keys \X Channels
    BY <1>1, <1>2, TrippedType
  <2>2. \E r : tripped' = {p \in tripped : p[1] # k} \cup TrippedOver(k, new, NameOf[s], r)
    BY DEF Assign
  <2> HIDE DEF new, k
  <2> QED
    BY <1>1, <2>1, <2>2 DEF ChainsOK
<1> HIDE DEF new
<1>5. target' \in [Apps -> Refs] /\ \A x \in Apps \ apps : target'[x] = None
  <2>1. FxTarget(new[1], older) \in Refs
    BY <1>1, <1>2, EntriesAre, RefsOfChannels DEF ChainsOK
  <2> QED
    BY <1>1, <1>3, <2>1, MovedTo
<1>6. ChainsOK'
  BY <1>1, <1>2, <1>3, <1>4, EventType DEF ChainsOK, chain
<1>7. RoutesOK'
  <2>1. shown' \in [Apps -> Lists] /\ home' \in [Keys -> Lists] /\ named' \in [Keys -> Names \cup {None}]
    BY <1>1, <1>2, <1>3, KeysOfApps DEF RoutesOK
  <2>2. \A x \in Keys : named'[x] = None <=> home'[x] = <<>>
    BY <1>1, <1>2, <1>3, KeysOfApps, NamesAssumption DEF RoutesOK
  <2> QED
    BY <1>1, <1>3, <1>5, <2>1, <2>2 DEF RoutesOK
<1>8. SoundOK'
  BY <1>1, <1>3 DEF SoundOK, board
<1> QED
  BY <1>6, <1>7, <1>8, TypePartsNext

LEMMA UnrouteType ==
  ASSUME TypeOK, NEW s \in Apps, NEW older, Unroute(s, older)
  PROVE  TypeOK'
<1> DEFINE k == KeyOf[s]
<1>1. ChainsOK /\ RoutesOK /\ SoundOK /\ k \in Keys
  BY TypeParts, KeysOfApps
<1>2. NodesOK(nodes')
  <2>1. home[k] \in Lists /\ NodesOK(nodes)
    BY <1>1 DEF ChainsOK, RoutesOK
  <2> QED
    BY <2>1, RelaysRemoved DEF Unroute
<1>3. ChainsOK'
  BY <1>1, <1>2, EventType DEF Unroute, ChainsOK, chain
<1>4. RoutesOK'
  <2>1. /\ home' = [home EXCEPT ![k] = <<>>] /\ named' = [named EXCEPT ![k] = None]
        /\ target' = [target EXCEPT ![s] = None] /\ shown' = [shown EXCEPT ![s] = <<>>]
        /\ UNCHANGED <<apps, routed, known, pending, chosen, link>>
    BY DEF Unroute
  <2>2. /\ shown' \in [Apps -> Lists] /\ home' \in [Keys -> Lists] /\ target' \in [Apps -> Refs]
        /\ named' \in [Keys -> Names \cup {None}]
    BY <1>1, <2>1, ShortLists, RefsOfChannels DEF RoutesOK
  <2>3. /\ \A x \in Apps \ apps : target'[x] = None
        /\ \A x \in Keys : named'[x] = None <=> home'[x] = <<>>
    BY <1>1, <2>1 DEF RoutesOK
  <2> QED
    BY <1>1, <2>1, <2>2, <2>3 DEF RoutesOK
<1>5. SoundOK'
  BY <1>1 DEF Unroute, SoundOK, board
<1> QED
  BY <1>3, <1>4, <1>5, TypePartsNext

-----------------------------------------------------------------------------
(* The types, chains and voices                                            *)

LEMMA ReplayedVoices ==
  ASSUME SoundOK, NEW ref \in Channels \cup Ids, NEW fail
  PROVE  Replayed(voices, Restarted(voices), ref, fail) \subseteq Voice
<1>1. ASSUME NEW n \in Restarted(voices) \ fail
      PROVE  [sample |-> n, nth |-> 1, at |-> ref, done |-> FALSE] \in Voice
  <2>1. PICK v \in voices : n = v.sample
    BY DEF Restarted
  <2>2. v.nth \in 1..MaxVoices /\ n \in Samples
    BY <2>1 DEF SoundOK, Voice
  <2>3. 1 \in 1..MaxVoices
    BY <2>2, StreamsAssumption
  <2>4. ref \in Refs \ {None}
    BY RefsOfChannels
  <2> QED
    BY <2>2, <2>3, <2>4 DEF Voice
<1> QED
  BY <1>1 DEF Replayed, SoundOK

LEMMA WaitsAre ==
  ASSUME NEW what \in {"apps", "samples", "track", "back"}, NEW c \in Channels,
         NEW some \in SUBSET Apps, NEW old \in Ids \cup {None}
  PROVE  Wait(what, c, some, old) \in Waits
BY DEF Wait, Waits

\* A chain is changed: what becomes of the nodes.
LEMMA ChainNodes ==
  ASSUME TypeOK, NEW c \in Channels, NEW on, NEW older, NEW fail, SetFxChain(c, on, older, fail)
  PROVE  LET gone == Destroyed(nodes, Swept(c))
         IN  /\ NodesOK(gone) /\ gone = {Dying(n, Swept(c)) : n \in nodes}
             /\ \A n \in nodes : Dying(n, Swept(c)).id = n.id /\ Dying(n, Swept(c)).role = n.role
             /\ NodesOK(nodes')
             /\ ~on => nodes' = gone
             /\ on => \E i \in Ids :
                  LET new == [id |-> i, role |-> Fx(c), state |-> "loading"]
                  IN  new \notin gone /\ nodes' = gone \cup {new}
<1> DEFINE gone == Destroyed(nodes, Swept(c))
<1>1. NodesOK(nodes) /\ Cardinality(nodes) \in Nat /\ MaxNodes \in Nat /\ Cardinality(nodes) + 1 <= MaxNodes
  BY TypeParts, NodesFinite, StreamsAssumption DEF ChainsOK, SetFxChain, Room
<1>2. /\ NodesOK(gone) /\ gone = {Dying(n, Swept(c)) : n \in nodes}
      /\ Cardinality(gone) <= Cardinality(nodes)
      /\ \A n \in nodes : Dying(n, Swept(c)).id = n.id /\ Dying(n, Swept(c)).role = n.role
  BY <1>1, DestroyedNodes
<1>3. nodes' = IF on THEN Loaded(gone, Fx(c)) ELSE gone
  BY DEF SetFxChain, ChainOn, ChainOff
<1> HIDE DEF gone
<1>4. Cardinality(gone) \in Nat /\ Cardinality(gone) < MaxNodes
  <2>1. Cardinality(gone) \in Nat
    BY <1>2, NodesFinite
  <2> QED
    BY <1>1, <1>2, <2>1
<1>5. /\ NodesOK(Loaded(gone, Fx(c)))
      /\ \E i \in Ids : LET new == [id |-> i, role |-> Fx(c), state |-> "loading"]
                        IN  new \notin gone /\ Loaded(gone, Fx(c)) = gone \cup {new}
  <2> DEFINE role == Fx(c)
  <2>1. role \in Roles
    BY RoleFacts
  <2> HIDE DEF role
  <2>2. /\ NodesOK(Loaded(gone, role))
        /\ \E i \in Ids : LET new == [id |-> i, role |-> role, state |-> "loading"]
                          IN  new \notin gone /\ Loaded(gone, role) = gone \cup {new}
    <3>1. NodesOK(gone) /\ Cardinality(gone) < MaxNodes
      BY <1>2, <1>4
    <3> QED
      BY <2>1, <3>1, LoadedNode
  <2> QED
    BY <2>2 DEF role
<1>6. CASE on
  BY <1>2, <1>3, <1>5, <1>6 DEF gone
<1>7. CASE ~on
  BY <1>2, <1>3, <1>7 DEF gone
<1> QED
  BY <1>6, <1>7

LEMMA ChainType ==
  ASSUME TypeOK, NEW c \in Channels, NEW on, NEW older, NEW fail, SetFxChain(c, on, older, fail)
  PROVE  TypeOK'
<1> DEFINE some == {s \in apps : link[s] \in {c, Entry(c, older)} \ {None}}
           old  == Entry(c, older)
<1>1. ChainsOK /\ RoutesOK /\ SoundOK /\ NodesOK(nodes)
  BY TypeParts DEF ChainsOK
<1>2. /\ Event /\ chains' = chains + 1 /\ chains < MaxChains
      /\ IF on THEN ChainOn(c, some, older, fail) ELSE ChainOff(c, some)
      /\ hurried' \subseteq hurried \cup Alike[c] \cup {c} /\ Alike[c] \subseteq Channels
      /\ UNCHANGED <<routing, link, samples, pressed, track>>
  BY StreamsAssumption DEF SetFxChain
<1>3. old \in Ids \cup {None} /\ some \in SUBSET Apps
  BY <1>1, EntriesAre DEF RoutesOK
<1>4. NodesOK(nodes')
  BY ChainNodes
<1> HIDE DEF some, old
<1>5. waits' \subseteq Waits /\ active' \subseteq Channels
  <2>1. /\ Wait("back", c, {}, None) \in Waits /\ Wait("apps", c, some, None) \in Waits
        /\ Wait("samples", c, {}, None) \in Waits /\ Wait("track", c, {}, old) \in Waits
    BY <1>3, WaitsAre
  <2>2. CASE on
    BY <1>1, <1>2, <2>1, <2>2 DEF ChainOn, ChainsOK, old
  <2>3. CASE ~on
    BY <1>1, <1>2, <2>1, <2>3 DEF ChainOff, ChainsOK
  <2> QED
    BY <2>2, <2>3
<1>6. target' \in [Apps -> Refs] /\ \A x \in Apps \ apps : target'[x] = None
  <2>1. c \in Refs /\ old \in Refs
    BY <1>3, RefsOfChannels
  <2>2. \/ target' = target \/ target' = Moved(some, c) \/ target' = Moved(some, old)
    BY <1>2 DEF ChainOn, ChainOff, old
  <2> QED
    BY <1>1, <2>1, <2>2, MovedTo DEF RoutesOK
<1>7. voices' \subseteq Voice
  <2>1. \/ voices' = voices
        \/ old # None /\ voices' = Replayed(voices, Restarted(voices), old, fail)
    BY <1>2 DEF ChainOn, ChainOff, old
  <2> QED
    BY <1>1, <1>3, <2>1, ReplayedVoices DEF SoundOK
<1>8. ChainsOK'
  <2>1. chains' \in 0..MaxChains
    BY <1>1, <1>2, StreamsAssumption DEF ChainsOK
  <2> QED
    BY <1>1, <1>2, <1>4, <1>5, <2>1, EventType DEF ChainsOK, routing
<1>9. RoutesOK'
  BY <1>1, <1>2, <1>6 DEF RoutesOK, routing
<1>10. SoundOK'
  BY <1>1, <1>2, <1>7 DEF SoundOK
<1> QED
  BY <1>8, <1>9, <1>10, TypePartsNext

LEMMA TicksType ==
  ASSUME TypeOK, NEW w \in waits, NEW older, NEW fail,
         \/ RetargetTick(w, older) \/ RestartTick(w, older, fail)
         \/ PlaybackTick(w, older) \/ GivesUp(w)
  PROVE  TypeOK'
<1> DEFINE c == w.channel
<1>1. ChainsOK /\ RoutesOK /\ SoundOK /\ NodesOK(nodes)
  BY TypeParts DEF ChainsOK
<1>2. w \in Waits /\ c \in Channels
  BY <1>1 DEF ChainsOK, Waits
<1>3. /\ waits' \subseteq waits
      /\ UNCHANGED <<active, hurried, chains, nodes, routing, link, samples, pressed, events>>
  BY DEF RetargetTick, RestartTick, PlaybackTick, GivesUp, Ticks, board, where
<1>4. target' \in [Apps -> Refs] /\ \A x \in Apps \ apps : target'[x] = None
  <2>1. CASE RetargetTick(w, older)
    <3>1. Entry(c, older) \in Refs
      BY <1>1, <1>2, EntriesAre, RefsOfChannels
    <3> QED
      BY <1>1, <2>1, <3>1, MovedTo DEF RetargetTick
  <2>2. CASE ~RetargetTick(w, older)
    BY <1>1, <2>2 DEF RestartTick, PlaybackTick, GivesUp, where, RoutesOK
  <2> QED
    BY <2>1, <2>2
<1>5. voices' \subseteq Voice
  <2>1. CASE RestartTick(w, older, fail)
    <3>1. FxTarget(c, older) \in Channels \cup Ids
      BY <1>1, <1>2, EntriesAre
    <3> QED
      BY <1>1, <2>1, <3>1, ReplayedVoices DEF RestartTick
  <2>2. CASE ~RestartTick(w, older, fail)
    BY <1>1, <2>2 DEF RetargetTick, PlaybackTick, GivesUp, board, SoundOK
  <2> QED
    BY <2>1, <2>2
<1>6. track' \in [Channels -> Refs \ {Elsewhere}]
  <2>1. CASE PlaybackTick(w, older)
    <3>1. \E ref \in Channels \cup Ids \cup {None} : track' = [track EXCEPT ![c] = ref]
      <4>1. CASE w.what = "back" /\ track' = [track EXCEPT ![c] = IF Playing(c) THEN c ELSE None]
        BY <1>2, <4>1
      <4>2. CASE /\ Entries(c) # {}
                 /\ LET n == Twin(Entries(c), older)
                    IN  track' = [track EXCEPT ![c] = IF Playing(c) THEN n.id ELSE None]
        <5>1. Twin(Entries(c), older).id \in Ids
          BY <1>1, <1>2, <4>2, EntriesAre
        <5> QED
          BY <4>2, <5>1
      <4> QED
        BY <2>1, <4>1, <4>2 DEF PlaybackTick
    <3> QED
      BY <1>1, <3>1, RefsOfChannels DEF SoundOK
  <2>2. CASE ~PlaybackTick(w, older)
    BY <1>1, <2>2 DEF RetargetTick, RestartTick, GivesUp, SoundOK
  <2> QED
    BY <2>1, <2>2
<1>7. ChainsOK'
  BY <1>1, <1>3 DEF ChainsOK, routing
<1>8. RoutesOK'
  BY <1>1, <1>3, <1>4 DEF RoutesOK, routing
<1>9. SoundOK'
  BY <1>1, <1>3, <1>5, <1>6 DEF SoundOK
<1> QED
  BY <1>7, <1>8, <1>9, TypePartsNext

LEMMA BoardType ==
  ASSUME TypeOK, NEW n \in Samples, NEW older,
         \/ PlaySample(n, older) \/ AddSample(n) \/ StopSample(n) \/ RemoveSample(n)
  PROVE  TypeOK'
<1>1. ChainsOK /\ RoutesOK /\ SoundOK /\ NodesOK(nodes)
  BY TypeParts DEF ChainsOK
<1>2. Event /\ UNCHANGED <<chain, nodes, routing, where, track>>
  BY DEF PlaySample, AddSample, StopSample, RemoveSample
<1>3. samples' \subseteq Samples
  BY <1>1 DEF PlaySample, AddSample, StopSample, RemoveSample, SoundOK
<1>4. voices' \subseteq Voice
  <2>1. CASE PlaySample(n, older)
    <3>1. FxTarget(Board, older) \in Refs \ {None}
      BY <1>1, EntriesAre, RefsOfChannels, StreamsAssumption
    <3>2. PICK nth \in 1..MaxVoices :
            voices' = voices \cup {[sample |-> n, nth |-> nth, at |-> FxTarget(Board, older),
                                    done |-> FALSE]}
      BY <2>1 DEF PlaySample
    <3>3. [sample |-> n, nth |-> nth, at |-> FxTarget(Board, older), done |-> FALSE] \in Voice
      BY <3>1 DEF Voice
    <3> QED
      BY <1>1, <3>2, <3>3 DEF SoundOK
  <2>2. CASE ~PlaySample(n, older)
    BY <1>1, <2>2 DEF AddSample, StopSample, RemoveSample, Stopped, SoundOK
  <2> QED
    BY <2>1, <2>2
<1>5. ChainsOK' /\ RoutesOK'
  BY <1>1, <1>2, EventType DEF ChainsOK, RoutesOK, chain, routing, where
<1>6. SoundOK'
  BY <1>1, <1>2, <1>3, <1>4 DEF SoundOK
<1> QED
  BY <1>5, <1>6, TypePartsNext

LEMMA VoicesType ==
  ASSUME TypeOK, Reap \/ \E v \in voices : VoiceDone(v)
  PROVE  TypeOK'
<1>1. ChainsOK /\ RoutesOK /\ SoundOK
  BY TypeParts
<1>2. UNCHANGED <<chain, nodes, routing, where, samples, track, events>>
  BY DEF Reap, VoiceDone
<1>3. voices' \subseteq Voice
  <2>1. CASE Reap
    BY <1>1, <2>1 DEF Reap, SoundOK
  <2>2. ASSUME NEW v \in voices, VoiceDone(v) PROVE voices' \subseteq Voice
    <3>1. [v EXCEPT !.done = TRUE] \in Voice
      BY <1>1 DEF SoundOK, Voice
    <3> QED
      BY <1>1, <2>2, <3>1 DEF VoiceDone, SoundOK
  <2> QED
    BY <2>1, <2>2
<1>4. ChainsOK' /\ RoutesOK' /\ SoundOK'
  BY <1>1, <1>2, <1>3 DEF ChainsOK, RoutesOK, SoundOK, chain, routing, where
<1> QED
  BY <1>4, TypePartsNext

LEMMA TrackType ==
  ASSUME TypeOK, NEW c \in Channels, NEW older, TrackStarts(c, older) \/ TrackEnds(c)
  PROVE  TypeOK'
<1>1. ChainsOK /\ RoutesOK /\ SoundOK /\ NodesOK(nodes)
  BY TypeParts DEF ChainsOK
<1>2. Event /\ UNCHANGED <<active, hurried, chains, nodes, routing, where, board>>
  BY DEF TrackStarts, TrackEnds, chain
<1>3. waits' \subseteq Waits
  <2>1. Wait("track", c, {}, None) \in Waits
    BY WaitsAre
  <2> QED
    BY <1>1, <2>1 DEF TrackStarts, TrackEnds, chain, ChainsOK
<1>4. track' \in [Channels -> Refs \ {Elsewhere}]
  <2>1. FxTarget(c, older) \in Refs \ {Elsewhere} /\ None \in Refs \ {Elsewhere}
    BY <1>1, EntriesAre, RefsOfChannels
  <2> QED
    BY <1>1, <2>1 DEF TrackStarts, TrackEnds, SoundOK
<1>5. ChainsOK' /\ RoutesOK'
  BY <1>1, <1>2, <1>3, EventType DEF ChainsOK, RoutesOK, routing, where
<1>6. SoundOK'
  BY <1>1, <1>2, <1>4 DEF SoundOK, board
<1> QED
  BY <1>5, <1>6, TypePartsNext

\* What arrives is the node that was loaded, under an id no other has.
LEMMA ArrivesFacts ==
  ASSUME ChainsOK, NEW n \in nodes, NodeArrives(n)
  PROVE  \E i \in Ids : LET m == [n EXCEPT !.id = i, !.state = "there"]
                        IN  /\ m \in Node /\ m.id = i /\ m.role = n.role /\ m.state = "there"
                            /\ \A o \in nodes \ {n} : o.id # i
                            /\ nodes' = (nodes \ {n}) \cup {m} /\ n.state = "loading"
<1>1. PICK i \in {n.id} \cup ({w.old : w \in waits} \ {None}) :
         /\ n.state = "loading" /\ \A o \in nodes \ {n} : o.id # i
         /\ nodes' = (nodes \ {n}) \cup {[n EXCEPT !.id = i, !.state = "there"]}
  BY DEF NodeArrives
<1>2. n \in Node /\ \A w \in waits : w.old \in Ids \cup {None}
  BY DEF ChainsOK, NodesOK, Waits
<1>3. i \in Ids
  BY <1>1, <1>2 DEF Node
<1>4. LET m == [n EXCEPT !.id = i, !.state = "there"]
      IN  m \in Node /\ m.id = i /\ m.role = n.role /\ m.state = "there"
  BY <1>2, <1>3 DEF Node, States
<1> QED
  BY <1>1, <1>3, <1>4

LEMMA ArrivesType ==
  ASSUME TypeOK, NEW n \in nodes, NodeArrives(n)
  PROVE  TypeOK'
<1>1. ChainsOK /\ RoutesOK /\ SoundOK /\ NodesOK(nodes)
  BY TypeParts DEF ChainsOK
<1>2. NodesOK(nodes')
  <2>1. PICK m \in Node : /\ \A o \in nodes \ {n} : o.id # m.id
                          /\ nodes' = (nodes \ {n}) \cup {m}
    BY <1>1, ArrivesFacts
  <2> QED
    BY <1>1, <2>1 DEF NodesOK
<1>3. ChainsOK' /\ RoutesOK' /\ SoundOK'
  BY <1>1, <1>2 DEF NodeArrives, ChainsOK, RoutesOK, SoundOK, chain, routing, where, board
<1> QED
  BY <1>3, TypePartsNext

LEMMA LeavesType ==
  ASSUME TypeOK, NEW n \in nodes, NodeLeaves(n)
  PROVE  TypeOK'
<1> DEFINE Left(ref) == IF ref = n.id THEN Gone ELSE ref
           lost == {s \in apps : link[s] = n.id}
<1>1. ChainsOK /\ RoutesOK /\ SoundOK /\ NodesOK(nodes) /\ n.id \in Ids
  BY TypeParts DEF ChainsOK, NodesOK, Node
<1>2. /\ nodes' = nodes \ {n} /\ \A s \in lost : Len(routed[s]) < 2
      /\ target' = [s \in Apps |-> Left(target[s])]
      /\ link' = [s \in Apps |-> IF s \in lost THEN None ELSE link[s]]
      /\ routed' = [s \in Apps |-> IF s \in lost THEN Append(routed[s], None)
                                   ELSE [i \in DOMAIN routed[s] |-> Left(routed[s][i])]]
      /\ voices' = {[v EXCEPT !.at = Left(@)] : v \in voices}
      /\ track' = [c \in Channels |-> Left(track[c])]
      /\ UNCHANGED <<chain, apps, shown, home, named, known, pending, chosen,
                     tripped, samples, pressed, events>>
  BY DEF NodeLeaves
<1>3. \A ref \in Refs : Left(ref) \in Refs
  BY RefsOfChannels
<1>4. Left(None) = None
  BY <1>1, RefsOfChannels
<1>5. target' \in [Apps -> Refs] /\ \A x \in Apps \ apps : target'[x] = None
  BY <1>1, <1>2, <1>3, <1>4 DEF RoutesOK
<1>6. link' \in [Apps -> Refs \ {Gone}] /\ \A x \in Apps \ apps : link'[x] = None
  BY <1>1, <1>2, RefsOfChannels DEF RoutesOK
<1>7. routed' \in [Apps -> Seq(Refs)] /\ \A x \in Apps : Len(routed'[x]) <= 2
  <2>1. ASSUME NEW s \in Apps PROVE routed'[s] \in Seq(Refs) /\ Len(routed'[s]) <= 2
    <3>1. routed[s] \in Seq(Refs) /\ Len(routed[s]) <= 2 /\ Len(routed[s]) \in Nat
      BY <1>1 DEF RoutesOK
    <3>2. CASE s \in lost
      <4>1. routed'[s] = Append(routed[s], None) /\ Len(routed[s]) < 2 /\ None \in Refs
        BY <1>2, <3>2, RefsOfChannels
      <4>2. Append(routed[s], None) \in Seq(Refs) /\ Len(Append(routed[s], None)) = Len(routed[s]) + 1
        BY <3>1, <4>1
      <4> QED
        BY <3>1, <4>1, <4>2
    <3>3. CASE s \notin lost
      <4> DEFINE r == [i \in DOMAIN routed[s] |-> Left(routed[s][i])]
      <4>1. DOMAIN routed[s] = 1..Len(routed[s]) /\ \A i \in DOMAIN routed[s] : routed[s][i] \in Refs
        BY <3>1
      <4>2. r \in [1..Len(routed[s]) -> Refs]
        BY <1>3, <4>1
      <4>3. routed'[s] = r
        BY <1>2, <3>3
      <4> HIDE DEF r
      <4>4. r \in Seq(Refs) /\ Len(r) = Len(routed[s])
        BY <3>1, <4>2
      <4> QED
        BY <3>1, <4>3, <4>4
    <3> QED
      BY <3>2, <3>3
  <2>2. routed' = [s \in Apps |-> routed'[s]]
    BY <1>2
  <2> QED
    BY <2>1, <2>2
<1>8. voices' \subseteq Voice
  <2>1. ASSUME NEW v \in voices PROVE [v EXCEPT !.at = Left(@)] \in Voice
    <3>1. v \in Voice /\ Left(v.at) \in Refs \ {None}
      BY <1>1, RefsOfChannels DEF SoundOK, Voice
    <3> HIDE DEF Left
    <3> QED
      BY <3>1 DEF Voice
  <2> QED
    BY <1>2, <2>1
<1>9. track' \in [Channels -> Refs \ {Elsewhere}]
  BY <1>1, <1>2, RefsOfChannels DEF SoundOK
<1>10. NodesOK(nodes')
  BY <1>1, <1>2 DEF NodesOK
<1>11. ChainsOK'
  BY <1>1, <1>2, <1>10 DEF ChainsOK, chain
<1>12. RoutesOK'
  BY <1>1, <1>2, <1>5, <1>6, <1>7 DEF RoutesOK
<1>13. SoundOK'
  BY <1>1, <1>2, <1>8, <1>9 DEF SoundOK
<1> QED
  BY <1>11, <1>12, <1>13, TypePartsNext

-----------------------------------------------------------------------------
(* Relays stand                                                            *)

\* Who is not tripped over found no relay of its own on the way out.
LEMMA Untripped ==
  ASSUME NodesOK(nodes), NEW k \in Keys, NEW old \in Lists, NEW chans \in Lists, Len(chans) > 1,
         NEW from \in Names, NEW c \in Extras(chans), NEW renewed, NEW older, NEW freed,
         \/ freed = nodes
         \/ freed = RemoveAppRelays(nodes, k, old, older) /\ (Len(old) > 1 => renewed = Extras(old)),
         <<k, c>> \notin TrippedOver(k, chans, from, renewed),
         NEW n \in freed, n.role = Relay(k, c, from)
  PROVE  n.state # "dying"
<1> SUFFICES ASSUME n.state = "dying" PROVE FALSE
  OBVIOUS
<1>1. PICK m \in nodes : /\ m.role = n.role
                         /\ \/ n = m
                            \/ Len(old) > 1 /\ \E d \in Extras(old) : m \in RelaysOf(nodes, k, d)
  <2>1. CASE freed = nodes
    BY <2>1
  <2>2. CASE freed = RemoveAppRelays(nodes, k, old, older)
    <3>1. \A m \in freed : \E x \in nodes :
            /\ x.role = m.role
            /\ \/ m = x
               \/ Len(old) > 1 /\ \E d \in Extras(old) : x \in RelaysOf(nodes, k, d)
      BY <2>2, RelaysRemoved
    <3> QED
      BY <3>1
  <2> QED
    BY <2>1, <2>2
<1>2. m.role.kind = "relay" /\ m.role.key = k /\ m.role.channel = c /\ m.role.from = from
  BY <1>1, RoleFacts
<1>3. m \in RelaysOf(nodes, k, c) /\ (m.state = "dying" \/ c \in renewed)
  <2>1. CASE n = m
    BY <1>2, <2>1 DEF RelaysOf, Listed
  <2>2. CASE n # m
    <3>1. PICK d \in Extras(old) : Len(old) > 1 /\ m \in RelaysOf(nodes, k, d)
      BY <1>1, <2>2
    <3>2. d = c
      BY <1>2, <3>1 DEF RelaysOf
    <3>3. n \notin nodes
      <4> SUFFICES ASSUME n \in nodes PROVE FALSE
        OBVIOUS
      <4>1. n \in RelaysOf(nodes, k, c) /\ n.state = "dying" /\ n.role.from = from
        BY RoleFacts DEF RelaysOf, Listed
      <4>2. ~(Len(chans) < 2)
        <5>1. Len(chans) \in Nat
          BY ListsAre
        <5> QED
          BY <5>1
      <4>3. <<k, c>> \in TrippedOver(k, chans, from, renewed)
        BY <4>1, <4>2 DEF TrippedOver
      <4> QED
        BY <4>3
    <3>4. freed # nodes
      BY <3>3
    <3>5. renewed = Extras(old)
      BY <3>1, <3>4
    <3> QED
      BY <3>1, <3>2, <3>5
  <2> QED
    BY <2>1, <2>2
<1>4. ~(Len(chans) < 2)
  <2>1. Len(chans) \in Nat
    BY ListsAre
  <2> QED
    BY <2>1
<1>5. <<k, c>> \in TrippedOver(k, chans, from, renewed)
  BY <1>2, <1>3, <1>4 DEF TrippedOver
<1> QED
  BY <1>5

\* What a step leaves alone but for the actions named.
LEMMA QuietForRelays ==
  ASSUME Next
  PROVE  \/ \E s \in Apps, older \in BOOLEAN :
              \/ AppAppears(s, older) \/ AppVanishes(s, older) \/ Unroute(s, older)
              \/ \E c \in Channels, addOn \in BOOLEAN : Assign(s, <<c>>, addOn, older)
         \/ \E c \in Channels, on, older \in BOOLEAN, fail \in SUBSET Samples :
              SetFxChain(c, on, older, fail)
         \/ \E n \in nodes : NodeArrives(n) \/ NodeLeaves(n)
         \/ UNCHANGED <<nodes, home, named, apps, tripped>>
<1>1. CASE Users
  <2>1. ASSUME NEW n \in Samples, NEW older,
               PlaySample(n, older) \/ AddSample(n) \/ StopSample(n) \/ RemoveSample(n)
        PROVE  UNCHANGED <<nodes, home, named, apps, tripped>>
    BY <2>1 DEF PlaySample, AddSample, StopSample, RemoveSample, routing
  <2>2. ASSUME NEW c \in Decks, NEW older, TrackStarts(c, older) \/ TrackEnds(c)
        PROVE  UNCHANGED <<nodes, home, named, apps, tripped>>
    BY <2>2 DEF TrackStarts, TrackEnds, routing
  <2>3. Decks \subseteq Channels
    BY StreamsAssumption
  <2> QED
    BY <1>1, <2>1, <2>2, <2>3 DEF Users
<1>2. CASE System
  <2>1. ASSUME NEW s \in Apps, NEW older, Link(s) \/ StreamRouted(s, older)
        PROVE  UNCHANGED <<nodes, home, named, apps, tripped>>
    BY <2>1 DEF Link, StreamRouted
  <2>2. ASSUME NEW w \in waits, NEW older, NEW fail,
               \/ RetargetTick(w, older) \/ PlaybackTick(w, older) \/ GivesUp(w)
               \/ RestartTick(w, older, fail)
        PROVE  UNCHANGED <<nodes, home, named, apps, tripped>>
    BY <2>2 DEF RetargetTick, PlaybackTick, GivesUp, RestartTick, routing
  <2>3. ASSUME Reap \/ \E v \in voices : VoiceDone(v)
        PROVE  UNCHANGED <<nodes, home, named, apps, tripped>>
    BY <2>3 DEF Reap, VoiceDone, routing
  <2> QED
    BY <1>2, <2>1, <2>2, <2>3 DEF System
<1> QED
  BY <1>1, <1>2 DEF Next

LEMMA RelaysStandNext ==
  ASSUME SInv, Next
  PROVE  RelaysStand'
<1> SUFFICES ASSUME NEW k1 \in Keys, NEW c1 \in Channels, Expected(k1, c1)'
             PROVE  \E n \in nodes' : n.state # "dying" /\ n.role = Relay(k1, c1, named[k1]')
  BY DEF RelaysStand, Relay
<1>1. ChainsOK /\ RoutesOK /\ NodesOK(nodes)
  BY TypeParts DEF SInv, ChainsOK
<1>2. /\ Len(home'[k1]) > 1 /\ c1 \in Extras(home'[k1])
      /\ \E x \in apps' : KeyOf[x] = k1 /\ NameOf[x] = named'[k1]
      /\ <<k1, c1>> \notin tripped'
  BY DEF Expected, Assigned, Extras, Owners
\* of the keys and nodes the step leaves alone
<1>3. ASSUME NEW k, k1 # k, Rest(nodes', k) = Rest(nodes, k), home'[k1] = home[k1],
             named'[k1] = named[k1], Owners(k1) # {}, <<k1, c1>> \notin tripped
      PROVE  \E n \in nodes' : n.state # "dying" /\ n.role = Relay(k1, c1, named'[k1])
  <2>1. Expected(k1, c1)
    BY <1>2, <1>3 DEF Expected, Assigned, Extras
  <2>2. PICK n \in nodes : n.state # "dying" /\ n.role = Relay(k1, c1, named[k1])
    BY <2>1 DEF SInv, RelaysStand
  <2>3. n \in Rest(nodes, k)
    BY <1>3, <2>2, RoleFacts DEF Rest
  <2>4. n \in nodes'
    BY <1>3, <2>3 DEF Rest
  <2> QED
    BY <1>3, <2>2, <2>4
<1>4. ASSUME NEW s \in Apps, NEW older, AppAppears(s, older)
      PROVE  \E n \in nodes' : n.state # "dying" /\ n.role = Relay(k1, c1, named'[k1])
  <2> DEFINE k       == KeyOf[s]
             x       == NameOf[s]
             several == Len(home[k]) > 1
             renamed == several /\ named[k] # x
             freed   == IF renamed THEN RemoveAppRelays(nodes, k, home[k], older) ELSE nodes
             renewed == IF renamed THEN Extras(home[k]) ELSE {}
  <2>1. /\ apps' = apps \cup {s} /\ home' = home
        /\ named' = [named EXCEPT ![k] = IF renamed THEN x ELSE @]
        /\ tripped' = IF several
             THEN {p \in tripped : p[1] # k} \cup TrippedOver(k, home[k], x, renewed)
             ELSE tripped
    BY <1>4 DEF AppAppears
  <2>2. /\ Rest(nodes', k) = Rest(nodes, k)
        /\ several => \A c \in Extras(home[k]) : \E n \in nodes' :
             n.role = Relay(k, c, x) /\ (n.state # "dying" \/ n \in freed)
    BY <1>4, AppearsFacts DEF SInv
  <2>3. k \in Keys /\ x \in Names
    BY KeysOfApps
  <2>4. \/ freed = nodes
        \/ freed = RemoveAppRelays(nodes, k, home[k], older) /\ renewed = Extras(home[k])
    OBVIOUS
  <2>5. CASE k1 = k
    <3>1. several /\ c1 \in Extras(home[k]) /\ named'[k1] = x
      <4>1. several /\ c1 \in Extras(home[k])
        BY <1>2, <2>1, <2>5
      <4>2. named'[k] = IF renamed THEN x ELSE named[k]
        BY <1>1, <2>1, <2>3 DEF RoutesOK
      <4> QED
        BY <2>5, <4>1, <4>2
    <3>2. PICK n \in nodes' : n.role = Relay(k, c1, x) /\ (n.state # "dying" \/ n \in freed)
      BY <2>2, <3>1
    <3>3. <<k, c1>> \notin TrippedOver(k, home[k], x, renewed)
      BY <1>2, <2>1, <2>5, <3>1
    <3>4. home[k] \in Lists /\ Len(home[k]) > 1 /\ c1 \in Extras(home[k])
      BY <1>1, <2>3, <3>1 DEF RoutesOK
    <3> HIDE DEF freed, renewed, renamed, several, k, x
    <3>5. ASSUME n \in freed PROVE n.state # "dying"
      BY <1>1, <2>3, <2>4, <3>2, <3>3, <3>4, <3>5, Untripped
    <3> QED
      BY <2>5, <3>1, <3>2, <3>5
  <2>6. CASE k1 # k
    <3>1. named'[k1] = named[k1]
      BY <1>1, <2>1, <2>6 DEF RoutesOK
    <3>2. Owners(k1) # {} /\ <<k1, c1>> \notin tripped
      BY <1>2, <2>1, <2>6, <3>1 DEF Owners
    <3> QED
      BY <1>3, <2>1, <2>2, <2>6, <3>1, <3>2
  <2> QED
    BY <2>5, <2>6
<1>5. ASSUME NEW s \in Apps, NEW older, AppVanishes(s, older)
      PROVE  \E n \in nodes' : n.state # "dying" /\ n.role = Relay(k1, c1, named'[k1])
  <2> DEFINE some == UNION {Standing(nodes, k, home[k], older) :
                              k \in {x \in Keys : named[x] = NameOf[s]}}
  <2>1. /\ apps' = apps \ {s} /\ UNCHANGED <<home, named>>
        /\ tripped' = tripped \cup BereftOf(s)
    BY <1>5 DEF AppVanishes
  <2>2. /\ nodes' = {Dying(n, some) : n \in nodes}
        /\ \A n \in some : \E k \in Keys :
             /\ named[k] = NameOf[s] /\ Len(home[k]) > 1
             /\ \E c \in Extras(home[k]) : n \in RelaysOf(nodes, k, c)
    BY <1>5, VanishesFacts DEF SInv
  <2> HIDE DEF some
  <2>3. PICK x \in apps \ {s} : KeyOf[x] = k1 /\ NameOf[x] = named[k1]
    BY <1>2, <2>1
  <2>4. Expected(k1, c1)
    BY <1>2, <2>1, <2>3 DEF Expected, Assigned, Extras, Owners
  <2>5. PICK n \in nodes : n.state # "dying" /\ n.role = Relay(k1, c1, named[k1])
    BY <2>4 DEF SInv, RelaysStand
  \* were it taken down with s, it would be among those that were lost
  <2>6. n \notin some
    <3> SUFFICES ASSUME n \in some PROVE FALSE
      OBVIOUS
    <3>1. \E k \in Keys : \E c \in Extras(home[k]) :
            named[k] = NameOf[s] /\ Len(home[k]) > 1 /\ n \in RelaysOf(nodes, k, c)
      BY <2>2
    <3>2. ASSUME NEW k \in Keys, NEW c \in Extras(home[k]), n \in RelaysOf(nodes, k, c)
          PROVE  k = k1 /\ c = c1
      BY <2>5, <3>2, RoleFacts DEF RelaysOf
    <3>3. named[k1] = NameOf[s] /\ Len(home[k1]) > 1 /\ c1 \in Extras(home[k1]) /\ n \in RelaysOf(nodes, k1, c1)
      BY <3>1, <3>2
    <3>4. <<k1, c1>> \in BereftOf(s)
      BY <2>3, <3>3 DEF BereftOf, Owners
    <3> QED
      BY <1>2, <2>1, <3>4
  <2>7. Dying(n, some) = n
    BY <2>6 DEF Dying
  <2> QED
    BY <2>1, <2>2, <2>5, <2>7
<1>6. ASSUME NEW s \in Apps, NEW older, Unroute(s, older)
      PROVE  \E n \in nodes' : n.state # "dying" /\ n.role = Relay(k1, c1, named'[k1])
  <2> DEFINE k == KeyOf[s]
  <2>1. /\ home' = [home EXCEPT ![k] = <<>>] /\ named' = [named EXCEPT ![k] = None]
        /\ nodes' = RemoveAppRelays(nodes, k, home[k], older) /\ UNCHANGED <<apps, tripped>>
    BY <1>6 DEF Unroute
  <2>2. k \in Keys /\ home[k] \in Lists
    BY <1>1, KeysOfApps DEF RoutesOK
  <2>3. k1 # k
    <3>1. home'[k] = <<>>
      BY <1>1, <2>1, <2>2 DEF RoutesOK
    <3> QED
      BY <1>2, <3>1
  <2>4. home'[k1] = home[k1] /\ named'[k1] = named[k1]
    BY <1>1, <2>1, <2>3 DEF RoutesOK
  <2>5. Rest(nodes', k) = Rest(nodes, k)
    BY <1>1, <2>1, <2>2, RelaysRemoved
  <2>6. Owners(k1) # {} /\ <<k1, c1>> \notin tripped
    BY <1>2, <2>1, <2>4 DEF Owners
  <2> QED
    BY <1>3, <2>3, <2>4, <2>5, <2>6
<1>7. ASSUME NEW s \in Apps, NEW older, NEW c0 \in Channels, NEW addOn, Assign(s, <<c0>>, addOn, older)
      PROVE  \E n \in nodes' : n.state # "dying" /\ n.role = Relay(k1, c1, named'[k1])
  <2> DEFINE k       == KeyOf[s]
             x       == NameOf[s]
             old     == home[k]
             new     == IF addOn THEN Merged(shown[s], old, <<c0>>) ELSE <<c0>>
             freed   == IF Renewed(old, new) THEN RemoveAppRelays(nodes, k, old, older) ELSE nodes
             changed == Len(old) > 1 /\ Tail(old) # Tail(new)
             renewed == IF changed THEN Extras(old) ELSE {}
  <2>1. /\ named' = [named EXCEPT ![k] = x] /\ apps' = apps
        /\ tripped' = {p \in tripped : p[1] # k} \cup TrippedOver(k, new, x, renewed)
    BY <1>7 DEF Assign
  <2>2. /\ new \in Lists /\ home' = [home EXCEPT ![k] = new] /\ Rest(nodes', k) = Rest(nodes, k)
        /\ Len(new) > 1 => \A c \in Extras(new) : \E n \in nodes' :
             n.role = Relay(k, c, x) /\ (n.state # "dying" \/ n \in freed)
    BY <1>7, AssignFacts DEF SInv
  <2>3. k \in Keys /\ x \in Names /\ old \in Lists
    BY <1>1, KeysOfApps DEF RoutesOK
  <2>4. \/ freed = nodes
        \/ freed = RemoveAppRelays(nodes, k, old, older) /\ renewed = Extras(old)
    BY DEF Renewed
  <2>5. home'[k] = new /\ named'[k] = x
    BY <1>1, <2>1, <2>2, <2>3 DEF RoutesOK
  <2> HIDE DEF new, freed, renewed, changed, old, k, x
  <2>6. CASE k1 = k
    <3>1. Len(new) > 1 /\ c1 \in Extras(new)
      BY <1>2, <2>5, <2>6
    <3>2. PICK n \in nodes' : n.role = Relay(k, c1, x) /\ (n.state # "dying" \/ n \in freed)
      BY <2>2, <3>1
    <3>3. <<k, c1>> \notin TrippedOver(k, new, x, renewed)
      BY <1>2, <2>1, <2>6
    <3>4. ASSUME n \in freed PROVE n.state # "dying"
      BY <1>1, <2>2, <2>3, <2>4, <3>1, <3>2, <3>3, <3>4, Untripped
    <3> QED
      BY <2>5, <2>6, <3>2, <3>4
  <2>7. CASE k1 # k
    <3>1. home'[k1] = home[k1] /\ named'[k1] = named[k1]
      BY <1>1, <2>1, <2>2, <2>7 DEF RoutesOK
    <3>2. Owners(k1) # {} /\ <<k1, c1>> \notin tripped
      BY <1>2, <2>1, <2>7, <3>1 DEF Owners
    <3> QED
      BY <1>3, <2>2, <2>7, <3>1, <3>2
  <2> QED
    BY <2>6, <2>7
\* and of the others, which leave the layout alone
<1>8. ASSUME UNCHANGED <<home, named, apps, tripped>>
      PROVE  \E n \in nodes : n.state # "dying" /\ n.role = Relay(k1, c1, named'[k1])
  <2>1. Expected(k1, c1)
    BY <1>2, <1>8 DEF Expected, Assigned, Extras, Owners
  <2> QED
    BY <1>8, <2>1 DEF SInv, RelaysStand
<1>9. ASSUME NEW c \in Channels, NEW on, NEW older, NEW fail, SetFxChain(c, on, older, fail)
      PROVE  \E n \in nodes' : n.state # "dying" /\ n.role = Relay(k1, c1, named'[k1])
  <2>1. UNCHANGED <<home, named, apps, tripped>>
    BY <1>9 DEF SetFxChain, routing
  <2>2. PICK n \in nodes : n.state # "dying" /\ n.role = Relay(k1, c1, named'[k1])
    BY <1>8, <2>1
  <2>3. n \notin Swept(c)
    BY <2>2, RoleFacts DEF Swept, Entries
  <2>4. Dying(n, Swept(c)) = n
    BY <2>3 DEF Dying
  <2>5. n \in Destroyed(nodes, Swept(c)) /\ Destroyed(nodes, Swept(c)) \subseteq nodes'
    BY <1>9, <2>4, ChainNodes DEF SInv
  <2> QED
    BY <2>2, <2>5
<1>10. ASSUME NEW m \in nodes, NodeArrives(m) \/ NodeLeaves(m)
       PROVE  \E n \in nodes' : n.state # "dying" /\ n.role = Relay(k1, c1, named'[k1])
  <2>1. UNCHANGED <<home, named, apps, tripped>>
    BY <1>10 DEF NodeArrives, NodeLeaves, routing
  <2>2. PICK n \in nodes : n.state # "dying" /\ n.role = Relay(k1, c1, named'[k1])
    BY <1>8, <2>1
  <2>3. CASE NodeLeaves(m)
    BY <2>2, <2>3 DEF NodeLeaves
  <2>4. CASE NodeArrives(m)
    <3>1. \E o : nodes' = (nodes \ {m}) \cup {o} /\ o.role = m.role /\ o.state = "there"
      BY <1>1, <2>4, ArrivesFacts
    <3> QED
      BY <2>2, <3>1
  <2> QED
    BY <1>10, <2>3, <2>4
<1> QED
  BY <1>4, <1>5, <1>6, <1>7, <1>8, <1>9, <1>10, QuietForRelays

-----------------------------------------------------------------------------
(* Chains and what waits for them                                          *)

\* Chains are among what is no relay of a key.
LEMMA ChainsInRest ==
  ASSUME NEW ns, NEW ms, NEW k, Rest(ms, k) = Rest(ns, k), NEW c
  PROVE  \A n : n.role = Fx(c) => (n \in ms <=> n \in ns)
<1> SUFFICES ASSUME NEW n, n.role = Fx(c) PROVE n \in ms <=> n \in ns
  OBVIOUS
<1>1. n.role.kind = "fx"
  BY RoleFacts
<1> QED
  BY <1>1 DEF Rest

LEMMA QuietForChains ==
  ASSUME TypeOK, Next, NEW c \in Channels
  PROVE  \/ \E c1 \in Channels, on, older \in BOOLEAN, fail \in SUBSET Samples :
              SetFxChain(c1, on, older, fail)
         \/ \E c1 \in Channels, older \in BOOLEAN : TrackStarts(c1, older)
         \/ \E n \in nodes : NodeArrives(n) \/ NodeLeaves(n)
         \/ /\ waits' \subseteq waits /\ hurried' = hurried
            /\ \A n : n.role = Fx(c) => (n \in nodes' <=> n \in nodes)
<1>1. ChainsOK /\ RoutesOK /\ NodesOK(nodes)
  BY TypeParts DEF ChainsOK
<1> DEFINE Calm == /\ waits' \subseteq waits /\ hurried' = hurried
                    /\ \A n : n.role = Fx(c) => (n \in nodes' <=> n \in nodes)
<1>2. CASE Users
  <2>1. ASSUME NEW s \in Apps, NEW older, AppAppears(s, older) PROVE Calm
    <3>1. Rest(nodes', KeyOf[s]) = Rest(nodes, KeyOf[s])
      BY <2>1, AppearsFacts
    <3>2. UNCHANGED chain
      BY <2>1 DEF AppAppears
    <3> QED
      BY <3>1, <3>2, ChainsInRest DEF chain
  <2>2. ASSUME NEW s \in Apps, NEW older, Unroute(s, older) PROVE Calm
    <3> DEFINE k == KeyOf[s]
    <3>1. k \in Keys /\ home[k] \in Lists
      BY <1>1, KeysOfApps DEF RoutesOK
    <3>2. UNCHANGED chain /\ nodes' = RemoveAppRelays(nodes, k, home[k], older)
      BY <2>2 DEF Unroute
    <3>3. Rest(nodes', k) = Rest(nodes, k)
      BY <1>1, <3>1, <3>2, RelaysRemoved
    <3> QED
      BY <3>2, <3>3, ChainsInRest DEF chain
  <2>7. ASSUME NEW s \in Apps, NEW older, AppVanishes(s, older) PROVE Calm
    <3>1. UNCHANGED chain
      BY <2>7 DEF AppVanishes
    <3>2. PICK some : /\ nodes' = {Dying(n, some) : n \in nodes}
                      /\ \A n \in some : \E k \in Keys : \E d : n \in RelaysOf(nodes, k, d)
      BY <2>7, VanishesFacts
    <3>3. \A n \in nodes : Dying(n, some).role = n.role
      BY <1>1 DEF Dying, NodesOK, Node
    <3>4. ASSUME NEW n, n.role = Fx(c) PROVE n \in nodes' <=> n \in nodes
      <4>1. ASSUME NEW m \in nodes, m.role = Fx(c) PROVE Dying(m, some) = m
        <5>1. m \notin some
          BY <3>2, <4>1, RoleFacts DEF RelaysOf
        <5> QED
          BY <5>1 DEF Dying
      <4> QED
        BY <3>2, <3>3, <3>4, <4>1
    <3> QED
      BY <3>1, <3>4 DEF chain
  <2>3. ASSUME NEW s \in Apps, NEW older, NEW c0 \in Channels, NEW addOn,
               Assign(s, <<c0>>, addOn, older)
        PROVE  Calm
    <3>1. Rest(nodes', KeyOf[s]) = Rest(nodes, KeyOf[s])
      BY <2>3, AssignFacts
    <3>2. UNCHANGED chain
      BY <2>3 DEF Assign
    <3> QED
      BY <3>1, <3>2, ChainsInRest DEF chain
  <2>4. ASSUME NEW n \in Samples, NEW older,
               PlaySample(n, older) \/ AddSample(n) \/ StopSample(n) \/ RemoveSample(n)
        PROVE  Calm
    BY <2>4 DEF PlaySample, AddSample, StopSample, RemoveSample, chain
  <2>5. ASSUME NEW c1 \in Decks, TrackEnds(c1) PROVE Calm
    BY <2>5 DEF TrackEnds, chain
  <2>6. Decks \subseteq Channels
    BY StreamsAssumption
  <2> QED
    BY <1>2, <2>1, <2>2, <2>3, <2>4, <2>5, <2>6, <2>7 DEF Users
<1>3. CASE System
  <2>1. ASSUME NEW s \in Apps, NEW older, Link(s) \/ StreamRouted(s, older) PROVE Calm
    BY <2>1 DEF Link, StreamRouted, chain
  <2>2. ASSUME NEW w \in waits, NEW older, NEW fail,
               \/ RetargetTick(w, older) \/ PlaybackTick(w, older) \/ GivesUp(w)
               \/ RestartTick(w, older, fail)
        PROVE  Calm
    BY <2>2 DEF RetargetTick, PlaybackTick, GivesUp, RestartTick, Ticks
  <2>3. ASSUME Reap \/ \E v \in voices : VoiceDone(v) PROVE Calm
    BY <2>3 DEF Reap, VoiceDone, chain
  <2> QED
    BY <1>3, <2>1, <2>2, <2>3 DEF System
<1> QED
  BY <1>2, <1>3 DEF Next

\* The chain of a channel that is changed, and not in a hurry.
LEMMA CalmChange ==
  ASSUME SInv, NEW c \in Channels, NEW on, NEW older, NEW fail, SetFxChain(c, on, older, fail),
         c \notin hurried'
  PROVE  OneChain(c)' /\ OldKnown(c)'
<1> DEFINE gone == Destroyed(nodes, Swept(c))
           old  == Entry(c, older)
           some == {s \in apps : link[s] \in {c, Entry(c, older)} \ {None}}
<1>1. /\ \A n \in nodes : n.role = Fx(c) => n.state = "there"
      /\ \A w \in waits : w.channel # c
      /\ c \notin hurried /\ c \in Alike[c]
  BY StreamsAssumption DEF SetFxChain
<1>2. NodesOK(nodes) /\ OneChain(c)
  BY <1>1, TypeParts DEF SInv, ChainsOK, Settled
<1>3. /\ gone = {Dying(n, Swept(c)) : n \in nodes}
      /\ \A n \in nodes : Dying(n, Swept(c)).id = n.id /\ Dying(n, Swept(c)).role = n.role
      /\ ~on => nodes' = gone
      /\ on => \E i \in Ids :
           LET new == [id |-> i, role |-> Fx(c), state |-> "loading"]
           IN  new \notin gone /\ nodes' = gone \cup {new}
  <2>1. TypeOK
    BY DEF SInv
  <2> QED
    BY <2>1, ChainNodes
<1>4. ASSUME NEW n \in gone, n.role = Fx(c)
      PROVE  n.state = "dying" /\ n.id = old
  <2> HIDE DEF gone, old
  <2>1. PICK m \in nodes : n = Dying(m, Swept(c))
    BY <1>3
  <2>2. m.role = Fx(c) /\ m.state = "there" /\ n.id = m.id
    BY <1>1, <1>3, <1>4, <2>1
  <2>3. m \in Swept(c) /\ Entries(c) # {}
    BY <1>1, <1>2, <2>2, EntriesAre DEF Swept
  <2>4. n.state = "dying"
    <3>1. m \in Node
      BY <1>2 DEF NodesOK
    <3> QED
      BY <2>1, <2>3, <3>1 DEF Dying, Node
  <2>5. PICK e \in Entries(c) : old = e.id
    BY <1>2, <2>3, EntriesAre DEF old
  <2>6. e \in nodes /\ e.role = Fx(c) /\ e.state = "there"
    BY <1>1, <1>2, <2>5, EntriesAre
  <2>7. e = m
    BY <1>2, <2>2, <2>6 DEF OneChain
  <2> QED
    BY <2>2, <2>4, <2>5, <2>7
<1>5. CASE on
  <2>1. PICK new : /\ new.role = Fx(c) /\ new.state = "loading" /\ nodes' = gone \cup {new}
    BY <1>3, <1>5
  <2>2. ASSUME NEW w \in waits', w.channel = c, w.what = "track" PROVE w.old = old
    <3>1. w \notin waits
      BY <1>1, <2>2
    <3>2. ChainOn(c, some, older, fail)
      BY <1>5 DEF SetFxChain
    <3>3. w \in {Wait("apps", c, some, None), Wait("samples", c, {}, None), Wait("track", c, {}, old)}
      BY <3>1, <3>2 DEF ChainOn
    <3> QED
      BY <2>2, <3>3 DEF Wait
  <2> HIDE DEF gone, old
  <2>3. OneChain(c)'
    <3> SUFFICES ASSUME NEW m \in nodes', NEW n \in nodes', m.role = Fx(c), n.role = Fx(c),
                        m.state # "dying", n.state # "dying"
                 PROVE  m = n
      BY DEF OneChain, Fx
    <3> QED
      BY <1>4, <2>1
  <2>4. OldKnown(c)'
    <3> SUFFICES ASSUME NEW w \in waits', NEW n \in nodes', w.channel = c, w.what = "track",
                        n.role = Fx(c), n.state = "dying"
                 PROVE  n.id = w.old
      BY DEF OldKnown, Fx
    <3> QED
      BY <1>4, <2>1, <2>2
  <2> QED
    BY <2>3, <2>4
<1>6. CASE ~on
  <2>1. nodes' = gone
    BY <1>3, <1>6
  <2>2. ASSUME NEW w \in waits', w.channel = c PROVE w.what # "track"
    <3>1. w \notin waits
      BY <1>1, <2>2
    <3>2. w = Wait("back", c, {}, None)
      BY <1>6, <3>1 DEF SetFxChain, ChainOff
    <3> QED
      BY <3>2 DEF Wait
  <2>3. OneChain(c)'
    <3> HIDE DEF gone
    <3> QED
      BY <1>4, <2>1 DEF OneChain, Fx
  <2>4. OldKnown(c)'
    BY <2>2 DEF OldKnown
  <2> QED
    BY <2>3, <2>4
<1> QED
  BY <1>5, <1>6

LEMMA SettledNext ==
  ASSUME SInv, Next
  PROVE  Settled'
<1> SUFFICES ASSUME NEW c \in Channels, c \notin hurried' PROVE OneChain(c)' /\ OldKnown(c)'
  BY DEF Settled
<1>1. NodesOK(nodes)
  BY TypeParts DEF SInv, ChainsOK
<1>2. ASSUME c \notin hurried PROVE OneChain(c) /\ OldKnown(c)
  BY <1>2 DEF SInv, Settled
<1>3. ASSUME NEW c1 \in Channels, NEW on, NEW older, NEW fail, SetFxChain(c1, on, older, fail)
      PROVE  OneChain(c)' /\ OldKnown(c)'
  <2>1. CASE c1 = c
    BY <1>3, <2>1, CalmChange
  <2>2. CASE c1 # c
    <3> DEFINE gone == Destroyed(nodes, Swept(c1))
    <3>1. c \notin hurried /\ (c \in Alike[c1] => \A w \in waits : w.channel # c)
      BY <1>3 DEF SetFxChain
    <3>2. Fx(c1) # Fx(c)
      <4>1. Fx(c1).channel = c1 /\ Fx(c).channel = c
        BY RoleFacts
      <4> QED
        BY <2>2, <4>1
    <3>3. /\ gone = {Dying(m, Swept(c1)) : m \in nodes}
          /\ \A m \in nodes : Dying(m, Swept(c1)).role = m.role
          /\ \/ nodes' = gone
             \/ \E new : new.role = Fx(c1) /\ nodes' = gone \cup {new}
      BY <1>3, ChainNodes DEF SInv
    <3> HIDE DEF gone
    \* a chain of c that stays stood already
    <3>4. ASSUME NEW n \in nodes', n.role = Fx(c), n.state # "dying" PROVE n \in nodes
      <4>1. PICK m \in nodes : n = Dying(m, Swept(c1))
        BY <3>2, <3>3, <3>4
      <4>2. m \notin Swept(c1)
        <5>1. m \in Swept(c1) => n.state = "dying"
          BY <1>1, <4>1 DEF Dying, NodesOK, Node
        <5> QED
          BY <3>4, <5>1
      <4> QED
        BY <4>1, <4>2 DEF Dying
    <3>5. OneChain(c)'
      BY <1>2, <3>1, <3>4 DEF OneChain, Fx
    <3>6. \A w \in waits' : w.channel = c => w \in waits
      <4> DEFINE some == {s \in apps : link[s] \in {c1, Entry(c1, older)} \ {None}}
      <4>1. ChainOn(c1, some, older, fail) \/ ChainOff(c1, some)
        BY <1>3 DEF SetFxChain
      <4>2. \A what, x, old : Wait(what, c1, x, old).channel = c1
        BY DEF Wait
      <4> HIDE DEF some
      <4> QED
        BY <2>2, <4>1, <4>2 DEF ChainOn, ChainOff
    \* and one that goes is not c's doing, or nobody waits for its successor
    <3>7. CASE c \in Alike[c1]
      <4>1. OldKnown(c)'
        BY <3>1, <3>6, <3>7 DEF OldKnown
      <4> QED
        BY <3>5, <4>1
    <3>8. CASE c \notin Alike[c1]
      <4>1. ASSUME NEW m \in nodes, m.role = Fx(c) PROVE m \notin Swept(c1)
        <5> SUFFICES ASSUME m \in Swept(c1) PROVE FALSE
          OBVIOUS
        <5>1. PICK d \in Alike[c1] : m.role = Fx(d)
          BY DEF Swept, Entries
        <5>2. Fx(d).channel = d /\ Fx(c).channel = c
          BY RoleFacts
        <5> QED
          BY <3>8, <4>1, <5>1, <5>2
      <4>2. ASSUME NEW n \in nodes', n.role = Fx(c) PROVE n \in nodes
        <5>1. PICK m \in nodes : n = Dying(m, Swept(c1))
          BY <3>2, <3>3, <4>2
        <5>2. m.role = Fx(c)
          BY <3>3, <4>2, <5>1
        <5> QED
          BY <4>1, <5>1, <5>2 DEF Dying
      <4>3. OldKnown(c)'
        BY <1>2, <3>1, <3>6, <4>2 DEF OldKnown, Fx
      <4> QED
        BY <3>5, <4>3
    <3> QED
      BY <3>7, <3>8
  <2> QED
    BY <2>1, <2>2
<1>4. ASSUME NEW c1 \in Channels, NEW older, TrackStarts(c1, older)
      PROVE  OneChain(c)' /\ OldKnown(c)'
  <2>1. /\ nodes' = nodes /\ hurried' = hurried
        /\ waits' = IF CanEnter(c1) THEN waits ELSE waits \cup {Wait("track", c1, {}, None)}
    BY <1>4 DEF TrackStarts
  <2>2. OneChain(c)'
    BY <1>2, <2>1 DEF OneChain
  <2>3. OldKnown(c)'
    <3> SUFFICES ASSUME NEW w \in waits', NEW n \in nodes, w.channel = c, w.what = "track",
                        n.role = Fx(c), n.state = "dying"
                 PROVE  n.id = w.old
      BY <2>1 DEF OldKnown, Fx
    <3>1. CASE w \in waits
      BY <1>2, <2>1, <3>1 DEF OldKnown
    <3>2. CASE w \notin waits
      <4>1. ~CanEnter(c1) /\ w = Wait("track", c1, {}, None)
        BY <2>1, <3>2
      <4>2. c1 = c
        BY <4>1 DEF Wait
      <4>3. n \in Entries(c)
        BY <1>1, EntriesAre
      <4> QED
        BY <4>1, <4>2, <4>3 DEF CanEnter
    <3> QED
      BY <3>1, <3>2
  <2> QED
    BY <2>2, <2>3
<1>5. ASSUME NEW n \in nodes, NodeArrives(n)
      PROVE  OneChain(c)' /\ OldKnown(c)'
  <2>1. ChainsOK /\ waits' = waits /\ hurried' = hurried
    BY <1>5, TypeParts DEF NodeArrives, chain, SInv
  <2>2. PICK m : /\ nodes' = (nodes \ {n}) \cup {m} /\ n.state = "loading"
                 /\ m.role = n.role /\ m.state = "there"
    BY <1>5, <2>1, ArrivesFacts
  <2> QED
    BY <1>2, <2>1, <2>2 DEF OneChain, OldKnown, Fx
<1>6. ASSUME NEW n \in nodes, NodeLeaves(n)
      PROVE  OneChain(c)' /\ OldKnown(c)'
  BY <1>2, <1>6 DEF NodeLeaves, chain, OneChain, OldKnown, Fx
<1>7. ASSUME waits' \subseteq waits, hurried' = hurried,
             \A n : n.role = Fx(c) => (n \in nodes' <=> n \in nodes)
      PROVE  OneChain(c)' /\ OldKnown(c)'
  BY <1>2, <1>7 DEF OneChain, OldKnown, Fx
<1>8. TypeOK
  BY DEF SInv
<1> QED
  BY <1>3, <1>4, <1>5, <1>6, <1>7, <1>8, QuietForChains

-----------------------------------------------------------------------------
(* The other parts of the invariant                                        *)

LEMMA StreamsTypeNext ==
  ASSUME SInv, Next
  PROVE  TypeOK'
<1>1. TypeOK /\ Awaiting /\ Decks \subseteq Channels
  BY StreamsAssumption DEF SInv
<1>2. CASE Users
  <2>1. ASSUME NEW s \in Apps, NEW older \in BOOLEAN,
               \/ AppAppears(s, older) \/ AppVanishes(s, older) \/ Unroute(s, older)
               \/ \E c \in Channels, addOn \in BOOLEAN : Assign(s, <<c>>, addOn, older)
        PROVE  TypeOK'
    BY <1>1, <2>1, AppearsType, VanishesType, UnrouteType, AssignType
  <2>2. ASSUME NEW c \in Decks, NEW on \in BOOLEAN, NEW older \in BOOLEAN, NEW fail \in SUBSET Samples,
               SetFxChain(c, on, older, fail)
        PROVE  TypeOK'
    BY <1>1, <2>2, ChainType
  <2>3. ASSUME NEW n \in Samples, NEW older \in BOOLEAN,
               PlaySample(n, older) \/ AddSample(n) \/ StopSample(n) \/ RemoveSample(n)
        PROVE  TypeOK'
    BY <1>1, <2>3, BoardType
  <2>4. ASSUME NEW c \in Decks, NEW older \in BOOLEAN, TrackStarts(c, older) \/ TrackEnds(c)
        PROVE  TypeOK'
    BY <1>1, <2>4, TrackType
  <2> QED
    BY <1>2, <2>1, <2>2, <2>3, <2>4 DEF Users
<1>3. CASE System
  <2>1. ASSUME NEW s \in Apps, Link(s) \/ \E older \in BOOLEAN : StreamRouted(s, older)
        PROVE  TypeOK'
    BY <1>1, <2>1, LinkType, RoutedType
  <2>2. ASSUME NEW w \in waits, NEW older \in BOOLEAN,
               \/ RetargetTick(w, older) \/ PlaybackTick(w, older) \/ GivesUp(w)
               \/ \E fail \in SUBSET Samples : RestartTick(w, older, fail)
        PROVE  TypeOK'
    BY <1>1, <2>2, TicksType
  <2>3. ASSUME Reap \/ \E v \in voices : VoiceDone(v) PROVE TypeOK'
    BY <1>1, <2>3, VoicesType
  <2>4. ASSUME NEW n \in nodes, NodeArrives(n) \/ NodeLeaves(n) PROVE TypeOK'
    BY <1>1, <2>4, ArrivesType, LeavesType
  <2> QED
    BY <1>3, <2>1, <2>2, <2>3, <2>4 DEF System
<1> QED
  BY <1>2, <1>3 DEF Next

\* What the steps may do to the routes and the sounds, action by action.
LEMMA StepsAre ==
  ASSUME TypeOK, Next
  PROVE  \/ \E s \in Apps, older \in BOOLEAN :
              \/ AppAppears(s, older) \/ AppVanishes(s, older) \/ Unroute(s, older)
              \/ \E c \in Channels, addOn \in BOOLEAN : Assign(s, <<c>>, addOn, older)
         \/ /\ UNCHANGED <<apps, home, named>> /\ pending' \subseteq pending
            /\ \/ pending' = pending
               \/ \E s \in Apps, older \in BOOLEAN : StreamRouted(s, older)
<1>1. CASE Users
  BY <1>1 DEF Users, SetFxChain, PlaySample, AddSample, StopSample, RemoveSample, TrackStarts, TrackEnds,
              routing
<1>2. CASE System
  BY <1>2 DEF System, Link, StreamRouted, RetargetTick, PlaybackTick, GivesUp, RestartTick, VoiceDone,
              Reap, NodeArrives, NodeLeaves, routing
<1> QED
  BY <1>1, <1>2 DEF Next

LEMMA AwaitingNext ==
  ASSUME SInv, Next
  PROVE  Awaiting'
<1>1. TypeOK /\ Awaiting
  BY DEF SInv
<1>2. ASSUME NEW s \in Apps, NEW older,
             \/ AppAppears(s, older) \/ AppVanishes(s, older) \/ Unroute(s, older)
             \/ \E c \in Channels, addOn \in BOOLEAN : Assign(s, <<c>>, addOn, older)
      PROVE  Awaiting'
  <2>1. \/ pending' \subseteq pending
        \/ Default # None
    BY <1>2 DEF AppAppears, AppVanishes, Unroute, Assign
  <2> QED
    BY <1>1, <2>1 DEF Awaiting
<1>3. ASSUME pending' \subseteq pending PROVE Awaiting'
  BY <1>1, <1>3 DEF Awaiting
<1> QED
  BY <1>1, <1>2, <1>3, StepsAre

LEMMA RevivedNext ==
  ASSUME SInv, Next
  PROVE  NothingRevived'
<1>1. TypeOK /\ voices \subseteq Voice /\ \A v \in voices : v.sample \in pressed
  BY DEF SInv, TypeOK, NothingRevived
<1>2. ASSUME NEW names, NEW ref, NEW fail, names \subseteq {v.sample : v \in voices}
      PROVE  \A v \in Replayed(voices, names, ref, fail) : v.sample \in pressed
  BY <1>1, <1>2 DEF Replayed
<1>3. Restarted(voices) \subseteq {v.sample : v \in voices}
  BY DEF Restarted
<1>4. CASE Users
  <2>1. ASSUME NEW s \in Apps, NEW older,
               \/ AppAppears(s, older) \/ AppVanishes(s, older) \/ Unroute(s, older)
               \/ \E c \in Channels, addOn \in BOOLEAN : Assign(s, <<c>>, addOn, older)
        PROVE  NothingRevived'
    BY <1>1, <2>1 DEF AppAppears, AppVanishes, Unroute, Assign, board, NothingRevived
  <2>2. ASSUME NEW c \in Decks, NEW on, NEW older, NEW fail, SetFxChain(c, on, older, fail)
        PROVE  NothingRevived'
    <3>1. pressed' = pressed /\ (voices' = voices \/ \E ref : voices' = Replayed(voices, Restarted(voices), ref, fail))
      BY <2>2 DEF SetFxChain, ChainOn, ChainOff
    <3> QED
      BY <1>1, <1>2, <1>3, <3>1 DEF NothingRevived
  <2>3. ASSUME NEW n \in Samples, NEW older, PlaySample(n, older) PROVE NothingRevived'
    BY <1>1, <2>3 DEF PlaySample, NothingRevived
  <2>4. ASSUME NEW n \in Samples, AddSample(n) \/ StopSample(n) \/ RemoveSample(n) PROVE NothingRevived'
    BY <1>1, <2>4 DEF AddSample, StopSample, RemoveSample, Stopped, NothingRevived
  <2>5. ASSUME NEW c \in Decks, NEW older, TrackStarts(c, older) \/ TrackEnds(c) PROVE NothingRevived'
    BY <1>1, <2>5 DEF TrackStarts, TrackEnds, board, NothingRevived
  <2> QED
    BY <1>4, <2>1, <2>2, <2>3, <2>4, <2>5 DEF Users
<1>5. CASE System
  <2>1. ASSUME NEW s \in Apps, NEW older, Link(s) \/ StreamRouted(s, older) PROVE NothingRevived'
    BY <1>1, <2>1 DEF Link, StreamRouted, board, NothingRevived
  <2>2. ASSUME NEW w \in waits, NEW older, RetargetTick(w, older) \/ PlaybackTick(w, older) \/ GivesUp(w)
        PROVE  NothingRevived'
    BY <1>1, <2>2 DEF RetargetTick, PlaybackTick, GivesUp, board, NothingRevived
  <2>3. ASSUME NEW w \in waits, NEW older, NEW fail, RestartTick(w, older, fail)
        PROVE  NothingRevived'
    BY <1>1, <1>2, <1>3, <2>3 DEF RestartTick, NothingRevived
  <2>4. ASSUME NEW v \in voices, VoiceDone(v) PROVE NothingRevived'
    <3>1. [v EXCEPT !.done = TRUE].sample = v.sample
      BY <1>1 DEF Voice
    <3> QED
      BY <1>1, <2>4, <3>1 DEF VoiceDone, NothingRevived
  <2>5. ASSUME Reap PROVE NothingRevived'
    BY <1>1, <2>5 DEF Reap, NothingRevived
  <2>6. ASSUME NEW n \in nodes, NodeArrives(n) PROVE NothingRevived'
    BY <1>1, <2>6 DEF NodeArrives, board, NothingRevived
  <2>7. ASSUME NEW n \in nodes, NodeLeaves(n) PROVE NothingRevived'
    <3>1. pressed' = pressed /\ \A u \in voices' : \E v \in voices : \E x : u = [v EXCEPT !.at = x]
      BY <2>7 DEF NodeLeaves
    <3>2. ASSUME NEW v \in voices, NEW x PROVE [v EXCEPT !.at = x].sample \in pressed
      BY <1>1 DEF Voice
    <3> QED
      BY <3>1, <3>2 DEF NothingRevived
  <2> QED
    BY <1>5, <2>1, <2>2, <2>3, <2>4, <2>5, <2>6, <2>7 DEF System
<1> QED
  BY <1>4, <1>5 DEF Next

LEMMA InitSInv == Init => SInv
<1> SUFFICES ASSUME Init PROVE SInv
  OBVIOUS
<1>1. Cardinality(Channels) \in Nat
  BY StreamsAssumption, FS_CardinalityType
<1>2. <<>> \in Lists /\ <<>> \in Seq(Refs) /\ Len(<<>>) <= 2
  BY ShortLists
<1>3. ChainsOK
  BY StreamsAssumption DEF Init, ChainsOK, NodesOK
<1>4. RoutesOK
  BY <1>2, RefsOfChannels DEF Init, RoutesOK
<1>5. SoundOK
  BY RefsOfChannels DEF Init, SoundOK
<1>6. TypeOK
  BY <1>3, <1>4, <1>5, TypeParts
<1>7. NothingRevived /\ Awaiting /\ Settled
  BY DEF Init, NothingRevived, Awaiting, Settled, OneChain, OldKnown
<1>8. RelaysStand
  <2>1. \A k \in Keys : ~(Len(home[k]) > 1)
    BY DEF Init
  <2> QED
    BY <2>1 DEF RelaysStand, Expected, Assigned
<1> QED
  BY <1>6, <1>7, <1>8 DEF SInv

LEMMA StepSInv == SInv /\ [Next]_vars => SInv'
<1> SUFFICES ASSUME SInv, [Next]_vars PROVE SInv'
  OBVIOUS
<1>1. CASE Next
  BY <1>1, StreamsTypeNext, RevivedNext, AwaitingNext, SettledNext, RelaysStandNext DEF SInv
<1>2. CASE UNCHANGED vars
  <2>1. UNCHANGED <<chain, nodes, routing, where, board, track, events>>
    BY <1>2 DEF vars
  <2>2. TypeOK'
    BY <2>1, TypeParts, TypePartsNext
       DEF SInv, ChainsOK, RoutesOK, SoundOK, chain, routing, where, board
  <2>3. NothingRevived' /\ Awaiting'
    BY <2>1 DEF SInv, NothingRevived, Awaiting, routing, board
  <2>4. Settled' /\ RelaysStand'
    BY <2>1 DEF SInv, Settled, OneChain, OldKnown, RelaysStand, Expected, Assigned, Owners, Fx, Relay, Extras,
                chain, routing
  <2> QED
    BY <2>2, <2>3, <2>4 DEF SInv
<1> QED
  BY <1>1, <1>2

LEMMA SoundInvariant == Spec => []SInv
<1>1. Init => SInv
  BY InitSInv
<1>2. SInv /\ [Next]_vars => SInv'
  BY StepSInv
<1> QED
  BY <1>1, <1>2, PTL DEF Spec

-----------------------------------------------------------------------------
(* The theorems                                                            *)

\* Every variable has its type: no channel is listed twice for an application,
\* no two nodes share an id, and what has left is neither waited for nor linked.
THEOREM StreamsTypeCorrect == Spec => []TypeOK
<1>1. SInv => TypeOK
  BY DEF SInv
<1> QED
  BY <1>1, SoundInvariant, PTL

\* What restartSoundingSamples() starts again after a chain was switched is
\* only what somebody pressed, and that was neither stopped nor reaped at its end.
THEOREM PadsStayStopped == Spec => []NothingRevived
<1>1. SInv => NothingRevived
  BY DEF SInv
<1> QED
  BY <1>1, SoundInvariant, PTL

\* finishAutoRoute() sends no stream anywhere whose application was given a
\* channel between the note and the first link, whichever of its streams it was.
THEOREM UserHasTheLastWord == Spec => ChoiceIsFinal
<1> DEFINE A == \A s \in apps \cap apps' :
                  /\ s \in pending \ pending' /\ events' = events
                  /\ KeyOf[s] \in chosen
                  => target'[s] = target[s]
<1>1. SInv /\ [Next]_vars => [A]_vars
  <2> SUFFICES ASSUME SInv, Next, NEW s \in apps, s \in pending \ pending', events' = events,
                      KeyOf[s] \in chosen
               PROVE  target'[s] = target[s]
    OBVIOUS
  <2>1. TypeOK /\ chosen \subseteq known /\ events \in 0..MaxEvents
    BY DEF SInv, TypeOK
  <2>2. ~Event
    BY <2>1, EventType
  <2>3. \E s1 \in Apps, older \in BOOLEAN : StreamRouted(s1, older)
    <3>1. pending' # pending
      OBVIOUS
    <3>2. ASSUME NEW s1 \in Apps, NEW older,
                 \/ AppAppears(s1, older) \/ AppVanishes(s1, older) \/ Unroute(s1, older)
                 \/ \E c \in Channels, addOn \in BOOLEAN : Assign(s1, <<c>>, addOn, older)
          PROVE  Event
      BY <3>2 DEF AppAppears, AppVanishes, Unroute, Assign
    <3> QED
      BY <2>1, <2>2, <3>1, <3>2, StepsAre
  <2>4. PICK s1 \in Apps, older \in BOOLEAN : StreamRouted(s1, older)
    BY <2>3
  <2>5. s1 = s
    BY <2>4 DEF StreamRouted
  <2>6. ~StillUnknown(KeyOf[s])
    BY <2>1 DEF StillUnknown
  <2> QED
    BY <2>4, <2>5, <2>6 DEF StreamRouted
<1> QED
  BY <1>1, SoundInvariant, PTL DEF Spec, ChoiceIsFinal

\* A playback that waits for its chain is moved onto an entry that stays, never
\* onto the one on its way out, for any channels whose slugs begin alike: unless
\* the chain is changed, or swept away with another's, while something waits.
THEOREM PlaybackFollows == Spec => SuccessorOnly
<1> DEFINE A == \A c \in Channels \ hurried :
                  \/ track'[c] \in {track[c], c, None, Gone}
                  \/ track[c] = None
                  \/ \E n \in nodes : n.id = track'[c] /\ n.state = "there"
<1>1. SInv /\ [Next]_vars => [A]_vars
  <2> SUFFICES ASSUME SInv, Next, NEW c \in Channels, c \notin hurried
               PROVE  \/ track'[c] \in {track[c], c, None, Gone}
                      \/ track[c] = None
                      \/ \E n \in nodes : n.id = track'[c] /\ n.state = "there"
    OBVIOUS
  <2> DEFINE Fine == \/ track'[c] \in {track[c], c, None, Gone}
                     \/ track[c] = None
                     \/ \E n \in nodes : n.id = track'[c] /\ n.state = "there"
  <2>1. NodesOK(nodes) /\ OldKnown(c) /\ track \in [Channels -> Refs \ {Elsewhere}]
    BY TypeParts DEF SInv, ChainsOK, SoundOK, Settled
  <2>2. ASSUME NEW w \in waits, NEW older, PlaybackTick(w, older) PROVE Fine
    <3> DEFINE n == Twin(Entries(w.channel), older)
    <3>1. CASE track' = [track EXCEPT ![w.channel] = IF Playing(w.channel) THEN w.channel ELSE None]
      BY <2>1, <3>1
    <3>2. CASE /\ w.what = "track" /\ Entries(w.channel) # {} /\ Successor(w, n)
               /\ track' = [track EXCEPT ![w.channel] = IF Playing(w.channel) THEN n.id ELSE None]
      <4>1. CASE w.channel = c
        <5>1. n \in nodes /\ n.role = Fx(c) /\ n.state # "loading" /\ n.id # w.old
          BY <2>1, <3>2, <4>1, EntriesAre DEF Successor
        <5>2. n.state # "dying"
          BY <2>1, <3>2, <4>1, <5>1 DEF OldKnown
        <5>3. n.state = "there"
          BY <2>1, <5>1, <5>2 DEF NodesOK, Node, States
        <5> HIDE DEF n
        <5> QED
          BY <2>1, <3>2, <4>1, <5>1, <5>3
      <4>2. CASE w.channel # c
        BY <2>1, <3>2, <4>2
      <4> QED
        BY <4>1, <4>2
    <3> QED
      BY <2>2, <3>1, <3>2 DEF PlaybackTick
  <2>3. ASSUME NEW c1 \in Decks, NEW older, TrackStarts(c1, older) \/ TrackEnds(c1) PROVE Fine
    BY <2>1, <2>3 DEF TrackStarts, TrackEnds, Playing
  <2>4. ASSUME NEW n \in nodes, NodeLeaves(n) PROVE Fine
    BY <2>1, <2>4 DEF NodeLeaves
  <2>5. CASE Users
    <3>1. ASSUME NEW s \in Apps, NEW older,
                 \/ AppAppears(s, older) \/ AppVanishes(s, older) \/ Unroute(s, older)
                 \/ \E c1 \in Channels, addOn \in BOOLEAN : Assign(s, <<c1>>, addOn, older)
          PROVE  track' = track
      BY <3>1 DEF AppAppears, AppVanishes, Unroute, Assign
    <3>2. ASSUME NEW n \in Samples, NEW older,
                 PlaySample(n, older) \/ AddSample(n) \/ StopSample(n) \/ RemoveSample(n)
          PROVE  track' = track
      BY <3>2 DEF PlaySample, AddSample, StopSample, RemoveSample
    <3>3. ASSUME NEW c1 \in Decks, NEW on, NEW older, NEW fail, SetFxChain(c1, on, older, fail)
          PROVE  track' = track
      BY <3>3 DEF SetFxChain
    <3>4. track' = track => Fine
      OBVIOUS
    <3> SUFFICES Fine
      OBVIOUS
    <3> HIDE DEF Fine
    <3> QED
      BY <2>3, <2>5, <3>1, <3>2, <3>3, <3>4 DEF Users
  <2>6. CASE System
    BY <2>2, <2>4, <2>6 DEF System, Link, StreamRouted, RetargetTick, GivesUp, RestartTick, VoiceDone,
                            Reap, NodeArrives
  <2> QED
    BY <2>5, <2>6 DEF Next
<1> QED
  BY <1>1, SoundInvariant, PTL DEF Spec, SuccessorOnly

\* The relay of every further channel of an application is in the graph, or on
\* its way, however many streams share a node name: unless it was asked for while
\* its predecessor was still leaving, or went with another stream of the name.
THEOREM RelaysAreKept == Spec => []RelaysStand
<1>1. SInv => RelaysStand
  BY DEF SInv
<1> QED
  BY <1>1, SoundInvariant, PTL

-----------------------------------------------------------------------------
(***************************************************************************)
(* LayoutWatch, for any number of edits, commands and restarts, whichever  *)
(* edits show in the fragment.                                             *)
(*                                                                         *)
(* The loop brake and the watch hold however the daemon starts.  That no   *)
(* unread edit is overwritten holds from the daemon's first save on, and   *)
(* rests on the daemon always running the layout it remembers as its own:  *)
(* then bytes on disk that are not remembered are not running either.      *)
(***************************************************************************)

\* The layout that runs holds no edit that was not made yet.
OnlyPastEdits ==
  /\ layout.edit <= edits
  /\ disk = Corrupt \/ disk.edit <= edits
  /\ foreign \in {NoBytes, Corrupt} \/ foreign.edit <= edits

\* As long as nobody else writes, the file holds what the daemon remembers having written.
OwnBytes ==
  edits = 0 => /\ foreign = NoBytes
               /\ written # NoBytes \/ fsEvent => disk = written

\* Qt has let go of every dead watch it was notified about, and the debounce re-arms.
Armed ==
  ~fsEvent => /\ held => live
              /\ timer \/ held

WatchInv == WatchTypeOK /\ OnlyPastEdits /\ OwnBytes /\ Armed

\* From the first save on.
RunsWhatItWrote == written = layout
-----------------------------------------------------------------------------
LEMMA InitWatchInv == WatchInit => WatchInv
<1> SUFFICES ASSUME WatchInit PROVE WatchInv
  OBVIOUS
<1>1. layout \in Layouts /\ layout.edit = 0
  BY LayoutWatchAssumption DEF WatchInit, Layouts
<1>2. Render(layout) \in [edits : SUBSET RenderedEdits, op : 0..(MaxOps + 1)]
  BY <1>1, LayoutWatchAssumption DEF Render, Layouts
<1>3. StaleConf \in [edits : SUBSET RenderedEdits, op : 0..(MaxOps + 1)]
  BY LayoutWatchAssumption DEF StaleConf
<1>4. WatchTypeOK
  <2>1. disk \in Layouts \cup {Corrupt} /\ written \in Layouts \cup {NoBytes}
    BY <1>1 DEF WatchInit, Start
  <2>2. conf \in [edits : SUBSET RenderedEdits, op : 0..(MaxOps + 1)]
    BY <1>2, <1>3 DEF WatchInit, Start
  <2>3. edits \in 0..MaxEdits /\ ops \in 0..MaxOps /\ drops \in 0..MaxDrops
    BY LayoutWatchAssumption DEF WatchInit
  <2> QED
    BY <1>1, <2>1, <2>2, <2>3 DEF WatchInit, WatchTypeOK
<1>5. OnlyPastEdits /\ OwnBytes /\ Armed
  BY <1>1, BytesAssumption DEF WatchInit, Start, OnlyPastEdits, OwnBytes, Armed
<1> QED
  BY <1>4, <1>5 DEF WatchInv

\* A save keeps the types, whatever the memories were.
LEMMA SaveTypes ==
  ASSUME WatchTypeOK, NEW l \in Layouts, NEW ours, NEW unread \in Layouts \cup {NoBytes, Corrupt},
         NEW holds, SaveLayout(l, ours, unread, holds)
  PROVE  /\ disk' = l /\ written' = l /\ held' = TRUE /\ live' \in BOOLEAN /\ fsEvent' = TRUE
         /\ foreign' \in {unread, disk}
         /\ conf' \in [edits : SUBSET RenderedEdits, op : 0..(MaxOps + 1)]
<1>1. Render(l) \in [edits : SUBSET RenderedEdits, op : 0..(MaxOps + 1)]
  BY LayoutWatchAssumption DEF Render, Layouts
<1>2. live' \in BOOLEAN
  BY Zenon DEF SaveLayout, ReplaceInodeAndArm
<1> QED
  BY <1>1, <1>2 DEF SaveLayout, PickUpForeign, ReplaceInodeAndArm
-----------------------------------------------------------------------------
LEMMA CommandKeeps ==
  ASSUME WatchInv, Command
  PROVE  WatchInv'
<1> USE DEF Command
<1>1. layout' \in Layouts /\ layout'.edit = layout.edit /\ ops' \in 0..MaxOps
  BY LayoutWatchAssumption DEF WatchInv, WatchTypeOK, Layouts
<1>2. /\ disk' = layout' /\ written' = layout' /\ held' = TRUE /\ live' \in BOOLEAN
      /\ fsEvent' = TRUE
      /\ conf' \in [edits : SUBSET RenderedEdits, op : 0..(MaxOps + 1)]
  BY <1>1, SaveTypes DEF WatchInv, WatchTypeOK
<1>3. foreign' = PickUpForeign(written, foreign)
  BY DEF SaveLayout
<1>4. WatchTypeOK'
  BY <1>1, <1>2, <1>3 DEF PickUpForeign, WatchInv, WatchTypeOK
<1>5. OnlyPastEdits'
  BY <1>1, <1>2, <1>3 DEF PickUpForeign, WatchInv, OnlyPastEdits
<1>6. OwnBytes' /\ Armed'
  BY <1>2, <1>3 DEF PickUpForeign, WatchInv, OwnBytes, Armed
<1> QED
  BY <1>4, <1>5, <1>6 DEF WatchInv

LEMMA PwReconcileKeeps ==
  ASSUME WatchInv, PwReconcile
  PROVE  WatchInv'
<1> USE DEF PwReconcile, counters, watch
<1>1. CASE Drifted(layout)
  <2>1. SaveLayout(layout, written, foreign, held)
    BY <1>1
  <2>2. /\ disk' = layout /\ written' = layout /\ held' = TRUE /\ live' \in BOOLEAN
        /\ fsEvent' = TRUE
        /\ conf' \in [edits : SUBSET RenderedEdits, op : 0..(MaxOps + 1)]
    BY <2>1, SaveTypes DEF WatchInv, WatchTypeOK
  <2>3. foreign' = PickUpForeign(written, foreign)
    BY <2>1 DEF SaveLayout
  <2>4. WatchTypeOK' /\ OnlyPastEdits'
    BY <2>2, <2>3 DEF PickUpForeign, WatchInv, WatchTypeOK, OnlyPastEdits
  <2>5. OwnBytes' /\ Armed'
    BY <2>2, <2>3 DEF PickUpForeign, WatchInv, OwnBytes, Armed
  <2> QED
    BY <2>4, <2>5 DEF WatchInv
<1>2. CASE ~Drifted(layout)
  BY <1>2 DEF WatchInv, WatchTypeOK, OnlyPastEdits, OwnBytes, Armed
<1> QED
  BY <1>1, <1>2

LEMMA DebounceApplyKeeps ==
  ASSUME WatchInv, DebounceApply
  PROVE  WatchInv'
<1> USE DEF DebounceApply, counters, watch
<1>1. foreign \in Layouts /\ foreign.edit <= edits /\ edits # 0 /\ layout' = foreign
  BY DEF Ignores, WatchInv, WatchTypeOK, OnlyPastEdits, OwnBytes
<1>2. CASE Drifted(foreign)
  <2>1. SaveLayout(foreign, foreign, NoBytes, TRUE)
    BY <1>2
  <2>2. /\ disk' = foreign /\ written' = foreign /\ held' = TRUE /\ live' \in BOOLEAN
        /\ fsEvent' = TRUE /\ foreign' \in {NoBytes, disk}
        /\ conf' \in [edits : SUBSET RenderedEdits, op : 0..(MaxOps + 1)]
    BY <1>1, <2>1, SaveTypes DEF WatchInv, WatchTypeOK
  <2>3. WatchTypeOK' /\ OnlyPastEdits'
    BY <1>1, <2>2 DEF WatchInv, WatchTypeOK, OnlyPastEdits
  <2>4. OwnBytes' /\ Armed'
    BY <1>1, <2>2 DEF WatchInv, OwnBytes, Armed
  <2> QED
    BY <2>3, <2>4 DEF WatchInv
<1>3. CASE ~Drifted(foreign)
  <2>1. /\ written' = foreign /\ foreign' = NoBytes /\ ArmLayoutWatch
        /\ UNCHANGED <<disk, conf, fsEvent>>
    BY <1>3
  <2>2. WatchTypeOK' /\ OnlyPastEdits'
    BY <1>1, <2>1 DEF ArmLayoutWatch, WatchInv, WatchTypeOK, OnlyPastEdits
  <2>3. OwnBytes' /\ Armed'
    BY <1>1, <2>1 DEF ArmLayoutWatch, WatchInv, WatchTypeOK, OwnBytes, Armed
  <2> QED
    BY <2>2, <2>3 DEF WatchInv
<1> QED
  BY <1>2, <1>3

LEMMA FsNotifyKeeps ==
  ASSUME WatchInv, FsNotify
  PROVE  WatchInv'
<1> USE DEF FsNotify, counters
<1>1. held' \in BOOLEAN
  BY Zenon
<1>2. WatchTypeOK'
  BY <1>1 DEF WatchInv, WatchTypeOK
<1>3. OnlyPastEdits' /\ OwnBytes'
  BY DEF WatchInv, WatchTypeOK, OnlyPastEdits, OwnBytes
<1>4. Armed'
  BY DEF WatchInv, Armed
<1> QED
  BY <1>2, <1>3, <1>4 DEF WatchInv

LEMMA DebounceIgnoreKeeps ==
  ASSUME WatchInv, DebounceIgnore
  PROVE  WatchInv'
<1> USE DEF DebounceIgnore, ArmLayoutWatch, counters, watch
<1>1. WatchTypeOK'
  BY DEF WatchInv, WatchTypeOK
<1>2. OnlyPastEdits' /\ OwnBytes' /\ Armed'
  BY DEF WatchInv, WatchTypeOK, OnlyPastEdits, OwnBytes, Armed
<1> QED
  BY <1>1, <1>2 DEF WatchInv

LEMMA PipeWireKeeps ==
  ASSUME WatchInv, PwConnected \/ PwDisconnected
  PROVE  WatchInv'
BY LayoutWatchAssumption DEF PwConnected, PwDisconnected, counters, watch, WatchInv, WatchTypeOK,
   OnlyPastEdits, OwnBytes, Armed

LEMMA ForeignKeeps ==
  ASSUME WatchInv, ForeignEdit \/ ForeignGarbage
  PROVE  WatchInv'
<1>1. edits \in 0..MaxEdits /\ edits' = edits + 1 /\ edits' \in 0..MaxEdits
  BY LayoutWatchAssumption DEF ForeignEdit, ForeignGarbage, WatchInv, WatchTypeOK
<1>2. disk' \in Layouts \cup {Corrupt} /\ (disk' = Corrupt \/ disk'.edit = edits')
  BY <1>1, LayoutWatchAssumption DEF ForeignEdit, ForeignGarbage, WatchInv, WatchTypeOK, Layouts
<1>3. PICK kind \in EditKinds : Notified(kind)
  BY DEF ForeignEdit, ForeignGarbage
<1>4. live' \in BOOLEAN /\ fsEvent' \in BOOLEAN
  BY <1>3, Zenon DEF Notified, WatchInv, WatchTypeOK
<1>5. WatchTypeOK'
  BY <1>1, <1>2, <1>4 DEF ForeignEdit, ForeignGarbage, WatchInv, WatchTypeOK
<1>6. OnlyPastEdits'
  BY <1>1, <1>2 DEF ForeignEdit, ForeignGarbage, WatchInv, WatchTypeOK, OnlyPastEdits, Layouts
<1>7. OwnBytes'
  BY <1>1 DEF OwnBytes
<1>8. Armed'
  BY <1>3, Zenon DEF Notified, ForeignEdit, ForeignGarbage, WatchInv, Armed
<1> QED
  BY <1>5, <1>6, <1>7, <1>8 DEF WatchInv
-----------------------------------------------------------------------------
(* The theorems. *)

LEMMA StepWatchInv == WatchInv /\ [WatchNext]_watchVars => WatchInv'
<1> SUFFICES ASSUME WatchInv, [WatchNext]_watchVars PROVE WatchInv'
  OBVIOUS
<1>1. CASE UNCHANGED watchVars
  BY <1>1 DEF watchVars, WatchInv, WatchTypeOK, OnlyPastEdits, OwnBytes, Armed
<1> QED
  BY <1>1, CommandKeeps, FsNotifyKeeps, DebounceIgnoreKeeps, DebounceApplyKeeps, PwReconcileKeeps,
     PipeWireKeeps, ForeignKeeps DEF WatchNext

LEMMA WatchInvariant == WatchSpec => []WatchInv
BY InitWatchInv, StepWatchInv, PTL DEF WatchSpec

\* However the daemon starts, the watcher's state stays in its types.
THEOREM WatchTypeCorrect == WatchSpec => []WatchTypeOK
<1>1. WatchInv => WatchTypeOK
  BY DEF WatchInv
<1> QED
  BY <1>1, WatchInvariant, PTL

\* The loop brake: without a foreign edit the daemon never reloads anything, whatever it
\* writes and however often PipeWire restarts.
THEOREM LoopBrake == WatchSpec => []OwnBytesNeverForeign
<1>1. WatchInv => OwnBytesNeverForeign
  BY DEF WatchInv, OwnBytes, OwnBytesNeverForeign
<1> QED
  BY <1>1, WatchInvariant, PTL

\* In a quiet daemon the watch is on the inode that is on disk.
THEOREM WatchIsArmed == WatchSpec => []WatchSurvivesRenames
<1>1. WatchInv => WatchSurvivesRenames
  BY DEF WatchInv, Armed, WatchSurvivesRenames, Quiet
<1> QED
  BY <1>1, WatchInvariant, PTL

\* A daemon that has saved once runs what it remembers as its own.
LEMMA RunsItsOwn ==
  ASSUME Starts = {"saved"}
  PROVE  WatchSpec => []RunsWhatItWrote
<1>1. WatchInit => RunsWhatItWrote
  BY DEF WatchInit, Start, RunsWhatItWrote
<1>2. RunsWhatItWrote /\ [WatchNext]_watchVars => RunsWhatItWrote'
  <2> SUFFICES ASSUME written = layout, [WatchNext]_watchVars PROVE written' = layout'
    BY DEF RunsWhatItWrote
  <2>1. CASE Command \/ PwReconcile
    BY <2>1 DEF Command, PwReconcile, SaveLayout
  <2>2. CASE DebounceApply
    BY <2>2 DEF DebounceApply, SaveLayout
  <2>3. CASE \/ FsNotify \/ DebounceIgnore \/ PwConnected \/ PwDisconnected
             \/ ForeignEdit \/ ForeignGarbage \/ UNCHANGED watchVars
    BY <2>3 DEF FsNotify, DebounceIgnore, PwConnected, PwDisconnected, ForeignEdit,
       ForeignGarbage, watchVars
  <2> QED
    BY <2>1, <2>2, <2>3 DEF WatchNext
<1> QED
  BY <1>1, <1>2, PTL DEF WatchSpec

\* From the first save on, no write of the daemon destroys an edit nobody has read.
THEOREM NoUnreadEditLost ==
  ASSUME Starts = {"saved"}
  PROVE  WatchSpec => UnreadEditSurvivesSave
<1> DEFINE Kept == \/ disk' # layout' \/ disk = disk' \/ disk = Corrupt
                   \/ disk.edit <= layout'.edit \/ foreign' = disk
<1>1. WatchInv /\ RunsWhatItWrote /\ [WatchNext]_watchVars => [Kept]_watchVars
  <2> SUFFICES ASSUME WatchInv, RunsWhatItWrote, WatchNext, disk' # disk PROVE Kept
    OBVIOUS
  <2>1. CASE ForeignEdit \/ ForeignGarbage
    <3>1. disk' = Corrupt \/ disk'.edit = edits + 1
      BY <2>1 DEF ForeignEdit, ForeignGarbage
    <3>2. layout' \in Layouts /\ layout'.edit <= edits /\ layout'.edit \in Nat /\ edits \in Nat
      BY <2>1 DEF ForeignEdit, ForeignGarbage, WatchInv, WatchTypeOK, OnlyPastEdits, Layouts
    <3> QED
      BY <3>1, <3>2, BytesAssumption
  <2>2. CASE Command
    BY <2>2, BytesAssumption DEF Command, SaveLayout, PickUpForeign, RunsWhatItWrote, WatchInv, WatchTypeOK, Layouts
  <2>3. CASE PwReconcile
    BY <2>3, BytesAssumption DEF PwReconcile, SaveLayout, PickUpForeign, RunsWhatItWrote, WatchInv, WatchTypeOK, Layouts
  <2>4. CASE DebounceApply
    BY <2>4 DEF DebounceApply, Ignores, SaveLayout, PickUpForeign, WatchInv, WatchTypeOK
  <2>5. CASE FsNotify \/ DebounceIgnore \/ PwConnected \/ PwDisconnected
    BY <2>5 DEF FsNotify, DebounceIgnore, PwConnected, PwDisconnected
  <2> QED
    BY <2>1, <2>2, <2>3, <2>4, <2>5 DEF WatchNext
<1> QED
  BY <1>1, WatchInvariant, RunsItsOwn, PTL DEF WatchSpec, UnreadEditSurvivesSave

=============================================================================
