------------------------------ MODULE DevicesProofs ------------------------------
(***************************************************************************)
(* What holds of Devices for every set of devices, any number of outputs   *)
(* and wires, and however often they are plugged in and out: the types,    *)
(* the mix on the right output (MixFollows), the wires of the channel on   *)
(* edges of their own (WiresServe), and removals that take one wire        *)
(* (RemovalIsExact).                                                       *)
(*                                                                         *)
(* The Mixer acts on what it has heard, and hears in order.  The invariant *)
(* says of the queue that its last word on every device and every edge is  *)
(* the truth, and of every edge that is not as it should be that something *)
(* the Mixer has yet to hear, or to look at, will make it so.              *)
(***************************************************************************)
EXTENDS Devices, FiniteSetTheorems, SequenceTheorems,
        WellFoundedInduction, TLAPS

\* What is on its way after the i-th event.
Later(i, what, name) == \E j \in DOMAIN news : j > i /\ news[j] = <<what, name>>

Told(what, name) == Later(0, what, name)

Words == {"added", "removed"} \X (Devices \cup Names)

\* The last word on a device is true, and without a word the Mixer knows.
DeviceTold(d) ==
  /\ d \in there =>
       /\ d \notin seen => Told("added", d)
       /\ \A i \in DOMAIN news : news[i] = <<"removed", d>> => Later(i, "added", d)
  /\ d \notin there =>
       /\ d \in seen => Told("removed", d)
       /\ \A i \in DOMAIN news : news[i] = <<"added", d>> => Later(i, "removed", d)

\* An edge is asked for until its arrival has been heard of, once; one that has
\* left since is heard of after that.
EdgeTold(n) ==
  /\ edges[n].state = "loading" => ~Told("added", n)
  /\ edges[n].asked <=> edges[n].state = "loading" \/ Told("added", n)
  /\ \A i, j \in DOMAIN news :
       news[i] = <<"added", n>> /\ news[j] = <<"added", n>> => i = j
  /\ edges[n].state = "none" =>
       \A i \in DOMAIN news : news[i] = <<"added", n>> => Later(i, "removed", n)

\* The first output is where it should be, or its device has left and the Mixer
\* is about to hear of it.
Target == Pick(outputs, fallback, seen)
Follows == \/ edges[Out(0)].aim \in {None, Target}
           \/ Target \in Devices /\ Told("removed", Target)

\* An input edge carries its wire, with its mute once its arrival has been heard
\* of; one that is missing is about to be looked for again.
Serves(n) ==
  LET own == {w \in Range(inputs) : In(w.slug) = n} IN
  /\ n \notin raced =>
       /\ edges[n].state \in {"loading", "up"} => \E w \in own : edges[n].ref = w.ref
       /\ edges[n].state = "loading" => ~edges[n].muted
       /\ edges[n].state = "up" =>
            \A w \in own :
              \/ edges[n].muted <=> w.muted
              \/ Told("added", n) /\ ~edges[n].muted
  /\ edges[n].state = "none" =>
       \A w \in own : w.ref.node \in seen => again \/ Told("removed", n)

\* The types, and an edge that is not there is not moved.
Output == [ref : OutRefs, muted : BOOLEAN]
Socket == [slug : 0..(MaxWires - 1), ref : InRefs, muted : BOOLEAN]

OutputsOK(outs) == outs \in Seq(Output) /\ Len(outs) <= MaxOuts
InputsOK(ins) ==
  /\ ins \in Seq(Socket)
  /\ \A k, m \in DOMAIN ins : ins[k].slug = ins[m].slug => k = m

EdgeOK(n, e) ==
  /\ e \in EdgeType
  /\ e.state = "loading" => e.asked
  /\ n \in InNames \/ (n = Out(0) /\ ~InGraph(e)) => e.aim = None
EdgesOK(es) == es \in [Names -> EdgeType] /\ \A n \in Names : EdgeOK(n, es[n])

Shape ==
  /\ there \subseteq Devices /\ seen \subseteq Devices
  /\ OutputsOK(outputs) /\ fallback \in Devices \cup {None}
  /\ InputsOK(inputs) /\ EdgesOK(edges) /\ news \in Seq(Words)
  /\ again \in BOOLEAN /\ raced \subseteq InNames /\ events \in 0..MaxEvents

\* The invariant.
IInv ==
  /\ Shape
  /\ \A d \in Devices : DeviceTold(d)
  /\ \A n \in Names : EdgeTold(n)
  /\ Follows
  /\ \A n \in InNames : Serves(n)

-----------------------------------------------------------------------------
(* Induction, the least of a set of numbers, and lists                     *)

LEMMA NatSetInduction ==
  ASSUME NEW T, 0 \in T, \A n \in Nat : n \in T => n + 1 \in T
  PROVE  Nat \subseteq T
<1> DEFINE U == Nat \ T
<1> SUFFICES ASSUME U # {} PROVE FALSE
  OBVIOUS
<1>1. PICK x \in U : \A y \in U : ~(<<y, x>> \in OpToRel(<, Nat))
  <2>1. U \subseteq Nat
    OBVIOUS
  <2> HIDE DEF U
  <2>2. \E x \in U : \A y \in U : ~(<<y, x>> \in OpToRel(<, Nat))
    BY <2>1, NatLessThanWellFounded, WFMin
  <2>3. QED
    BY <2>2
<1>2. x - 1 \in U /\ x - 1 < x
  OBVIOUS
<1>3. <<x - 1, x>> \in OpToRel(<, Nat)
  BY <1>2 DEF OpToRel
<1>4. QED
  BY <1>1, <1>2, <1>3

LEMMA Least ==
  ASSUME NEW s \in SUBSET Nat, s # {}
  PROVE  Min(s) \in s /\ \A y \in s : Min(s) <= y
<1> DEFINE Below == OpToRel(<, Nat)
<1>1. PICK x \in s : \A y \in s : ~(<<y, x>> \in Below)
  BY NatLessThanWellFounded, WFMin
<1>2. x \in s /\ \A y \in s : x <= y
  <2> SUFFICES ASSUME NEW y \in s PROVE x <= y
    OBVIOUS
  <2>1. x \in Nat /\ y \in Nat
    OBVIOUS
  <2>2. y < x => <<y, x>> \in Below
    BY <2>1 DEF OpToRel
  <2> HIDE DEF Below
  <2>3. QED
    BY <1>1, <2>1, <2>2
<1>3. QED
  BY <1>2 DEF Min

\* One step of Kept.
UpTo(f, n, list, some) ==
  IF n = 0 THEN <<>>
  ELSE IF n \in some THEN Append(f[n - 1], list[n]) ELSE f[n - 1]

LEMMA KeptExists ==
  ASSUME NEW list, NEW some, NEW k \in Nat
  PROVE  \E f : f = [n \in 0..k |-> UpTo(f, n, list, some)]
<1> DEFINE Is(f, m) == f = [n \in 0..m |-> UpTo(f, n, list, some)]
           T == {m \in Nat : \E f : Is(f, m)}
<1>1. 0 \in T
  <2> DEFINE f == [n \in 0..0 |-> <<>>]
  <2>1. Is(f, 0)
    BY DEF UpTo
  <2>2. QED
    BY <2>1
<1>2. ASSUME NEW m \in Nat, m \in T PROVE m + 1 \in T
  <2>1. PICK f : Is(f, m)
    BY <1>2
  <2> DEFINE g == [n \in 0..(m + 1) |-> UpTo(f, n, list, some)]
  <2>2. \A n \in 0..m : g[n] = f[n]
    BY <2>1
  <2>3. \A n \in 0..(m + 1) : n # 0 => n - 1 \in 0..m
    OBVIOUS
  <2> HIDE DEF g
  <2>4. ASSUME NEW n \in 0..(m + 1)
        PROVE  UpTo(f, n, list, some) = UpTo(g, n, list, some)
    BY <2>2, <2>3 DEF UpTo
  <2>5. Is(g, m + 1)
    BY <2>4 DEF g
  <2>6. QED
    BY <2>5
<1>3. Nat \subseteq T
  <2> HIDE DEF T
  <2>1. QED
    BY <1>1, <1>2, NatSetInduction
<1>4. QED
  BY <1>3

\* t holds the elements of list at the indices in some, each once.
Embeds(e, t, list, some) ==
  /\ e \in [DOMAIN t -> some]
  /\ \A i \in DOMAIN t : t[i] = list[e[i]]
  /\ \A i, j \in DOMAIN t : e[i] = e[j] => i = j
  /\ \A k \in some : \E i \in DOMAIN t : e[i] = k

LEMMA KeptIs ==
  ASSUME NEW S, NEW list \in Seq(S), NEW some \in SUBSET DOMAIN list
  PROVE  /\ Kept(list, some) \in Seq(S) /\ Len(Kept(list, some)) <= Len(list)
         /\ \E e : Embeds(e, Kept(list, some), list, some)
<1> DEFINE m == Len(list)
           f == CHOOSE g : g = [n \in 0..m |-> UpTo(g, n, list, some)]
<1>1. m \in Nat /\ DOMAIN list = 1..m
  OBVIOUS
<1>2. Kept(list, some) = f[m]
  BY DEF Kept, UpTo
<1>3. f = [n \in 0..m |-> UpTo(f, n, list, some)]
  BY <1>1, KeptExists
<1> HIDE DEF f, m
<1>4. \A n \in 0..m : f[n] = UpTo(f, n, list, some)
  BY <1>3
<1> DEFINE Part(n) == {k \in some : k <= n}
           Good(n) == /\ f[n] \in Seq(S) /\ Len(f[n]) <= n
                      /\ \E e : Embeds(e, f[n], list, Part(n))
           T == {n \in Nat : n <= m => Good(n)}
<1> HIDE DEF Good
<1>5. 0 \in T
  <2>1. f[0] = <<>> /\ <<>> \in Seq(S) /\ Len(<<>>) <= 0 /\ DOMAIN <<>> = {}
    BY <1>1, <1>4 DEF UpTo
  <2>2. Part(0) = {}
    BY <1>1
  <2>3. Embeds([i \in {} |-> 0], <<>>, list, {})
    BY <2>1 DEF Embeds
  <2>4. QED
    BY <2>1, <2>2, <2>3 DEF Good
<1>6. ASSUME NEW n \in Nat, n \in T PROVE n + 1 \in T
  <2> SUFFICES ASSUME n + 1 <= m PROVE Good(n + 1)
    OBVIOUS
  <2>1. Good(n)
    BY <1>1, <1>6
  <2>2. /\ f[n] \in Seq(S) /\ Len(f[n]) <= n
        /\ \E e : Embeds(e, f[n], list, Part(n))
    BY <2>1 DEF Good
  <2>3. n + 1 \in 0..m /\ n + 1 # 0 /\ (n + 1) - 1 = n /\ n + 1 \in 1..m
    BY <1>1
  <2>4. f[n + 1] = IF n + 1 \in some THEN Append(f[n], list[n + 1]) ELSE f[n]
    BY <1>4, <2>3 DEF UpTo
  <2>5. list[n + 1] \in S
    BY <1>1, <2>3
  <2>6. PICK e : Embeds(e, f[n], list, Part(n))
    BY <2>2
  <2>7. CASE n + 1 \notin some
    <3>1. Part(n + 1) = Part(n)
      BY <1>1, <2>7
    <3>2. f[n + 1] = f[n] /\ Len(f[n]) \in Nat
      BY <2>2, <2>4, <2>7
    <3> HIDE DEF Part
    <3>3. QED
      BY <2>2, <2>6, <3>1, <3>2 DEF Good
  <2>8. CASE n + 1 \in some
    <3> DEFINE t == Append(f[n], list[n + 1])
               l == Len(f[n])
               d == [i \in 1..(l + 1) |-> IF i = l + 1 THEN n + 1 ELSE e[i]]
    <3>1. Part(n + 1) = Part(n) \cup {n + 1} /\ n + 1 \notin Part(n)
      BY <1>1, <2>8
    <3>2. /\ l \in Nat /\ DOMAIN f[n] = 1..l /\ t \in Seq(S) /\ Len(t) = l + 1
          /\ DOMAIN t = 1..(l + 1) /\ t[l + 1] = list[n + 1]
          /\ \A i \in 1..l : t[i] = f[n][i]
      BY <2>2, <2>5
    <3> HIDE DEF t, l, Part
    <3>3. e \in [1..l -> Part(n)] /\ \A i \in 1..l : f[n][i] = list[e[i]]
      BY <2>6, <3>2 DEF Embeds
    <3>4. /\ \A i, j \in 1..l : e[i] = e[j] => i = j
          /\ \A k \in Part(n) : \E i \in 1..l : e[i] = k
      BY <2>6, <3>2 DEF Embeds
    <3>5. \A i \in 1..(l + 1) : i # l + 1 => i \in 1..l
      BY <3>2
    <3>6. \A i \in 1..l : i \in 1..(l + 1) /\ i # l + 1
      BY <3>2
    <3>7. l + 1 \in 1..(l + 1)
      BY <3>2
    <3>8. d \in [1..(l + 1) -> Part(n) \cup {n + 1}]
      BY <3>3, <3>5
    <3>9. \A i \in 1..(l + 1) : t[i] = list[d[i]]
      BY <3>2, <3>3, <3>5
    <3>10. \A i, j \in 1..(l + 1) : d[i] = d[j] => i = j
      <4> SUFFICES ASSUME NEW i \in 1..(l + 1), NEW j \in 1..(l + 1), d[i] = d[j], i # j
                   PROVE  FALSE
        OBVIOUS
      <4>1. CASE i # l + 1 /\ j # l + 1
        BY <3>4, <3>5, <4>1
      <4>2. CASE i = l + 1
        <5>1. j \in 1..l /\ e[j] = n + 1
          BY <3>5, <4>2
        <5>2. QED
          BY <3>1, <3>3, <5>1
      <4>3. CASE j = l + 1
        <5>1. i \in 1..l /\ e[i] = n + 1
          BY <3>5, <4>3
        <5>2. QED
          BY <3>1, <3>3, <5>1
      <4>4. QED
        BY <4>1, <4>2, <4>3
    <3>11. \A k \in Part(n) \cup {n + 1} : \E i \in 1..(l + 1) : d[i] = k
      <4> SUFFICES ASSUME NEW k \in Part(n) \cup {n + 1} PROVE \E i \in 1..(l + 1) : d[i] = k
        OBVIOUS
      <4>1. CASE k = n + 1
        BY <3>7, <4>1
      <4>2. CASE k \in Part(n)
        <5>1. PICK i \in 1..l : e[i] = k
          BY <3>4, <4>2
        <5>2. d[i] = k
          BY <3>6, <5>1
        <5>3. QED
          BY <3>6, <5>2
      <4>3. QED
        BY <4>1, <4>2
    <3> HIDE DEF d
    <3>12. Embeds(d, t, list, Part(n + 1))
      BY <3>1, <3>2, <3>8, <3>9, <3>10, <3>11 DEF Embeds
    <3>13. f[n + 1] = t /\ Len(t) <= n + 1
      BY <2>2, <2>4, <2>8, <3>2 DEF t, l
    <3>14. QED
      BY <3>2, <3>12, <3>13 DEF Good
  <2>9. QED
    BY <2>7, <2>8
<1>7. m \in T
  <2> HIDE DEF T
  <2>1. QED
    BY <1>1, <1>5, <1>6, NatSetInduction
<1>8. Part(m) = some
  BY <1>1
<1>9. QED
  BY <1>1, <1>2, <1>7, <1>8 DEF Good, m

-----------------------------------------------------------------------------
(* What the Mixer does to edges                                            *)

\* An edge is taken down or asked for, or it stays as it is, moved and muted.
Mild(e, f) ==
  \/ f.state = e.state /\ f.asked = e.asked
  \/ e.state = "up" /\ f.state = "dying" /\ f.asked = e.asked
  \/ e.state = "none" /\ ~e.asked /\ f.state = "loading" /\ f.asked
MildAll(es, fs) == \A n \in Names : Mild(es[n], fs[n])

\* An input edge is asked for, for a wire of its own, if there is one that can be
\* had.
Asked(n, e, f, wires, known) ==
  \/ f = e /\ \A w \in wires : In(w.slug) = n => w.ref.node \notin known
  \/ \E w \in wires : In(w.slug) = n /\ w.ref.node \in known /\ f = Requested(e, w.ref)

\* The first output is moved to p, unless that has left unheard of.
AimOK(es, p, known) == es[Out(0)].aim \in {None, p} \/ p \in known \ there

LEMMA NamesAre ==
  /\ Out(0) \in Names /\ Out(0) \notin InNames
  /\ InNames \subseteq Names
  /\ \A i, j : /\ In(i) = In(j) => i = j
               /\ Out(i) = Out(j) => i = j
               /\ In(i) # Out(j)
  /\ \A i : Out(i)[2] = i /\ In(i)[2] = i
  /\ \A i \in 0..(MaxWires - 1) : In(i) \in InNames
  /\ \A i \in 0..(MaxOuts - 1) : Out(i) \in Names /\ Out(i) \notin InNames
<1>1. MaxOuts \in Nat \ {0} /\ MaxWires \in Nat \ {0}
  BY DevicesAssumption
<1>2. 0 \in 0..(MaxOuts - 1)
  BY <1>1
<1>3. \A i, j : In(i) # Out(j)
  BY DEF In, Out
<1>4. \A i, j : (In(i) = In(j) => i = j) /\ (Out(i) = Out(j) => i = j)
  BY DEF In, Out
<1>5. \A i : Out(i)[2] = i /\ In(i)[2] = i
  BY DEF In, Out
<1>6. QED
  BY <1>2, <1>3, <1>4, <1>5 DEF Names, InNames, OutNames

LEMMA MildIsTransitive ==
  ASSUME NEW es, NEW fs, NEW gs, MildAll(es, fs), MildAll(fs, gs)
  PROVE  MildAll(es, gs)
BY DEF MildAll, Mild

LEMMA RequestedIs ==
  ASSUME NEW n, NEW e, EdgeOK(n, e), NEW ref \in OutRefs \cup InRefs \cup {Parked}
  PROVE  /\ EdgeOK(n, Requested(e, ref)) /\ Mild(e, Requested(e, ref))
         /\ \/ Requested(e, ref) = e /\ (InGraph(e) \/ e.asked)
            \/ /\ e.state = "none" /\ ~e.asked
               /\ Requested(e, ref) = [state |-> "loading", ref |-> ref, aim |-> None,
                                       muted |-> FALSE, asked |-> TRUE]
<1> DEFINE f == [state |-> "loading", ref |-> ref, aim |-> None, muted |-> FALSE,
                 asked |-> TRUE]
<1>1. f \in EdgeType
  BY DEF EdgeType
<1>2. e \in EdgeType /\ e.state \in {"none", "loading", "up", "dying"}
  BY DEF EdgeOK, EdgeType
<1>3. Requested(e, ref) = IF InGraph(e) \/ e.asked THEN e ELSE f
  BY DEF Requested
<1>4. CASE InGraph(e) \/ e.asked
  BY <1>3, <1>4 DEF Mild
<1>5. CASE ~(InGraph(e) \/ e.asked)
  <2>1. e.state = "none" /\ ~e.asked
    BY <1>2, <1>5 DEF EdgeOK, InGraph
  <2>2. EdgeOK(n, f) /\ Mild(e, f)
    BY <1>1, <2>1 DEF EdgeOK, Mild
  <2>3. QED
    BY <1>3, <1>5, <2>1, <2>2
<1>6. QED
  BY <1>4, <1>5

LEMMA DestroyedIs ==
  ASSUME NEW es, EdgesOK(es), NEW ns
  PROVE  /\ EdgesOK(Destroyed(es, ns)) /\ MildAll(es, Destroyed(es, ns))
         /\ \A n \in Names : n \notin ns => Destroyed(es, ns)[n] = es[n]
         /\ \A n \in Names : n \in ns => /\ Destroyed(es, ns)[n].state # "up"
                                         /\ InGraph(es[n]) => InGraph(Destroyed(es, ns)[n])
<1> DEFINE fs == Destroyed(es, ns)
<1>1. ASSUME NEW n \in Names
      PROVE  /\ EdgeOK(n, fs[n]) /\ Mild(es[n], fs[n])
             /\ n \notin ns => fs[n] = es[n]
             /\ n \in ns => fs[n].state # "up" /\ (InGraph(es[n]) => InGraph(fs[n]))
  <2>1. es[n] \in EdgeType /\ EdgeOK(n, es[n])
    BY DEF EdgesOK
  <2>2. fs[n] = IF n \in ns /\ es[n].state = "up"
                  THEN [es[n] EXCEPT !.state = "dying"] ELSE es[n]
    BY DEF Destroyed
  <2>3. CASE n \in ns /\ es[n].state = "up"
    <3>1. /\ fs[n] \in EdgeType /\ fs[n].state = "dying" /\ fs[n].asked = es[n].asked
          /\ fs[n].aim = es[n].aim
      BY <2>1, <2>2, <2>3 DEF EdgeType
    <3>2. QED
      BY <2>1, <2>3, <3>1 DEF EdgeOK, Mild, InGraph
  <2>4. CASE ~(n \in ns /\ es[n].state = "up")
    BY <2>1, <2>2, <2>4 DEF Mild
  <2>5. QED
    BY <2>3, <2>4
<1>2. fs \in [Names -> EdgeType]
  BY <1>1 DEF EdgeOK, Destroyed
<1>3. QED
  BY <1>1, <1>2 DEF EdgesOK, MildAll

LEMMA WiresAre ==
  ASSUME NEW ins, InputsOK(ins)
  PROVE  /\ Range(ins) \subseteq Socket
         /\ \A w \in Range(ins) : /\ w.slug \in 0..(MaxWires - 1) /\ w.ref \in InRefs
                                 /\ w.muted \in BOOLEAN
         /\ \A v, w \in Range(ins) : v.slug = w.slug => v = w
<1>1. \A k \in DOMAIN ins : ins[k] \in Socket
  BY DEF InputsOK
<1>2. Range(ins) \subseteq Socket
  BY <1>1 DEF Range
<1>3. \A w \in Socket : w.slug \in 0..(MaxWires - 1) /\ w.ref \in InRefs /\ w.muted \in BOOLEAN
  BY DEF Socket
<1>4. \A v, w \in Range(ins) : v.slug = w.slug => v = w
  BY DEF InputsOK, Range
<1>5. QED
  BY <1>2, <1>3, <1>4

\* What Asked makes of an edge.
LEMMA AskedIs ==
  ASSUME NEW n \in Names, NEW e, NEW f, EdgeOK(n, e), NEW ins, InputsOK(ins), NEW known,
         Asked(n, e, f, Range(ins), known)
  PROVE  EdgeOK(n, f) /\ Mild(e, f)
<1>1. CASE f = e
  BY <1>1 DEF Mild
<1>2. ASSUME NEW w \in Range(ins), f = Requested(e, w.ref) PROVE EdgeOK(n, f) /\ Mild(e, f)
  <2>1. w.ref \in InRefs
    BY WiresAre
  <2>2. QED
    BY <1>2, <2>1, RequestedIs
<1>3. QED
  BY <1>1, <1>2 DEF Asked

LEMMA EnsureInputIs ==
  ASSUME NEW es, EdgesOK(es), NEW i, i.slug \in 0..(MaxWires - 1), i.ref \in InRefs,
         NEW known
  PROVE  /\ EdgesOK(EnsureInput(es, i, known)) /\ MildAll(es, EnsureInput(es, i, known))
         /\ \A n \in Names : n # In(i.slug) => EnsureInput(es, i, known)[n] = es[n]
         /\ EnsureInput(es, i, known)[In(i.slug)] =
              IF i.ref.node \in known THEN Requested(es[In(i.slug)], i.ref)
                                      ELSE es[In(i.slug)]
<1> DEFINE m == In(i.slug)
           r == Requested(es[m], i.ref)
           fs == EnsureInput(es, i, known)
<1>1. m \in Names /\ EdgeOK(m, es[m]) /\ es \in [Names -> EdgeType]
  BY NamesAre DEF EdgesOK
<1>2. EdgeOK(m, r) /\ Mild(es[m], r)
  BY <1>1, RequestedIs
<1>3. fs = IF i.ref.node \in known THEN [es EXCEPT ![m] = r] ELSE es
  BY <1>1 DEF EnsureInput
<1> HIDE DEF m, r, fs
<1>4. \A n \in Names : fs[n] = IF n = m /\ i.ref.node \in known THEN r ELSE es[n]
  BY <1>1, <1>3
<1>5. \A n \in Names : EdgeOK(n, fs[n]) /\ Mild(es[n], fs[n])
  BY <1>2, <1>4 DEF EdgesOK, Mild
<1>6. fs \in [Names -> EdgeType]
  BY <1>1, <1>2, <1>3 DEF EdgeOK
<1>7. QED
  BY <1>1, <1>4, <1>5, <1>6 DEF EdgesOK, MildAll, m, r, fs

LEMMA EnsureInputsIs ==
  ASSUME NEW es, EdgesOK(es), NEW ins, InputsOK(ins), NEW known
  PROVE  \A n \in Names : Asked(n, es[n], EnsureInputs(es, ins, known)[n], Range(ins), known)
<1> SUFFICES ASSUME NEW n \in Names
             PROVE  Asked(n, es[n], EnsureInputs(es, ins, known)[n], Range(ins), known)
  OBVIOUS
<1> DEFINE own == {k \in DOMAIN ins : In(ins[k].slug) = n /\ ins[k].ref.node \in known}
           f == EnsureInputs(es, ins, known)[n]
<1>1. f = IF own = {} THEN es[n] ELSE Requested(es[n], ins[Min(own)].ref)
  BY DEF EnsureInputs
<1>2. own \in SUBSET Nat
  BY DEF InputsOK
<1>3. CASE own = {}
  <2>1. \A w \in Range(ins) : In(w.slug) = n => w.ref.node \notin known
    BY <1>3 DEF Range
  <2>2. QED
    BY <1>1, <1>3, <2>1 DEF Asked
<1>4. CASE own # {}
  <2>1. Min(own) \in own
    BY <1>2, <1>4, Least
  <2>2. PICK w \in Range(ins) : w = ins[Min(own)]
    BY <2>1 DEF Range
  <2>3. In(w.slug) = n /\ w.ref.node \in known /\ f = Requested(es[n], w.ref)
    BY <1>1, <1>4, <2>1, <2>2
  <2>4. QED
    BY <2>3 DEF Asked
<1>5. QED
  BY <1>3, <1>4

LEMMA EnsureEdgesIs ==
  ASSUME NEW es, EdgesOK(es), NEW outs, OutputsOK(outs), NEW ins, InputsOK(ins), NEW known
  PROVE  /\ EdgesOK(EnsureEdges(es, outs, ins, known))
         /\ MildAll(es, EnsureEdges(es, outs, ins, known))
         /\ \A n \in InNames :
              Asked(n, es[n], EnsureEdges(es, outs, ins, known)[n], Range(ins), known)
<1> DEFINE fs == EnsureEdges(es, outs, ins, known)
           Carried(n) == n = Out(0) \/ \E k \in DOMAIN outs : n = Out(k - 1)
           Ref(n) == IF outs = <<>> THEN Parked ELSE outs[n[2] + 1].ref
<1>1. \A n \in Names : fs[n] = IF Carried(n) THEN Requested(es[n], Ref(n))
                               ELSE EnsureInputs(es, ins, known)[n]
  BY DEF EnsureEdges
<1>2. /\ Len(outs) \in Nat /\ DOMAIN outs = 1..Len(outs) /\ (outs = <<>> <=> Len(outs) = 0)
  BY DEF OutputsOK
<1>3. \A k \in DOMAIN outs : outs[k].ref \in OutRefs
  <2>1. \A k \in DOMAIN outs : outs[k] \in Output
    BY DEF OutputsOK
  <2>2. QED
    BY <2>1 DEF Output
<1>4. ASSUME NEW n \in Names, Carried(n) PROVE Ref(n) \in OutRefs \cup InRefs \cup {Parked}
  <2>1. CASE outs = <<>>
    BY <2>1
  <2>2. CASE outs # <<>>
    <3>1. PICK k \in DOMAIN outs : n = Out(k - 1)
      <4>1. 1 \in DOMAIN outs /\ 1 - 1 = 0
        BY <1>2, <2>2
      <4>2. QED
        BY <1>4, <4>1
    <3>2. n[2] + 1 = k
      BY <1>2, <3>1, NamesAre
    <3>3. QED
      BY <1>3, <2>2, <3>2
  <2>3. QED
    BY <2>1, <2>2
<1>5. \A n \in InNames : ~Carried(n)
  BY NamesAre DEF InNames
<1>6. ASSUME NEW n \in Names PROVE EdgeOK(n, fs[n]) /\ Mild(es[n], fs[n])
  <2>1. EdgeOK(n, es[n])
    BY DEF EdgesOK
  <2>2. CASE Carried(n)
    BY <1>1, <1>4, <2>1, <2>2, RequestedIs
  <2>3. CASE ~Carried(n)
    <3>1. fs[n] = EnsureInputs(es, ins, known)[n]
      BY <1>1, <2>3
    <3>2. QED
      BY <2>1, <3>1, EnsureInputsIs, AskedIs
  <2>4. QED
    BY <2>2, <2>3
<1>7. fs \in [Names -> EdgeType]
  BY <1>6 DEF EdgeOK, EnsureEdges
<1>8. \A n \in InNames : Asked(n, es[n], fs[n], Range(ins), known)
  BY <1>1, <1>5, EnsureInputsIs, NamesAre
<1>9. QED
  BY <1>6, <1>7, <1>8 DEF EdgesOK, MildAll

LEMMA PickIs ==
  ASSUME NEW outs, OutputsOK(outs), NEW fall \in Devices \cup {None},
         NEW known \in SUBSET Devices
  PROVE  Pick(outs, fall, known) \in known \cup {Null}
<1> DEFINE present == {n \in DOMAIN outs : outs[n].ref.node \in known}
<1>1. present \in SUBSET Nat
  BY DEF OutputsOK
<1>2. CASE present # {}
  <2>1. Min(present) \in present
    BY <1>1, <1>2, Least
  <2>2. QED
    BY <1>2, <2>1 DEF Pick
<1>3. CASE present = {}
  BY <1>3 DEF Pick
<1>4. QED
  BY <1>2, <1>3

LEMMA ApplyIs ==
  ASSUME NEW es, EdgesOK(es), NEW outs, OutputsOK(outs), NEW fall \in Devices \cup {None},
         NEW known \in SUBSET Devices
  PROVE  /\ EdgesOK(ApplyFallbacks(es, outs, fall, known))
         /\ MildAll(es, ApplyFallbacks(es, outs, fall, known))
         /\ \A n \in Names : n # Out(0) => ApplyFallbacks(es, outs, fall, known)[n] = es[n]
         /\ AimOK(ApplyFallbacks(es, outs, fall, known), Pick(outs, fall, known), known)
<1> DEFINE o == Out(0)
           p == Pick(outs, fall, known)
           fs == ApplyFallbacks(es, outs, fall, known)
<1>1. o \in Names /\ o \notin InNames /\ EdgeOK(o, es[o]) /\ es \in [Names -> EdgeType]
  BY NamesAre DEF EdgesOK
<1>2. p \in known \cup {Null} /\ p \in Devices \cup {Null, None, Gone}
  BY PickIs
<1>3. fs = IF InGraph(es[o]) /\ p \in there \cup {Null} THEN [es EXCEPT ![o].aim = p] ELSE es
  BY DEF ApplyFallbacks
<1> HIDE DEF o, p, fs
<1>4. CASE InGraph(es[o]) /\ p \in there \cup {Null}
  <2>1. fs = [es EXCEPT ![o].aim = p] /\ es[o] \in EdgeType
    BY <1>1, <1>3, <1>4
  <2>2. /\ fs[o] \in EdgeType /\ fs[o].aim = p /\ fs[o].state = es[o].state
        /\ fs[o].asked = es[o].asked /\ fs \in [Names -> EdgeType]
        /\ \A n \in Names : n # o => fs[n] = es[n]
    BY <1>1, <1>2, <2>1 DEF EdgeType
  <2>3. EdgeOK(o, fs[o]) /\ Mild(es[o], fs[o])
    BY <1>1, <1>4, <2>2 DEF EdgeOK, Mild, InGraph, o
  <2>4. \A n \in Names : n # o => EdgeOK(n, fs[n]) /\ Mild(es[n], fs[n])
    BY <2>2 DEF EdgesOK, Mild
  <2>5. QED
    BY <2>2, <2>3, <2>4 DEF EdgesOK, MildAll, AimOK, o, p, fs
<1>5. CASE ~InGraph(es[o])
  BY <1>1, <1>3, <1>5 DEF EdgeOK, MildAll, Mild, AimOK, o, p, fs
<1>6. CASE p \notin there \cup {Null}
  BY <1>2, <1>3, <1>6 DEF MildAll, Mild, AimOK, p, fs
<1>7. QED
  BY <1>4, <1>5, <1>6

LEMMA MutedIs ==
  ASSUME NEW es, EdgesOK(es), NEW m \in Names, NEW on \in BOOLEAN
  PROVE  /\ EdgesOK(Muted(es, m, on)) /\ MildAll(es, Muted(es, m, on))
         /\ \A n \in Names : n # m => Muted(es, m, on)[n] = es[n]
         /\ Muted(es, m, on)[m] = IF es[m].state = "up" THEN [es[m] EXCEPT !.muted = on]
                                                        ELSE es[m]
<1> DEFINE fs == Muted(es, m, on)
<1>1. es \in [Names -> EdgeType] /\ EdgeOK(m, es[m])
  BY DEF EdgesOK
<1>2. CASE es[m].state = "up"
  <2>1. /\ fs[m] \in EdgeType /\ fs[m] = [es[m] EXCEPT !.muted = on]
        /\ fs[m].state = es[m].state /\ fs[m].asked = es[m].asked
        /\ fs[m].aim = es[m].aim /\ fs \in [Names -> EdgeType]
        /\ \A n \in Names : n # m => fs[n] = es[n]
    BY <1>1, <1>2 DEF Muted, EdgeType
  <2> HIDE DEF fs
  <2>2. EdgeOK(m, fs[m]) /\ Mild(es[m], fs[m])
    BY <1>1, <1>2, <2>1 DEF EdgeOK, Mild, InGraph
  <2>3. \A n \in Names : n # m => EdgeOK(n, fs[n]) /\ Mild(es[n], fs[n])
    BY <2>1 DEF EdgesOK, Mild
  <2>4. QED
    BY <1>2, <2>1, <2>2, <2>3 DEF EdgesOK, MildAll, fs
<1>3. CASE es[m].state # "up"
  BY <1>3 DEF Muted, MildAll, Mild
<1>4. QED
  BY <1>2, <1>3

-----------------------------------------------------------------------------
(* The queue                                                               *)

LEMMA Heard ==
  ASSUME news \in Seq(Words), NEW what, Hear(what)
  PROVE  /\ news' \in Seq(Words) /\ news[1] = <<what, Named>> /\ 1 \in DOMAIN news
         /\ what \in {"added", "removed"} /\ Named \in Devices \cup Names
         /\ \A i \in DOMAIN news' : i \in Nat /\ i + 1 \in DOMAIN news /\ news'[i] = news[i + 1]
         /\ \A i \in Nat : \A w, x : Later(i + 1, w, x) => Later(i, w, x)'
         /\ \A w, x : Told(w, x)' => Told(w, x)
         /\ \A w, x : Told(w, x) /\ (w # what \/ x # Named) => Told(w, x)'
<1> DEFINE k == Len(news)
<1>1. k \in Nat /\ k # 0 /\ DOMAIN news = 1..k /\ news' = Tail(news) /\ news[1][1] = what
  BY DEF Hear
<1>2. news' \in Seq(Words) /\ Len(news') = k - 1 /\ DOMAIN news' = 1..(k - 1)
  BY <1>1
<1>3. \A i \in 1..(k - 1) : news'[i] = news[i + 1]
  BY <1>1, <1>2
<1>4. news[1] \in Words /\ 1 \in 1..k
  BY <1>1, ElementOfSeq
<1>5. news[1] = <<what, Named>> /\ what \in {"added", "removed"} /\ Named \in Devices \cup Names
  BY <1>1, <1>4 DEF Words, Named
<1> HIDE DEF k
<1>6. ASSUME NEW i \in Nat, NEW w, NEW x, NEW j \in DOMAIN news, j > i + 1, news[j] = <<w, x>>
      PROVE  \E q \in DOMAIN news' : q > i /\ news'[q] = <<w, x>>
  <2>1. j - 1 \in 1..(k - 1) /\ j - 1 > i /\ (j - 1) + 1 = j
    BY <1>1, <1>6
  <2>2. news'[j - 1] = <<w, x>>
    BY <1>3, <1>6, <2>1
  <2>3. QED
    BY <1>2, <2>1, <2>2
<1>7. \A i \in Nat : \A w, x : Later(i + 1, w, x) => Later(i, w, x)'
  BY <1>6 DEF Later
<1>8. \A w, x : Told(w, x)' => Told(w, x)
  <2> SUFFICES ASSUME NEW w, NEW x, NEW i \in DOMAIN news', news'[i] = <<w, x>>
               PROVE  \E j \in DOMAIN news : j > 0 /\ news[j] = <<w, x>>
    BY DEF Told, Later
  <2>1. i + 1 \in DOMAIN news /\ i + 1 > 0 /\ news[i + 1] = <<w, x>>
    BY <1>1, <1>2, <1>3
  <2>2. QED
    BY <2>1
<1>9. \A w, x : Told(w, x) /\ (w # what \/ x # Named) => Told(w, x)'
  <2> SUFFICES ASSUME NEW w, NEW x, w # what \/ x # Named, NEW j \in DOMAIN news, news[j] = <<w, x>>
               PROVE  \E q \in DOMAIN news' : q > 0 /\ news'[q] = <<w, x>>
    BY DEF Told, Later
  <2>1. j # 1
    BY <1>5
  <2>2. j > 0 + 1
    BY <1>1, <2>1
  <2>3. QED
    BY <1>6, <2>2
<1>10. \A i \in DOMAIN news' : i \in Nat /\ i + 1 \in DOMAIN news
  BY <1>1, <1>2
<1>11. QED
  BY <1>1, <1>2, <1>3, <1>4, <1>5, <1>7, <1>8, <1>9, <1>10

LEMMA Telling ==
  ASSUME news \in Seq(Words), NEW what \in {"added", "removed"},
         NEW name \in Devices \cup Names, Tell(what, name)
  PROVE  /\ news' \in Seq(Words) /\ DOMAIN news \subseteq Nat
         /\ \A i \in DOMAIN news' : \/ i \in DOMAIN news
                                    \/ i = Len(news) + 1 /\ news'[i] = <<what, name>>
         /\ \A i \in DOMAIN news : i \in DOMAIN news' /\ news'[i] = news[i]
         /\ \A i, w, x : Later(i, w, x) => Later(i, w, x)'
         /\ \A i \in DOMAIN news : Later(i, what, name)'
         /\ Told(what, name)'
         /\ \A w, x : Told(w, x)' => Told(w, x) \/ (w = what /\ x = name)
<1> DEFINE k == Len(news)
           e == <<what, name>>
<1>1. k \in Nat /\ DOMAIN news = 1..k /\ e \in Words /\ news' = Append(news, e)
  BY DEF Tell, Words
<1> HIDE DEF e
<1>2. /\ news' \in Seq(Words) /\ DOMAIN news' = 1..(k + 1) /\ news'[k + 1] = e
      /\ \A i \in 1..k : news'[i] = news[i]
  BY <1>1
<1> HIDE DEF k
<1>3. \A i \in 1..k : i \in 1..(k + 1) /\ k + 1 > i
  BY <1>1
<1>4. k + 1 \in 1..(k + 1) /\ k + 1 > 0
  BY <1>1
<1>5. \A i \in 1..(k + 1) : i \in 1..k \/ i = k + 1
  BY <1>1
<1>6. \A i, w, x : Later(i, w, x) => Later(i, w, x)'
  BY <1>1, <1>2, <1>3 DEF Later
<1>7. (\A i \in DOMAIN news : Later(i, what, name)') /\ Told(what, name)'
  BY <1>1, <1>2, <1>3, <1>4 DEF Later, Told, e
<1>8. \A w, x : Told(w, x)' => Told(w, x) \/ <<w, x>> = e
  BY <1>1, <1>2, <1>5 DEF Later, Told
<1>9. \A w, x : <<w, x>> = e => w = what /\ x = name
  BY DEF e
<1>10. QED
  BY <1>1, <1>2, <1>3, <1>5, <1>6, <1>7, <1>8, <1>9 DEF e, k

LEMMA DeviceHeard ==
  ASSUME news \in Seq(Words), NEW what, Hear(what), there' = there,
         seen' = IF Named \notin Devices THEN seen
                 ELSE IF what = "added" THEN seen \cup {Named} ELSE seen \ {Named},
         NEW d \in Devices, DeviceTold(d)
  PROVE  DeviceTold(d)'
<1>1. CASE d \in there
  <2>1. ASSUME d \notin seen' PROVE Told("added", d)'
    <3>1. CASE d \notin seen
      <4>1. ~(what = "added" /\ Named = d)
        BY <2>1, <3>1
      <4>2. Told("added", d)
        BY <1>1, <3>1 DEF DeviceTold
      <4>3. QED
        BY <4>1, <4>2, Heard
    <3>2. CASE d \in seen
      <4>1. news[1] = <<"removed", d>> /\ 1 \in DOMAIN news
        BY <2>1, <3>2, Heard
      <4>2. Later(0 + 1, "added", d)
        BY <1>1, <4>1 DEF DeviceTold
      <4>3. QED
        BY <4>2, Heard DEF Told
    <3>3. QED
      BY <3>1, <3>2
  <2>2. ASSUME NEW i \in DOMAIN news', news'[i] = <<"removed", d>> PROVE Later(i, "added", d)'
    <3>1. i \in Nat /\ i + 1 \in DOMAIN news /\ news[i + 1] = <<"removed", d>>
      BY <2>2, Heard
    <3>2. Later(i + 1, "added", d)
      BY <1>1, <3>1 DEF DeviceTold
    <3>3. QED
      BY <3>1, <3>2, Heard
  <2>3. QED
    BY <1>1, <2>1, <2>2 DEF DeviceTold
<1>2. CASE d \notin there
  <2>1. ASSUME d \in seen' PROVE Told("removed", d)'
    <3>1. CASE d \in seen
      <4>1. ~(what = "removed" /\ Named = d)
        BY <2>1, <3>1
      <4>2. Told("removed", d)
        BY <1>2, <3>1 DEF DeviceTold
      <4>3. QED
        BY <4>1, <4>2, Heard
    <3>2. CASE d \notin seen
      <4>1. news[1] = <<"added", d>> /\ 1 \in DOMAIN news
        BY <2>1, <3>2, Heard
      <4>2. Later(0 + 1, "removed", d)
        BY <1>2, <4>1 DEF DeviceTold
      <4>3. QED
        BY <4>2, Heard DEF Told
    <3>3. QED
      BY <3>1, <3>2
  <2>2. ASSUME NEW i \in DOMAIN news', news'[i] = <<"added", d>> PROVE Later(i, "removed", d)'
    <3>1. i \in Nat /\ i + 1 \in DOMAIN news /\ news[i + 1] = <<"added", d>>
      BY <2>2, Heard
    <3>2. Later(i + 1, "removed", d)
      BY <1>2, <3>1 DEF DeviceTold
    <3>3. QED
      BY <3>1, <3>2, Heard
  <2>3. QED
    BY <1>2, <2>1, <2>2 DEF DeviceTold
<1>3. QED
  BY <1>1, <1>2

LEMMA DeviceTelling ==
  ASSUME news \in Seq(Words), NEW what \in {"added", "removed"},
         NEW name \in Devices \cup Names, Tell(what, name), seen' = seen,
         there' = IF name \notin Devices THEN there
                  ELSE IF what = "added" THEN there \cup {name} ELSE there \ {name},
         NEW d \in Devices, DeviceTold(d)
  PROVE  DeviceTold(d)'
<1>1. ASSUME d \in there', d \notin seen' PROVE Told("added", d)'
  <2>1. CASE d \in there
    <3>1. Told("added", d)
      BY <1>1, <2>1 DEF DeviceTold
    <3>2. QED
      BY <3>1, Telling DEF Told
  <2>2. CASE d \notin there
    <3>1. what = "added" /\ name = d
      BY <1>1, <2>2
    <3>2. QED
      BY <3>1, Telling
  <2>3. QED
    BY <2>1, <2>2
<1>2. ASSUME d \notin there', d \in seen' PROVE Told("removed", d)'
  <2>1. CASE d \notin there
    <3>1. Told("removed", d)
      BY <1>2, <2>1 DEF DeviceTold
    <3>2. QED
      BY <3>1, Telling DEF Told
  <2>2. CASE d \in there
    <3>1. what = "removed" /\ name = d
      BY <1>2, <2>2
    <3>2. QED
      BY <3>1, Telling
  <2>3. QED
    BY <2>1, <2>2
<1>3. ASSUME d \in there', NEW i \in DOMAIN news', news'[i] = <<"removed", d>>
      PROVE  Later(i, "added", d)'
  <2>1. ~(what = "removed" /\ name = d)
    BY <1>3
  <2>2. i \in DOMAIN news /\ news[i] = <<"removed", d>>
    BY <1>3, <2>1, Telling
  <2>3. CASE d \in there
    <3>1. Later(i, "added", d)
      BY <2>2, <2>3 DEF DeviceTold
    <3>2. QED
      BY <3>1, Telling
  <2>4. CASE d \notin there
    <3>1. what = "added" /\ name = d
      BY <1>3, <2>4
    <3>2. QED
      BY <2>2, <3>1, Telling
  <2>5. QED
    BY <2>3, <2>4
<1>4. ASSUME d \notin there', NEW i \in DOMAIN news', news'[i] = <<"added", d>>
      PROVE  Later(i, "removed", d)'
  <2>1. ~(what = "added" /\ name = d)
    BY <1>4
  <2>2. i \in DOMAIN news /\ news[i] = <<"added", d>>
    BY <1>4, <2>1, Telling
  <2>3. CASE d \notin there
    <3>1. Later(i, "removed", d)
      BY <2>2, <2>3 DEF DeviceTold
    <3>2. QED
      BY <3>1, Telling
  <2>4. CASE d \in there
    <3>1. what = "removed" /\ name = d
      BY <1>4, <2>4
    <3>2. QED
      BY <2>2, <3>1, Telling
  <2>5. QED
    BY <2>3, <2>4
<1>5. QED
  BY <1>1, <1>2, <1>3, <1>4 DEF DeviceTold

LEMMA EdgeQuiet ==
  ASSUME news' = news, NEW n, EdgeTold(n), Mild(edges[n], edges'[n])
  PROVE  EdgeTold(n)'
<1>1. /\ \A w, x : Told(w, x)' <=> Told(w, x)
      /\ \A i, w, x : Later(i, w, x)' <=> Later(i, w, x)
  BY DEF Told, Later
<1>2. QED
  BY <1>1 DEF EdgeTold, Mild

\* Something else is heard of than that this edge has come up.
LEMMA EdgeHeard ==
  ASSUME news \in Seq(Words), NEW what, Hear(what), NEW n,
         ~(what = "added" /\ Named = n), EdgeTold(n), Mild(edges[n], edges'[n])
  PROVE  EdgeTold(n)'
<1>1. Told("added", n)' <=> Told("added", n)
  BY Heard
<1>2. ASSUME NEW i \in DOMAIN news', NEW j \in DOMAIN news',
             news'[i] = <<"added", n>>, news'[j] = <<"added", n>>
      PROVE  i = j
  <2>1. /\ i \in Nat /\ i + 1 \in DOMAIN news /\ news[i + 1] = <<"added", n>>
        /\ j \in Nat /\ j + 1 \in DOMAIN news /\ news[j + 1] = <<"added", n>>
    BY <1>2, Heard
  <2>2. i + 1 = j + 1
    BY <2>1 DEF EdgeTold
  <2>3. QED
    BY <2>1, <2>2
<1>3. ASSUME edges[n].state = "none", NEW i \in DOMAIN news', news'[i] = <<"added", n>>
      PROVE  Later(i, "removed", n)'
  <2>1. i \in Nat /\ i + 1 \in DOMAIN news /\ news[i + 1] = <<"added", n>>
    BY <1>3, Heard
  <2>2. Later(i + 1, "removed", n)
    BY <1>3, <2>1 DEF EdgeTold
  <2>3. QED
    BY <2>1, <2>2, Heard
<1>4. QED
  BY <1>1, <1>2, <1>3 DEF EdgeTold, Mild

\* This edge has come up, and may be asked for again.
LEMMA EdgeHeardUp ==
  ASSUME news \in Seq(Words), NEW n, Hear("added"), Named = n, EdgeTold(n),
         edges'[n].state = edges[n].state, ~edges'[n].asked
  PROVE  /\ EdgeTold(n)' /\ ~Told("added", n)'
         /\ edges[n].state = "none" => Told("removed", n)'
<1>1. 1 \in DOMAIN news /\ news[1] = <<"added", n>>
  BY Heard
<1>2. \A i \in DOMAIN news' : news'[i] # <<"added", n>>
  <2> SUFFICES ASSUME NEW i \in DOMAIN news', news'[i] = <<"added", n>> PROVE FALSE
    OBVIOUS
  <2>1. i \in Nat /\ i + 1 \in DOMAIN news /\ news[i + 1] = <<"added", n>> /\ i \in DOMAIN news'
    BY Heard
  <2>2. i + 1 = 1
    BY <1>1, <2>1 DEF EdgeTold
  <2>3. DOMAIN news' = 1..Len(news') /\ Len(news') \in Nat
    BY Heard
  <2>4. QED
    BY <2>1, <2>2, <2>3
<1>3. ~Told("added", n)'
  BY <1>2 DEF Told, Later
<1>4. edges[n].state # "loading"
  BY <1>1, Heard DEF EdgeTold, Told, Later
<1>5. ASSUME edges[n].state = "none" PROVE Told("removed", n)'
  <2>1. Later(0 + 1, "removed", n)
    BY <1>1, <1>5 DEF EdgeTold
  <2>2. QED
    BY <2>1, Heard DEF Told
<1>6. QED
  BY <1>2, <1>3, <1>4, <1>5 DEF EdgeTold

LEMMA EdgeTelling ==
  ASSUME news \in Seq(Words), NEW what \in {"added", "removed"},
         NEW name \in Devices \cup Names, Tell(what, name), NEW n, EdgeTold(n),
         \/ name # n /\ Mild(edges[n], edges'[n])
         \/ /\ name = n /\ what = "added" /\ edges[n].state = "loading"
            /\ edges'[n].state = "up" /\ edges'[n].asked = edges[n].asked
         \/ /\ name = n /\ what = "removed" /\ edges[n].state = "dying"
            /\ edges'[n].state = "none" /\ edges'[n].asked = edges[n].asked
  PROVE  EdgeTold(n)'
<1>1. CASE ~(what = "added" /\ name = n)
  <2>1. Told("added", n)' <=> Told("added", n)
    BY <1>1, Telling DEF Told
  <2>2. ASSUME NEW i \in DOMAIN news', news'[i] = <<"added", n>>
        PROVE  i \in DOMAIN news /\ news[i] = <<"added", n>>
    BY <1>1, <2>2, Telling
  <2>3. \A i, j \in DOMAIN news' :
          news'[i] = <<"added", n>> /\ news'[j] = <<"added", n>> => i = j
    BY <2>2 DEF EdgeTold
  <2>4. ASSUME edges'[n].state = "none", NEW i \in DOMAIN news', news'[i] = <<"added", n>>
        PROVE  Later(i, "removed", n)'
    <3>1. i \in DOMAIN news /\ news[i] = <<"added", n>>
      BY <2>2, <2>4
    <3>2. CASE name # n
      <4>1. edges[n].state = "none"
        BY <2>4, <3>2 DEF Mild
      <4>2. Later(i, "removed", n)
        BY <3>1, <4>1 DEF EdgeTold
      <4>3. QED
        BY <4>2, Telling
    <3>3. CASE name = n
      <4>1. what = "removed"
        BY <1>1, <3>3
      <4>2. QED
        BY <3>1, <3>3, <4>1, Telling
    <3>4. QED
      BY <3>2, <3>3
  <2>5. CASE name # n
    BY <2>1, <2>3, <2>4, <2>5 DEF EdgeTold, Mild
  <2>6. CASE name = n
    BY <1>1, <2>1, <2>3, <2>4, <2>6 DEF EdgeTold
  <2>7. QED
    BY <2>5, <2>6
<1>2. CASE what = "added" /\ name = n
  <2>1. /\ edges[n].state = "loading" /\ edges[n].asked /\ ~Told("added", n)
        /\ edges'[n].state = "up" /\ edges'[n].asked
    BY <1>2 DEF EdgeTold
  <2>2. \A i \in DOMAIN news : news[i] # <<"added", n>>
    <3>1. \A i \in DOMAIN news : i > 0
      BY Telling
    <3>2. QED
      BY <2>1, <3>1 DEF Told, Later
  <2>3. \A i, j \in DOMAIN news' :
          news'[i] = <<"added", n>> /\ news'[j] = <<"added", n>> => i = j
    BY <2>2, Telling
  <2>4. Told("added", n)'
    BY <1>2, Telling
  <2>5. QED
    BY <2>1, <2>3, <2>4 DEF EdgeTold
<1>3. QED
  BY <1>1, <1>2

-----------------------------------------------------------------------------
(* The parts of the invariant                                              *)

LEMMA ShapeTyped == Shape => TypeOK
<1> SUFFICES ASSUME Shape PROVE TypeOK
  OBVIOUS
<1>1. outputs \in Seq([ref : OutRefs, muted : BOOLEAN]) /\ Len(outputs) <= MaxOuts
  BY DEF Shape, OutputsOK, Output
<1>2. /\ inputs \in Seq([slug : 0..(MaxWires - 1), ref : InRefs, muted : BOOLEAN])
      /\ \A k, m \in DOMAIN inputs : inputs[k].slug = inputs[m].slug => k = m
  BY DEF Shape, InputsOK, Socket
<1>3. /\ edges \in [Names -> EdgeType]
      /\ \A n \in Names : edges[n].state = "loading" => edges[n].asked
      /\ \A n \in InNames : edges[n].aim = None
  BY NamesAre DEF Shape, EdgesOK, EdgeOK
<1>4. QED
  BY <1>1, <1>2, <1>3 DEF Shape, TypeOK

LEMMA AimApplied ==
  ASSUME \A d \in Devices : DeviceTold(d)', there' = there, seen' \in SUBSET Devices,
         AimOK(edges', Target', seen')
  PROVE  Follows'
<1>1. CASE edges'[Out(0)].aim \in {None, Target'}
  BY <1>1 DEF Follows
<1>2. CASE Target' \in seen' \ there
  <2>1. Target' \in Devices
    BY <1>2
  <2>2. Told("removed", Target)'
    BY <1>2, <2>1 DEF DeviceTold
  <2>3. QED
    BY <2>1, <2>2 DEF Follows
<1>3. QED
  BY <1>1, <1>2 DEF AimOK

LEMMA AimKept ==
  ASSUME Follows, Target' = Target, edges'[Out(0)].aim \in {edges[Out(0)].aim, None},
         Target \in Devices /\ Told("removed", Target) => Told("removed", Target)'
  PROVE  Follows'
<1>1. CASE Target \in Devices /\ Told("removed", Target)
  <2>1. Target' \in Devices /\ Told("removed", Target)'
    BY <1>1
  <2>2. QED
    BY <2>1 DEF Follows
<1>2. CASE ~(Target \in Devices /\ Told("removed", Target))
  BY <1>2 DEF Follows
<1>3. QED
  BY <1>1, <1>2

\* The wires of an edge.
OwnOf(n, ins) == {w \in Range(ins) : In(w.slug) = n}

LEMMA ServesStays ==
  ASSUME NEW n, Serves(n), OwnOf(n, inputs') = OwnOf(n, inputs), n \in raced => n \in raced',
         edges'[n] = edges[n], seen' \subseteq seen, again => again',
         Told("added", n) => Told("added", n)',
         Told("removed", n) => again' \/ Told("removed", n)'
  PROVE  Serves(n)'
BY DEF Serves, OwnOf

\* An edge that is asked for again and again until it comes.
LEMMA NoneIsHeardOf ==
  ASSUME NEW n, EdgeTold(n), edges[n].state = "none", edges[n].asked,
         news \in Seq(Words)
  PROVE  Told("removed", n)
<1>1. PICK i \in DOMAIN news : i > 0 /\ news[i] = <<"added", n>>
  BY DEF EdgeTold, Told, Later
<1>2. PICK j \in DOMAIN news : j > i /\ news[j] = <<"removed", n>>
  BY <1>1 DEF EdgeTold, Later
<1>3. i \in Nat /\ j \in Nat
  OBVIOUS
<1>4. QED
  BY <1>1, <1>2, <1>3 DEF Told, Later

LEMMA ServesAsked ==
  ASSUME NEW n \in Names, EdgeOK(n, edges[n]), InputsOK(inputs), news \in Seq(Words),
         Serves(n), EdgeTold(n), inputs' = inputs, raced' = raced,
         Asked(n, edges[n], edges'[n], Range(inputs), seen'),
         Told("added", n) => Told("added", n)',
         Told("removed", n) => Told("removed", n)'
  PROVE  Serves(n)'
<1> DEFINE own == {w \in Range(inputs) : In(w.slug) = n}
<1>1. \A w \in own : w.ref \in OutRefs \cup InRefs \cup {Parked}
  BY WiresAre
<1>2. CASE edges'[n] = edges[n] /\ \A w \in own : w.ref.node \notin seen'
  BY <1>2 DEF Serves
<1>3. ASSUME NEW w \in own, edges'[n] = Requested(edges[n], w.ref) PROVE Serves(n)'
  <2>1. CASE edges'[n] = edges[n] /\ (InGraph(edges[n]) \/ edges[n].asked)
    <3>1. edges[n].state = "none" => Told("removed", n)'
      BY <2>1, NoneIsHeardOf DEF InGraph
    <3>2. QED
      BY <2>1, <3>1 DEF Serves
  <2>2. CASE edges'[n] = [state |-> "loading", ref |-> w.ref, aim |-> None,
                          muted |-> FALSE, asked |-> TRUE]
    <3>1. edges'[n].state = "loading" /\ edges'[n].ref = w.ref /\ ~edges'[n].muted
      BY <2>2
    <3>2. QED
      BY <3>1 DEF Serves
  <2>3. PICK ref \in OutRefs \cup InRefs \cup {Parked} : ref = w.ref
    BY <1>1
  <2>4. edges'[n] = Requested(edges[n], ref)
    BY <1>3, <2>3
  <2>5. \/ edges'[n] = edges[n] /\ (InGraph(edges[n]) \/ edges[n].asked)
        \/ edges'[n] = [state |-> "loading", ref |-> ref, aim |-> None, muted |-> FALSE,
                        asked |-> TRUE]
    BY <2>4, RequestedIs
  <2>6. QED
    BY <2>1, <2>2, <2>3, <2>5
<1>4. QED
  BY <1>2, <1>3 DEF Asked

LEMMA ServesNothing ==
  ASSUME NEW n, OwnOf(n, inputs') = {}, edges'[n].state \in {"loading", "up"} => n \in raced'
  PROVE  Serves(n)'
BY DEF Serves, OwnOf

LEMMA ServesWire ==
  ASSUME NEW n, NEW w, OwnOf(n, inputs') = {w},
         edges'[n].state = "up" => n \in raced',
         edges'[n].state = "loading" => n \in raced' \/ (edges'[n].ref = w.ref /\ ~edges'[n].muted),
         edges'[n].state = "none" /\ w.ref.node \in seen' => again' \/ Told("removed", n)'
  PROVE  Serves(n)'
BY DEF Serves, OwnOf

LEMMA ServesUp ==
  ASSUME NEW n, NEW w, OwnOf(n, inputs') = {w}, edges'[n].state = "up",
         n \notin raced' => edges'[n].ref = w.ref, edges'[n].muted <=> w.muted
  PROVE  Serves(n)'
BY DEF Serves, OwnOf

\* An edge that is asked for as soon as its device is known.
Fetched(e, f, ref) == f = IF ref.node \in seen THEN Requested(e, ref) ELSE e

LEMMA FetchedIs ==
  ASSUME NEW n \in Names, EdgeOK(n, edges[n]), news \in Seq(Words), EdgeTold(n),
         NEW ref \in InRefs, NEW f, Fetched(edges[n], f, ref)
  PROVE  /\ f.state = "up" => edges[n].state = "up"
         /\ f.state = "loading" => edges[n].state = "loading" \/ (f.ref = ref /\ ~f.muted)
         /\ f.state = "none" /\ ref.node \in seen => Told("removed", n)
<1>1. CASE f = edges[n] /\ (InGraph(edges[n]) \/ edges[n].asked)
  BY <1>1, NoneIsHeardOf DEF InGraph
<1>2. CASE f = edges[n] /\ ref.node \notin seen
  BY <1>2
<1>3. CASE f = [state |-> "loading", ref |-> ref, aim |-> None, muted |-> FALSE,
                asked |-> TRUE]
  BY <1>3
<1>4. QED
  BY <1>1, <1>2, <1>3, RequestedIs DEF Fetched


\* A wire of an edge that had none.
LEMMA ServesFresh ==
  ASSUME NEW z \in Names, EdgeOK(z, edges[z]), news \in Seq(Words), EdgeTold(z), Serves(z),
         NEW w, w.ref \in InRefs, OwnOf(z, inputs) = {}, OwnOf(z, inputs') = {w},
         Fetched(edges[z], edges'[z], w.ref), seen' = seen, raced \subseteq raced',
         edges[z].state = "loading" => z \in raced',
         Told("removed", z) => Told("removed", z)'
  PROVE  Serves(z)'
<1>1. PICK ref : ref = w.ref
  OBVIOUS
<1>2. /\ edges'[z].state = "up" => edges[z].state = "up"
      /\ edges'[z].state = "loading" =>
           edges[z].state = "loading" \/ (edges'[z].ref = ref /\ ~edges'[z].muted)
      /\ edges'[z].state = "none" /\ ref.node \in seen => Told("removed", z)
  BY <1>1, FetchedIs
<1>3. edges[z].state = "up" => z \in raced
  BY DEF Serves, OwnOf
<1>4. /\ edges'[z].state = "up" => z \in raced'
      /\ edges'[z].state = "loading" =>
           z \in raced' \/ (edges'[z].ref = w.ref /\ ~edges'[z].muted)
      /\ edges'[z].state = "none" /\ w.ref.node \in seen' => again' \/ Told("removed", z)'
  BY <1>1, <1>2, <1>3
<1>5. QED
  BY <1>4, ServesWire

-----------------------------------------------------------------------------
(* The inputs as a list and as a set                                       *)

LEMMA DropIs ==
  ASSUME NEW ins, InputsOK(ins), NEW m
  PROVE  /\ InputsOK(Drop(ins, m))
         /\ Range(Drop(ins, m)) = {w \in Range(ins) : w.slug # m}
         /\ \E e : Embeds(e, Drop(ins, m), ins, {k \in DOMAIN ins : ins[k].slug # m})
<1> DEFINE some == {k \in DOMAIN ins : ins[k].slug # m}
           t == Drop(ins, m)
<1>1. t = Kept(ins, some) /\ ins \in Seq(Socket) /\ some \in SUBSET DOMAIN ins
  BY DEF Drop, InputsOK
<1> HIDE DEF t, some
<1>2. t \in Seq(Socket) /\ \E e : Embeds(e, t, ins, some)
  BY <1>1, KeptIs
<1> USE DEF some
<1>3. PICK e : Embeds(e, t, ins, some)
  BY <1>2
<1>4. \A k, q \in DOMAIN t : t[k].slug = t[q].slug => k = q
  BY <1>3 DEF Embeds, InputsOK
<1>5. Range(t) = {w \in Range(ins) : w.slug # m}
  <2>1. ASSUME NEW i \in DOMAIN t PROVE t[i] \in Range(ins) /\ t[i].slug # m
    BY <1>3 DEF Embeds, Range
  <2>2. ASSUME NEW k \in DOMAIN ins, ins[k].slug # m PROVE \E i \in DOMAIN t : t[i] = ins[k]
    <3>1. PICK i \in DOMAIN t : e[i] = k
      BY <1>3, <2>2 DEF Embeds
    <3>2. QED
      BY <1>3, <3>1 DEF Embeds
  <2>3. QED
    BY <2>1, <2>2 DEF Range
<1>6. QED
  BY <1>2, <1>3, <1>4, <1>5 DEF InputsOK, t

LEMMA HasIs ==
  ASSUME NEW ins, NEW m
  PROVE  Has(ins, m) <=> \E w \in Range(ins) : w.slug = m
BY DEF Has, Range

LEMMA AppendIs ==
  ASSUME NEW ins, InputsOK(ins), NEW w \in Socket, ~Has(ins, w.slug)
  PROVE  InputsOK(Append(ins, w)) /\ Range(Append(ins, w)) = Range(ins) \cup {w}
<1> DEFINE t == Append(ins, w)
           l == Len(ins)
<1>1. l \in Nat /\ DOMAIN ins = 1..l /\ ins \in Seq(Socket)
  BY DEF InputsOK
<1>2. /\ t \in Seq(Socket) /\ DOMAIN t = 1..(l + 1) /\ t[l + 1] = w
      /\ \A i \in 1..l : t[i] = ins[i]
  BY <1>1
<1> HIDE DEF t, l
<1>3. \A i \in 1..(l + 1) : i \in 1..l \/ i = l + 1
  BY <1>1
<1>4. l + 1 \in 1..(l + 1) /\ \A i \in 1..l : i \in 1..(l + 1)
  BY <1>1
<1>5. ASSUME NEW k \in 1..(l + 1), NEW q \in 1..(l + 1), t[k].slug = t[q].slug PROVE k = q
  <2>1. CASE k \in 1..l /\ q \in 1..l
    BY <1>1, <1>2, <1>5, <2>1 DEF InputsOK
  <2>2. CASE k = l + 1 /\ q \in 1..l
    BY <1>1, <1>2, <1>5, <2>2 DEF Has
  <2>3. CASE k \in 1..l /\ q = l + 1
    BY <1>1, <1>2, <1>5, <2>3 DEF Has
  <2>4. QED
    BY <1>3, <2>1, <2>2, <2>3
<1>6. Range(t) = Range(ins) \cup {w}
  BY <1>1, <1>2, <1>3, <1>4 DEF Range
<1>7. QED
  BY <1>2, <1>5, <1>6 DEF InputsOK, t

\* The primary is set anew.
Rewired(ins, v) == [k \in DOMAIN ins |-> IF ins[k].slug = v.slug THEN v ELSE ins[k]]

LEMMA RewiredIs ==
  ASSUME NEW ins, InputsOK(ins), NEW v \in Socket, Has(ins, v.slug)
  PROVE  /\ InputsOK(Rewired(ins, v))
         /\ Range(Rewired(ins, v)) = {w \in Range(ins) : w.slug # v.slug} \cup {v}
<1> DEFINE t == Rewired(ins, v)
<1>1. Len(ins) \in Nat /\ DOMAIN ins = 1..Len(ins) /\ ins \in Seq(Socket)
  BY DEF InputsOK
<1>2. \A k \in DOMAIN ins : ins[k] \in Socket
  BY <1>1
<1>3. /\ DOMAIN t = 1..Len(ins)
      /\ \A k \in DOMAIN ins : t[k] = IF ins[k].slug = v.slug THEN v ELSE ins[k]
  BY <1>1 DEF Rewired
<1>4. t \in [1..Len(ins) -> Socket]
  BY <1>1, <1>2 DEF Rewired
<1> HIDE DEF t
<1>5. t \in Seq(Socket)
  BY <1>1, <1>4
<1>6. \A k \in DOMAIN ins : t[k].slug = ins[k].slug
  BY <1>3
<1>7. \A k, q \in DOMAIN t : t[k].slug = t[q].slug => k = q
  BY <1>1, <1>3, <1>6 DEF InputsOK
<1>8. Range(t) = {w \in Range(ins) : w.slug # v.slug} \cup {v}
  <2>1. PICK k \in DOMAIN ins : ins[k].slug = v.slug
    BY DEF Has
  <2>2. v \in Range(t)
    BY <1>1, <1>3, <2>1 DEF Range
  <2>3. QED
    BY <1>1, <1>3, <2>2 DEF Range
<1>9. QED
  BY <1>5, <1>7, <1>8 DEF InputsOK, t

LEMMA InputTyped ==
  ASSUME NEW m \in 0..(MaxWires - 1), NEW ref \in InRefs
  PROVE  /\ Input(m, ref) \in Socket /\ Input(m, ref).slug = m
         /\ Input(m, ref).ref = ref /\ ~Input(m, ref).muted
BY DEF Input, Socket

LEMMA ZeroIsASlug == 0 \in 0..(MaxWires - 1)
BY DevicesAssumption

\* setChannelInputDevice() on some inputs: they are as they were, or the primary
\* is the new one and its edge is asked for or on its way out.
LEMMA PrimaryIs ==
  ASSUME NEW ins, InputsOK(ins), NEW es, EdgesOK(es), NEW ref \in InRefs,
         Primary(es, ins, ref)
  PROVE  /\ InputsOK(inputs') /\ EdgesOK(edges') /\ MildAll(es, edges')
         /\ \A n \in Names : n # In(0) => edges'[n] = es[n]
         /\ \/ inputs' = ins /\ edges' = es
            \/ /\ Range(inputs') = {w \in Range(ins) : w.slug # 0} \cup {Input(0, ref)}
               /\ \/ Has(ins, 0) /\ InGraph(es[In(0)]) /\ InGraph(edges'[In(0)])
                                 /\ edges'[In(0)].state # "up"
                  \/ /\ ~InGraph(es[In(0)]) \/ ~Has(ins, 0)
                     /\ Fetched(es[In(0)], edges'[In(0)], ref)
<1> DEFINE v == Input(0, ref)
           z == In(0)
<1>1. v \in Socket /\ v.slug = 0 /\ v.ref = ref /\ v.slug \in 0..(MaxWires - 1)
  BY ZeroIsASlug, InputTyped
<1>2. z \in Names
  BY ZeroIsASlug, NamesAre
<1> DEFINE fs == EnsureInput(es, v, seen)
<1>3. /\ EdgesOK(fs) /\ MildAll(es, fs) /\ Fetched(es[z], fs[z], ref)
      /\ \A n \in Names : n # z => fs[n] = es[n]
  BY <1>1, EnsureInputIs DEF Fetched
<1> HIDE DEF fs, v, z
<1>4. CASE inputs' = ins /\ edges' = es
  BY <1>4 DEF MildAll, Mild
<1>5. CASE /\ Has(ins, 0) /\ edges' = Rebuilt(es, ins, ref)
           /\ inputs' = [k \in DOMAIN ins |-> IF ins[k].slug = 0 THEN v ELSE ins[k]]
  <2>1. inputs' = Rewired(ins, v)
    BY <1>1, <1>5 DEF Rewired
  <2>2. InputsOK(inputs') /\ Range(inputs') = {w \in Range(ins) : w.slug # 0} \cup {v}
    BY <1>1, <1>5, <2>1, RewiredIs
  <2>3. CASE InGraph(es[z])
    <3>1. edges' = Destroyed(es, {z})
      BY <1>5, <2>3 DEF Rebuilt, z
    <3>2. /\ EdgesOK(edges') /\ MildAll(es, edges') /\ edges'[z].state # "up"
          /\ InGraph(edges'[z]) /\ \A n \in Names : n # z => edges'[n] = es[n]
      BY <1>2, <2>3, <3>1, DestroyedIs
    <3>3. QED
      BY <1>5, <2>2, <2>3, <3>2 DEF v, z
  <2>4. CASE ~InGraph(es[z])
    <3>1. edges' = fs
      BY <1>5, <2>4 DEF Rebuilt, z, fs, v
    <3>2. QED
      BY <1>3, <2>2, <2>4, <3>1 DEF v, z
  <2>5. QED
    BY <2>3, <2>4
<1>6. CASE ~Has(ins, 0) /\ inputs' = Append(ins, v) /\ edges' = fs
  <2>1. InputsOK(inputs') /\ Range(inputs') = Range(ins) \cup {v}
    BY <1>1, <1>6, AppendIs
  <2>2. Range(ins) = {w \in Range(ins) : w.slug # 0}
    BY <1>6, HasIs
  <2>3. QED
    BY <1>3, <1>6, <2>1, <2>2 DEF v, z
<1>7. QED
  BY <1>4, <1>5, <1>6 DEF Primary, v, fs

-----------------------------------------------------------------------------
(* The commands                                                            *)

LEMMA Unheard ==
  ASSUME IInv, news' = news
  PROVE  /\ \A w, x : Told(w, x)' <=> Told(w, x)
         /\ news' \in Seq(Words)
         /\ there' = there /\ seen' = seen => \A d \in Devices : DeviceTold(d)'
         /\ MildAll(edges, edges') => \A n \in Names : EdgeTold(n)'
<1>1. \A w, x : Told(w, x)' <=> Told(w, x)
  BY DEF Told, Later
<1>2. ASSUME there' = there, seen' = seen, NEW d \in Devices PROVE DeviceTold(d)'
  BY <1>2 DEF IInv, DeviceTold, Told, Later
<1>3. ASSUME MildAll(edges, edges'), NEW n \in Names PROVE EdgeTold(n)'
  BY <1>3, EdgeQuiet DEF IInv, MildAll
<1>4. QED
  BY <1>1, <1>2, <1>3 DEF IInv, Shape

LEMMA OutputCommand ==
  ASSUME IInv, UNCHANGED <<there, seen, inputs, news, raced>>, again' \in BOOLEAN,
         OutputsOK(outputs'), fallback' \in Devices \cup {None}, events' \in 0..MaxEvents,
         EdgesOK(edges'), MildAll(edges, edges'), Follows',
         \A n \in InNames : \/ edges'[n] = edges[n] /\ again' = again
                            \/ Asked(n, edges[n], edges'[n], Range(inputs), seen)
  PROVE  IInv'
<1>1. ASSUME NEW n \in InNames PROVE Serves(n)'
  <2>1. n \in Names /\ EdgeOK(n, edges[n]) /\ Serves(n) /\ EdgeTold(n)
    BY NamesAre DEF IInv, Shape, EdgesOK
  <2>2. CASE edges'[n] = edges[n] /\ again' = again
    <3>1. OwnOf(n, inputs') = OwnOf(n, inputs)
      OBVIOUS
    <3>2. QED
      BY <2>1, <2>2, <3>1, Unheard, ServesStays
  <2>3. CASE Asked(n, edges[n], edges'[n], Range(inputs), seen)
    <3>1. Asked(n, edges[n], edges'[n], Range(inputs), seen')
      BY <2>3
    <3>2. QED
      BY <2>1, <3>1, Unheard, ServesAsked DEF IInv, Shape
  <2>4. QED
    BY <2>2, <2>3
<1>2. Shape'
  BY Unheard DEF IInv, Shape
<1>3. QED
  BY <1>1, <1>2, Unheard DEF IInv

LEMMA InputCommand ==
  ASSUME IInv, UNCHANGED <<there, seen, outputs, fallback, news, again>>,
         InputsOK(inputs'), raced' \subseteq InNames, events' \in 0..MaxEvents,
         EdgesOK(edges'), MildAll(edges, edges'), edges'[Out(0)] = edges[Out(0)],
         \A n \in InNames :
           \/ Serves(n)'
           \/ /\ OwnOf(n, inputs') = OwnOf(n, inputs) /\ edges'[n] = edges[n]
              /\ n \in raced => n \in raced'
  PROVE  IInv'
<1>1. ASSUME NEW n \in InNames PROVE Serves(n)'
  <2>1. CASE OwnOf(n, inputs') = OwnOf(n, inputs) /\ edges'[n] = edges[n]
             /\ (n \in raced => n \in raced')
    BY <2>1, Unheard, ServesStays DEF IInv
  <2>2. QED
    BY <2>1
<1>2. Shape'
  BY Unheard DEF IInv, Shape
<1>3. Follows'
  <2>1. Target' = Target
    BY DEF Target
  <2>2. QED
    BY <2>1, Unheard, AimKept DEF IInv
<1>4. QED
  BY <1>1, <1>2, <1>3, Unheard DEF IInv

LEMMA EventIs ==
  ASSUME Shape, Event
  PROVE  events' \in 0..MaxEvents
BY DevicesAssumption DEF Shape, Event

LEMMA SetMixOutputsIs ==
  ASSUME Shape, NEW outs, OutputsOK(outs)
  PROVE  /\ EdgesOK(SetMixOutputs(edges, outs)) /\ MildAll(edges, SetMixOutputs(edges, outs))
         /\ AimOK(SetMixOutputs(edges, outs), Pick(outs, fallback, seen), seen)
         /\ \A n \in InNames :
              Asked(n, edges[n], SetMixOutputs(edges, outs)[n], Range(inputs), seen)
<1> DEFINE changed == {Out(n - 1) : n \in {k \in 1..MaxOuts : Ports(outputs, k) # Ports(outs, k)}}
           es == Destroyed(edges, changed)
           fs == EnsureEdges(es, outs, inputs, seen)
           gs == ApplyFallbacks(fs, outs, fallback, seen)
<1>1. SetMixOutputs(edges, outs) = gs
  BY DEF SetMixOutputs
<1>2. /\ EdgesOK(edges) /\ InputsOK(inputs) /\ seen \in SUBSET Devices
      /\ fallback \in Devices \cup {None}
  BY DEF Shape
<1>3. \A n \in InNames : n \notin changed /\ n \in Names /\ n # Out(0)
  BY NamesAre DEF InNames
<1> HIDE DEF changed
<1>4. EdgesOK(es) /\ MildAll(edges, es) /\ \A n \in Names : n \notin changed => es[n] = edges[n]
  BY <1>2, DestroyedIs
<1> HIDE DEF es
<1>5. /\ EdgesOK(fs) /\ MildAll(es, fs)
      /\ \A n \in InNames : Asked(n, es[n], fs[n], Range(inputs), seen)
  BY <1>2, <1>4, EnsureEdgesIs
<1> HIDE DEF fs
<1>6. /\ EdgesOK(gs) /\ MildAll(fs, gs) /\ AimOK(gs, Pick(outs, fallback, seen), seen)
      /\ \A n \in Names : n # Out(0) => gs[n] = fs[n]
  BY <1>2, <1>5, ApplyIs
<1> HIDE DEF gs
<1>7. MildAll(edges, gs)
  BY <1>4, <1>5, <1>6, MildIsTransitive
<1>8. \A n \in InNames : es[n] = edges[n] /\ gs[n] = fs[n]
  BY <1>3, <1>4, <1>6
<1>9. QED
  BY <1>1, <1>5, <1>6, <1>7, <1>8

LEMMA OutputsKeeps ==
  ASSUME IInv, NEW outs, OutputsOK(outs), Outputs(outs), events' \in 0..MaxEvents
  PROVE  IInv'
<1>1. /\ UNCHANGED <<there, seen, fallback, inputs, news, again, raced>>
      /\ outputs' = outs /\ edges' = SetMixOutputs(edges, outs) /\ Shape
  BY DEF Outputs, IInv
<1>2. /\ EdgesOK(edges') /\ MildAll(edges, edges')
      /\ AimOK(edges', Pick(outs, fallback, seen), seen)
      /\ \A n \in InNames : Asked(n, edges[n], edges'[n], Range(inputs), seen)
  BY <1>1, SetMixOutputsIs
<1>3. Target' = Pick(outs, fallback, seen)
  BY <1>1 DEF Target
<1>4. \A d \in Devices : DeviceTold(d)'
  BY <1>1, Unheard
<1>5. seen' \in SUBSET Devices /\ AimOK(edges', Target', seen')
  BY <1>1, <1>2, <1>3 DEF Shape
<1>6. Follows'
  BY <1>1, <1>4, <1>5, AimApplied
<1>7. QED
  BY <1>1, <1>2, <1>6, OutputCommand DEF Shape

LEMMA OutputTyped ==
  ASSUME NEW ref \in OutRefs
  PROVE  Wire(ref) \in Output
BY DEF Wire, Output

LEMMA SetOutputDeviceKeeps ==
  ASSUME IInv, NEW ref \in OutRefs, SetOutputDevice(ref)
  PROVE  IInv'
<1> DEFINE old == IF outputs = <<>> THEN <<ref>> ELSE outputs
           outs == <<Wire(ref)>> \o Tail(old)
<1>1. outputs \in Seq(Output) /\ Len(outputs) <= MaxOuts /\ Wire(ref) \in Output
      /\ MaxOuts \in Nat \ {0}
  BY OutputTyped, DevicesAssumption DEF IInv, Shape, OutputsOK
<1>2. OutputsOK(outs)
  <2>1. CASE outputs = <<>>
    <3>1. outs = <<Wire(ref)>> \o <<>>
      BY <2>1
    <3>2. outs \in Seq(Output) /\ Len(outs) = 1
      BY <1>1, <3>1
    <3>3. QED
      BY <1>1, <3>2 DEF OutputsOK
  <2>2. CASE outputs # <<>>
    <3>1. outs = <<Wire(ref)>> \o Tail(outputs)
      BY <2>2
    <3>2. Tail(outputs) \in Seq(Output) /\ Len(Tail(outputs)) = Len(outputs) - 1
      BY <1>1, <2>2
    <3>3. outs \in Seq(Output) /\ Len(outs) = Len(outputs)
      BY <1>1, <3>1, <3>2
    <3>4. QED
      BY <1>1, <3>3 DEF OutputsOK
  <2>3. QED
    BY <2>1, <2>2
<1>3. Outputs(outs) /\ events' \in 0..MaxEvents
  BY EventIs DEF SetOutputDevice, IInv
<1> HIDE DEF outs
<1>4. QED
  BY <1>2, <1>3, OutputsKeeps

LEMMA OtherOutputsKeep ==
  ASSUME IInv,
         \/ ClearOutputs
         \/ \E ref \in OutRefs : AddOutput(ref) \/ RemoveOutput(ref)
  PROVE  IInv'
<1>1. outputs \in Seq(Output) /\ Len(outputs) <= MaxOuts /\ MaxOuts \in Nat
  BY DevicesAssumption DEF IInv, Shape, OutputsOK
<1>2. ASSUME NEW outs, OutputsOK(outs), Event, Outputs(outs) PROVE IInv'
  BY <1>2, EventIs, OutputsKeeps DEF IInv
<1>3. CASE ClearOutputs
  <2>1. OutputsOK(<<>>)
    BY <1>1 DEF OutputsOK
  <2>2. QED
    BY <1>2, <1>3, <2>1 DEF ClearOutputs
<1>4. ASSUME NEW ref \in OutRefs, AddOutput(ref) PROVE IInv'
  <2>1. OutputsOK(Append(outputs, Wire(ref)))
    BY <1>1, <1>4, OutputTyped DEF AddOutput, OutputsOK
  <2>2. QED
    BY <1>2, <1>4, <2>1 DEF AddOutput
<1>5. ASSUME NEW ref \in OutRefs, RemoveOutput(ref) PROVE IInv'
  <2> DEFINE some == {n \in DOMAIN outputs : ~SameWire(outputs[n].ref, ref)}
             left == Kept(outputs, some)
  <2>1. some \in SUBSET DOMAIN outputs
    OBVIOUS
  <2>2. left \in Seq(Output) /\ Len(left) <= Len(outputs)
    BY <1>1, <2>1, KeptIs
  <2>3. Event /\ Outputs(left)
    BY <1>5 DEF RemoveOutput
  <2> HIDE DEF left
  <2>4. OutputsOK(left)
    BY <1>1, <2>2 DEF OutputsOK
  <2>5. QED
    BY <1>2, <2>3, <2>4
<1>6. QED
  BY <1>3, <1>4, <1>5

LEMMA SetFallbackKeeps ==
  ASSUME IInv, NEW d \in Nodes(OutRefs) \cup {None}, SetFallback(d)
  PROVE  IInv'
<1>1. /\ UNCHANGED <<there, seen, outputs, inputs, news, again, raced>> /\ fallback' = d
      /\ edges' = ApplyFallbacks(edges, outputs, d, seen) /\ Shape /\ events' \in 0..MaxEvents
  BY EventIs DEF SetFallback, IInv
<1>2. d \in Devices \cup {None}
  BY DEF Devices
<1>3. EdgesOK(edges) /\ OutputsOK(outputs) /\ seen \in SUBSET Devices
  BY <1>1 DEF Shape
<1>4. /\ EdgesOK(edges') /\ MildAll(edges, edges')
      /\ AimOK(edges', Pick(outputs, d, seen), seen)
      /\ \A n \in Names : n # Out(0) => edges'[n] = edges[n]
  BY <1>1, <1>2, <1>3, ApplyIs
<1>5. Target' = Pick(outputs, d, seen)
  BY <1>1 DEF Target
<1>6. \A q \in Devices : DeviceTold(q)'
  BY <1>1, Unheard
<1>7. seen' \in SUBSET Devices /\ AimOK(edges', Target', seen')
  BY <1>1, <1>4, <1>5 DEF Shape
<1>8. Follows'
  BY <1>1, <1>6, <1>7, AimApplied
<1>9. \A n \in InNames : edges'[n] = edges[n]
  BY <1>4, NamesAre
<1>10. QED
  BY <1>1, <1>2, <1>4, <1>8, <1>9, OutputCommand DEF Shape

LEMMA MuteOutputKeeps ==
  ASSUME IInv, NEW ref \in OutRefs, NEW on \in BOOLEAN, MuteOutput(ref, on)
  PROVE  IInv'
<1> DEFINE hit == {n \in DOMAIN outputs : SameWire(outputs[n].ref, ref)}
           k == Min(hit)
<1>1. outputs \in Seq(Output) /\ Len(outputs) <= MaxOuts /\ MaxOuts \in Nat
  BY DevicesAssumption DEF IInv, Shape, OutputsOK
<1>2. /\ UNCHANGED <<there, seen, fallback, inputs, news, again, raced>>
      /\ outputs' = [outputs EXCEPT ![k].muted = on] /\ hit # {}
      /\ edges' = Muted(edges, Out(k - 1), on) /\ events' \in 0..MaxEvents
  BY EventIs DEF MuteOutput, IInv
<1>3. k \in hit
  <2>1. hit \in SUBSET Nat
    BY <1>1
  <2>2. QED
    BY <1>2, <2>1, Least
<1>4. k \in DOMAIN outputs /\ k \in 1..Len(outputs) /\ k - 1 \in 0..(MaxOuts - 1)
  BY <1>1, <1>3
<1> HIDE DEF k, hit
<1>5. /\ OutputsOK(outputs') /\ DOMAIN outputs' = DOMAIN outputs
      /\ \A n \in DOMAIN outputs : outputs'[n].ref = outputs[n].ref
  <2>1. outputs[k] \in Output
    BY <1>1, <1>4
  <2>2. /\ [outputs[k] EXCEPT !.muted = on] \in Output
        /\ [outputs[k] EXCEPT !.muted = on].ref = outputs[k].ref
    BY <2>1 DEF Output
  <2>3. outputs' = [outputs EXCEPT ![k] = [outputs[k] EXCEPT !.muted = on]]
    BY <1>2
  <2> DEFINE o == [outputs[k] EXCEPT !.muted = on]
  <2> HIDE DEF o
  <2>4. outputs' = [outputs EXCEPT ![k] = o]
    BY <2>3 DEF o
  <2>5. outputs' \in Seq(Output) /\ Len(outputs') = Len(outputs) /\ DOMAIN outputs' = DOMAIN outputs
    BY <1>1, <1>4, <2>2, <2>4 DEF o
  <2>6. \A n \in DOMAIN outputs : outputs'[n] = IF n = k THEN o ELSE outputs[n]
    BY <2>4
  <2>7. \A n \in DOMAIN outputs : outputs'[n].ref = outputs[n].ref
    BY <2>2, <2>6 DEF o
  <2>8. QED
    BY <1>1, <2>5, <2>7 DEF OutputsOK
<1>6. Target' = Target
  <2> DEFINE present == {n \in DOMAIN outputs : outputs[n].ref.node \in seen}
  <2>1. {n \in DOMAIN outputs' : outputs'[n].ref.node \in seen} = present
    BY <1>5
  <2>2. present \in SUBSET Nat
    BY <1>1
  <2>3. present # {} => Min(present) \in DOMAIN outputs
    BY <2>2, Least
  <2> HIDE DEF present
  <2>4. Target = IF present # {} THEN outputs[Min(present)].ref.node
                 ELSE IF fallback \in seen THEN fallback ELSE Null
    BY DEF Target, Pick, present
  <2>5. Target' = IF present # {} THEN outputs'[Min(present)].ref.node
                  ELSE IF fallback \in seen THEN fallback ELSE Null
    <3>1. Target' = Pick(outputs', fallback, seen)
      BY <1>2 DEF Target
    <3>2. QED
      BY <2>1, <3>1 DEF Pick
  <2>6. QED
    BY <1>5, <2>3, <2>4, <2>5
<1>7. /\ EdgesOK(edges') /\ MildAll(edges, edges')
      /\ \A n \in Names : n # Out(k - 1) => edges'[n] = edges[n]
      /\ edges'[Out(k - 1)] = IF edges[Out(k - 1)].state = "up"
           THEN [edges[Out(k - 1)] EXCEPT !.muted = on] ELSE edges[Out(k - 1)]
  BY <1>2, <1>4, NamesAre, MutedIs DEF IInv, Shape
<1>8. edges'[Out(0)].aim = edges[Out(0)].aim
  <2>1. CASE Out(k - 1) = Out(0)
    BY <1>7, <2>1, NamesAre DEF IInv, Shape, EdgesOK, EdgeType
  <2>2. CASE Out(k - 1) # Out(0)
    BY <1>7, <2>2, NamesAre
  <2>3. QED
    BY <2>1, <2>2
<1>9. Follows'
  BY <1>2, <1>6, <1>8, Unheard, AimKept DEF IInv
<1>10. \A n \in InNames : edges'[n] = edges[n]
  BY <1>4, <1>7, NamesAre
<1>11. QED
  BY <1>2, <1>5, <1>7, <1>9, <1>10, OutputCommand DEF IInv, Shape

\* One wire and its edge are taken away.
LEMMA RemoveInputKeeps ==
  ASSUME IInv, NEW m \in 0..(MaxWires - 1), inputs' = Drop(inputs, m),
         edges' = Destroyed(edges, {In(m)}), Rest, events' \in 0..MaxEvents,
         raced \subseteq raced', raced' \subseteq InNames,
         edges[In(m)].state = "loading" => In(m) \in raced'
  PROVE  IInv'
<1>1. Shape /\ InputsOK(inputs) /\ EdgesOK(edges)
  BY DEF IInv, Shape
<1>2. /\ EdgesOK(edges') /\ MildAll(edges, edges')
      /\ \A n \in Names : n # In(m) => edges'[n] = edges[n]
      /\ In(m) \in Names /\ edges'[In(m)].state # "up"
      /\ edges'[In(m)].state = "loading" => edges[In(m)].state = "loading"
  <2>1. In(m) \in Names
    BY NamesAre
  <2>2. EdgesOK(edges') /\ MildAll(edges, edges')
        /\ (\A n \in Names : n # In(m) => edges'[n] = edges[n]) /\ edges'[In(m)].state # "up"
    BY <1>1, <2>1, DestroyedIs
  <2>3. edges'[In(m)].state = "loading" => edges[In(m)].state = "loading"
    BY <2>1 DEF Destroyed
  <2>4. QED
    BY <2>1, <2>2, <2>3
<1>3. InputsOK(inputs') /\ Range(inputs') = {w \in Range(inputs) : w.slug # m}
  BY <1>1, DropIs
<1>4. ASSUME NEW n \in InNames
      PROVE  \/ Serves(n)'
             \/ /\ OwnOf(n, inputs') = OwnOf(n, inputs) /\ edges'[n] = edges[n]
                /\ n \in raced => n \in raced'
  <2>1. CASE n = In(m)
    <3>1. OwnOf(n, inputs') = {}
      BY <1>3, <2>1, NamesAre DEF OwnOf
    <3>2. QED
      BY <1>2, <2>1, <3>1, ServesNothing
  <2>2. CASE n # In(m)
    <3>1. OwnOf(n, inputs') = OwnOf(n, inputs)
      BY <1>3, <2>2 DEF OwnOf
    <3>2. edges'[n] = edges[n]
      BY <1>2, <2>2, NamesAre
    <3>3. QED
      BY <3>1, <3>2
  <2>3. QED
    BY <2>1, <2>2
<1>5. edges'[Out(0)] = edges[Out(0)]
  BY <1>2, NamesAre
<1>6. QED
  BY <1>2, <1>3, <1>4, <1>5, InputCommand DEF Rest

\* A wire becomes the primary, of inputs of which one may just have gone.
LEMMA PrimaryKeeps ==
  ASSUME IInv, Rest, events' \in 0..MaxEvents, raced \subseteq raced', raced' \subseteq InNames,
         NEW left, InputsOK(left), NEW es, EdgesOK(es), MildAll(edges, es),
         es[Out(0)] = edges[Out(0)], es[In(0)] = edges[In(0)],
         OwnOf(In(0), left) = OwnOf(In(0), inputs),
         NEW ref \in InRefs, Primary(es, left, ref),
         edges[In(0)].state = "loading" => In(0) \in raced',
         \A n \in InNames : n # In(0) =>
           \/ OwnOf(n, left) = OwnOf(n, inputs) /\ es[n] = edges[n]
           \/ OwnOf(n, left) = {} /\ (es[n].state \in {"loading", "up"} => n \in raced')
  PROVE  IInv'
<1> DEFINE z == In(0)
<1>1. z \in InNames /\ z \in Names /\ z # Out(0) /\ Out(0) \in Names
  BY ZeroIsASlug, NamesAre
<1>2. /\ EdgeOK(z, edges[z]) /\ Serves(z) /\ EdgeTold(z) /\ news \in Seq(Words) /\ seen' = seen
      /\ \A w, x : Told(w, x)' <=> Told(w, x)
  BY <1>1, Unheard DEF IInv, Shape, EdgesOK, Rest
<1>3. /\ InputsOK(inputs') /\ EdgesOK(edges') /\ MildAll(es, edges')
      /\ \A n \in Names : n # In(0) => edges'[n] = es[n]
      /\ \/ inputs' = left /\ edges' = es
         \/ /\ Range(inputs') = {w \in Range(left) : w.slug # 0} \cup {Input(0, ref)}
            /\ \/ Has(left, 0) /\ InGraph(es[In(0)]) /\ InGraph(edges'[In(0)])
                               /\ edges'[In(0)].state # "up"
               \/ /\ ~InGraph(es[In(0)]) \/ ~Has(left, 0)
                  /\ Fetched(es[In(0)], edges'[In(0)], ref)
  BY PrimaryIs
<1>4. MildAll(edges, edges')
  BY <1>3, MildIsTransitive
<1>5. edges'[Out(0)] = edges[Out(0)]
  BY <1>1, <1>3
<1>6. ASSUME NEW n \in InNames, n # z
      PROVE  \/ Serves(n)'
             \/ /\ OwnOf(n, inputs') = OwnOf(n, inputs) /\ edges'[n] = edges[n]
                /\ n \in raced => n \in raced'
  <2>1. OwnOf(n, inputs') = OwnOf(n, left)
    <3>1. In(Input(0, ref).slug) # n
      BY <1>6, ZeroIsASlug, InputTyped
    <3>2. QED
      BY <1>3, <1>6, <3>1 DEF OwnOf
  <2>2. edges'[n] = es[n]
    BY <1>3, <1>6, NamesAre
  <2>3. CASE OwnOf(n, left) = OwnOf(n, inputs) /\ es[n] = edges[n]
    BY <2>1, <2>2, <2>3
  <2>4. CASE OwnOf(n, left) = {} /\ (es[n].state \in {"loading", "up"} => n \in raced')
    BY <2>1, <2>2, <2>4, ServesNothing
  <2>5. QED
    BY <1>6, <2>3, <2>4
<1>7. \/ Serves(z)'
      \/ /\ OwnOf(z, inputs') = OwnOf(z, inputs) /\ edges'[z] = edges[z]
         /\ z \in raced => z \in raced'
  <2>1. CASE inputs' = left /\ edges' = es
    BY <2>1
  <2>2. CASE /\ Range(inputs') = {w \in Range(left) : w.slug # 0} \cup {Input(0, ref)}
             /\ \/ Has(left, 0) /\ InGraph(es[In(0)]) /\ InGraph(edges'[In(0)])
                                /\ edges'[In(0)].state # "up"
                \/ /\ ~InGraph(es[In(0)]) \/ ~Has(left, 0)
                   /\ Fetched(es[In(0)], edges'[In(0)], ref)
    <3> DEFINE v == Input(0, ref)
    <3>1. v.slug = 0 /\ v.ref = ref
      BY ZeroIsASlug, InputTyped
    <3>2. OwnOf(z, inputs') = {v}
      BY <2>2, <3>1, NamesAre DEF OwnOf
    <3> HIDE DEF v
    <3>3. CASE InGraph(edges'[z]) /\ edges'[z].state # "up"
      <4>1. edges'[z].state \notin {"none", "loading", "up"}
        BY <3>3 DEF InGraph
      <4>2. QED
        BY <3>2, <4>1, ServesWire
    <3>4. CASE (~InGraph(es[z]) \/ ~Has(left, 0)) /\ Fetched(edges[z], edges'[z], ref)
      <4>1. /\ edges'[z].state = "up" => edges[z].state = "up"
            /\ edges'[z].state = "loading" =>
                 edges[z].state = "loading" \/ (edges'[z].ref = ref /\ ~edges'[z].muted)
            /\ edges'[z].state = "none" /\ ref.node \in seen => Told("removed", z)
        BY <1>1, <1>2, <3>4, FetchedIs
      <4>2. edges'[z].state = "up" => z \in raced'
        <5>1. ASSUME edges[z].state = "up" PROVE z \in raced'
          <6>1. ~Has(left, 0)
            BY <3>4, <5>1 DEF InGraph
          <6>2. OwnOf(z, left) = {}
            BY <6>1, HasIs, NamesAre DEF OwnOf
          <6>3. z \in raced
            BY <1>2, <5>1, <6>2 DEF Serves, OwnOf
          <6>4. QED
            BY <6>3
        <5>2. QED
          BY <4>1, <5>1
      <4>3. QED
        BY <1>2, <3>1, <3>2, <4>1, <4>2, ServesWire
    <3>5. QED
      BY <2>2, <3>3, <3>4
  <2>3. QED
    BY <1>3, <2>1, <2>2
<1>8. QED
  BY <1>3, <1>4, <1>5, <1>6, <1>7, InputCommand DEF Rest

LEMMA RacedIs ==
  ASSUME NEW ns \in SUBSET InNames, raced \subseteq InNames, Raced(ns)
  PROVE  /\ raced \subseteq raced' /\ raced' \subseteq InNames
         /\ \A n \in ns : edges[n].state = "loading" => n \in raced'
BY DEF Raced

LEMMA ClearInputDeviceKeeps ==
  ASSUME IInv, ClearInputDevice
  PROVE  IInv'
<1>1. /\ inputs' = Drop(inputs, 0) /\ edges' = Destroyed(edges, {In(0)}) /\ Rest
      /\ Raced({In(0)}) /\ events' \in 0..MaxEvents
  BY EventIs DEF ClearInputDevice, RemoveInput, IInv
<1>2. {In(0)} \in SUBSET InNames
  BY ZeroIsASlug, NamesAre
<1>3. /\ raced \subseteq raced' /\ raced' \subseteq InNames
      /\ edges[In(0)].state = "loading" => In(0) \in raced'
  BY <1>1, <1>2, RacedIs DEF IInv, Shape
<1>4. QED
  BY <1>1, <1>3, ZeroIsASlug, RemoveInputKeeps

LEMMA SetInputDeviceKeeps ==
  ASSUME IInv, NEW ref \in InRefs, SetInputDevice(ref)
  PROVE  IInv'
<1>1. Primary(edges, inputs, ref) /\ Rest /\ Raced({In(0)}) /\ events' \in 0..MaxEvents
  BY EventIs DEF SetInputDevice, IInv
<1>2. {In(0)} \in SUBSET InNames
  BY ZeroIsASlug, NamesAre
<1>3. /\ raced \subseteq raced' /\ raced' \subseteq InNames
      /\ edges[In(0)].state = "loading" => In(0) \in raced'
  BY <1>1, <1>2, RacedIs DEF IInv, Shape
<1>4. InputsOK(inputs) /\ EdgesOK(edges) /\ MildAll(edges, edges)
  BY DEF IInv, Shape, MildAll, Mild
<1>5. QED
  BY <1>1, <1>3, <1>4, PrimaryKeeps

\* A further wire, on a slug that was free.
LEMMA FurtherInputKeeps ==
  ASSUME IInv, NEW ref \in InRefs, NEW m \in 0..(MaxWires - 1), ~Has(inputs, m),
         inputs' = Append(inputs, Input(m, ref)),
         edges' = EnsureInput(edges, Input(m, ref), seen),
         raced \subseteq raced', raced' \subseteq InNames,
         edges[In(m)].state = "loading" => In(m) \in raced',
         Rest, events' \in 0..MaxEvents
  PROVE  IInv'
<1> DEFINE w == Input(m, ref)
           z == In(m)
<1>1. inputs' = Append(inputs, w) /\ edges' = EnsureInput(edges, w, seen)
  OBVIOUS
<1>2. m \in 0..(MaxWires - 1) /\ ~Has(inputs, m)
  OBVIOUS
<1>3. w \in Socket /\ w.slug = m /\ w.ref = ref
  BY <1>2, InputTyped
<1>4. z \in InNames /\ z \in Names /\ z # Out(0)
  BY <1>2, NamesAre
<1>5. /\ raced \subseteq raced' /\ raced' \subseteq InNames
      /\ edges[z].state = "loading" => z \in raced'
  OBVIOUS
<1> HIDE DEF w, z
<1>6. InputsOK(inputs') /\ Range(inputs') = Range(inputs) \cup {w}
  BY <1>1, <1>2, <1>3, AppendIs DEF IInv, Shape
<1>7. /\ EdgesOK(edges') /\ MildAll(edges, edges')
      /\ \A n \in Names : n # z => edges'[n] = edges[n]
      /\ Fetched(edges[z], edges'[z], ref)
  BY <1>1, <1>2, <1>3, EnsureInputIs DEF IInv, Shape, z, Fetched
<1>8. Serves(z)'
  <2>1. /\ EdgeOK(z, edges[z]) /\ Serves(z) /\ EdgeTold(z) /\ news \in Seq(Words) /\ seen' = seen
        /\ \A x, y : Told(x, y)' <=> Told(x, y)
    BY <1>4, Unheard DEF IInv, Shape, EdgesOK, Rest
  <2>2. OwnOf(z, inputs) = {}
    BY <1>2, HasIs, NamesAre DEF OwnOf, z
  <2>3. OwnOf(z, inputs') = {w}
    BY <1>3, <1>6, <2>2 DEF OwnOf, z
  <2>4. QED
    BY <1>3, <1>4, <1>7, <1>5, <2>1, <2>2, <2>3, ServesFresh
<1>9. ASSUME NEW n \in InNames, n # z
      PROVE  OwnOf(n, inputs') = OwnOf(n, inputs) /\ edges'[n] = edges[n]
  BY <1>3, <1>6, <1>7, <1>9, NamesAre DEF OwnOf, z
<1>10. edges'[Out(0)] = edges[Out(0)]
  BY <1>4, <1>7, NamesAre
<1>11. \A n \in InNames :
          \/ Serves(n)'
          \/ /\ OwnOf(n, inputs') = OwnOf(n, inputs) /\ edges'[n] = edges[n]
             /\ n \in raced => n \in raced'
  <2> HIDE DEF OwnOf, Serves
  <2>1. QED
    BY <1>5, <1>8, <1>9
<1>12. QED
  BY <1>6, <1>7, <1>5, <1>10, <1>11, InputCommand DEF Rest

LEMMA AddChannelInputKeeps ==
  ASSUME IInv, NEW ref \in InRefs, AddChannelInput(ref)
  PROVE  IInv'
<1> DEFINE free == {n \in 1..(MaxWires - 1) : ~Has(inputs, n)}
<1>1. PICK m : m = FreeSlug(free)
  OBVIOUS
<1>2. /\ inputs' = Append(inputs, Input(m, ref)) /\ (inputs = <<>> \/ free # {})
      /\ edges' = EnsureInput(edges, Input(m, ref), seen)
      /\ Raced({In(m)}) /\ Rest /\ events' \in 0..MaxEvents
  BY <1>1, EventIs DEF AddChannelInput, IInv
<1>3. m \in 0..(MaxWires - 1) /\ ~Has(inputs, m)
  <2>1. CASE inputs = <<>>
    <3>1. m = 0 /\ DOMAIN inputs = {}
      BY <1>1, <2>1 DEF FreeSlug
    <3>2. QED
      BY <3>1, ZeroIsASlug DEF Has
  <2>2. CASE inputs # <<>>
    <3>1. m = Min(free) /\ free # {} /\ free \in SUBSET Nat
      BY <1>1, <1>2, <2>2 DEF FreeSlug
    <3>2. m \in free
      BY <3>1, Least
    <3>3. QED
      BY <3>2, DevicesAssumption
  <2>3. QED
    BY <2>1, <2>2
<1>4. {In(m)} \in SUBSET InNames
  BY <1>3, NamesAre
<1>5. /\ raced \subseteq raced' /\ raced' \subseteq InNames
      /\ edges[In(m)].state = "loading" => In(m) \in raced'
  BY <1>2, <1>4, RacedIs DEF IInv, Shape
<1>6. QED
  BY <1>2, <1>3, <1>5, FurtherInputKeeps

\* What a removal finds: the first wire to that reference, and the next wire when
\* it is the primary.
LEMMA Removal ==
  ASSUME InputsOK(inputs), NEW ref, RemoveChannelInput(ref)
  PROVE  /\ Event /\ Rest
         /\ \E k \in DOMAIN inputs :
              /\ inputs[k].ref = ref
              /\ \/ RemoveInput(inputs[k].slug)
                 \/ /\ inputs[k].slug = 0 /\ Drop(inputs, 0) # <<>>
                    /\ \E w \in Range(inputs) :
                         w.slug # 0 /\ Promote(w) /\ Raced({In(0), In(w.slug)})
<1> DEFINE hit == {k \in DOMAIN inputs : inputs[k].ref = ref}
           i == inputs[Min(hit)]
           later == Drop(inputs, 0)
<1>1. /\ Event /\ Rest /\ hit # {}
      /\ IF i.slug # 0 \/ later = <<>>
           THEN RemoveInput(i.slug)
           ELSE Promote(later[1]) /\ Raced({In(0), In(later[1].slug)})
  BY DEF RemoveChannelInput
<1>2. hit \in SUBSET Nat
  BY DEF InputsOK
<1>3. Min(hit) \in hit
  BY <1>1, <1>2, Least
<1>4. later # <<>> => later[1] \in Range(inputs) /\ later[1].slug # 0
  <2>1. InputsOK(later) /\ Range(later) = {w \in Range(inputs) : w.slug # 0}
    BY DropIs
  <2>2. later # <<>> => 1 \in DOMAIN later
    BY <2>1 DEF InputsOK
  <2>3. later # <<>> => later[1] \in Range(later)
    BY <2>2 DEF Range
  <2>4. QED
    BY <2>1, <2>3
<1> HIDE DEF later
<1>5. CASE i.slug # 0 \/ later = <<>>
  <2>1. RemoveInput(i.slug)
    BY <1>1, <1>5
  <2>2. QED
    BY <1>1, <1>3, <2>1
<1>6. CASE ~(i.slug # 0 \/ later = <<>>)
  <2>1. i.slug = 0 /\ later # <<>>
    BY <1>6
  <2>2. Promote(later[1]) /\ Raced({In(0), In(later[1].slug)})
    BY <1>1, <1>6
  <2>3. PICK w : w = later[1]
    OBVIOUS
  <2>4. w \in Range(inputs) /\ w.slug # 0 /\ Promote(w) /\ Raced({In(0), In(w.slug)})
    BY <1>4, <2>1, <2>2, <2>3
  <2>5. Drop(inputs, 0) # <<>>
    BY <2>1 DEF later
  <2>6. QED
    BY <1>1, <1>3, <2>1, <2>4, <2>5
<1>7. QED
  BY <1>5, <1>6

LEMMA RemoveChannelInputKeeps ==
  ASSUME IInv, NEW ref \in InRefs, RemoveChannelInput(ref)
  PROVE  IInv'
<1>1. InputsOK(inputs) /\ EdgesOK(edges) /\ raced \subseteq InNames
  BY DEF IInv, Shape
<1>2. PICK k \in DOMAIN inputs :
        \/ RemoveInput(inputs[k].slug)
        \/ \E w \in Range(inputs) :
             w.slug # 0 /\ Promote(w) /\ Raced({In(0), In(w.slug)})
  BY <1>1, Removal
<1>3. Rest /\ events' \in 0..MaxEvents
  BY <1>1, Removal, EventIs DEF IInv
<1>4. CASE RemoveInput(inputs[k].slug)
  <2>1. PICK m : m = inputs[k].slug
    OBVIOUS
  <2>2. inputs[k] \in Range(inputs)
    BY DEF Range
  <2>3. m \in 0..(MaxWires - 1)
    BY <1>1, <2>1, <2>2, WiresAre
  <2>4. inputs' = Drop(inputs, m) /\ edges' = Destroyed(edges, {In(m)}) /\ Raced({In(m)})
    BY <1>4, <2>1 DEF RemoveInput
  <2>5. {In(m)} \in SUBSET InNames
    BY <2>3, NamesAre
  <2>6. /\ raced \subseteq raced' /\ raced' \subseteq InNames
        /\ edges[In(m)].state = "loading" => In(m) \in raced'
    BY <1>1, <2>4, <2>5, RacedIs
  <2>7. QED
    BY <1>3, <2>3, <2>4, <2>6, RemoveInputKeeps
<1>5. ASSUME NEW w \in Range(inputs), w.slug # 0, Promote(w), Raced({In(0), In(w.slug)})
      PROVE  IInv'
  <2> DEFINE left == Drop(inputs, w.slug)
             es == Destroyed(edges, {In(w.slug)})
             m == w.slug
  <2>1. m \in 0..(MaxWires - 1) /\ w.ref \in InRefs
    BY <1>1, WiresAre
  <2>2. {In(0), In(m)} \in SUBSET InNames
    BY <2>1, ZeroIsASlug, NamesAre
  <2>3. /\ raced \subseteq raced' /\ raced' \subseteq InNames
        /\ edges[In(0)].state = "loading" => In(0) \in raced'
        /\ edges[In(m)].state = "loading" => In(m) \in raced'
    BY <1>1, <1>5, <2>2, RacedIs
  <2>4. CASE ~Valid(w.ref)
    <3>1. inputs' = left /\ edges' = es
      BY <1>5, <2>4 DEF Promote
    <3>2. QED
      BY <1>3, <2>1, <2>3, <3>1, RemoveInputKeeps
  <2>5. CASE Valid(w.ref)
    <3>1. Primary(es, left, w.ref)
      BY <1>5, <2>5 DEF Promote
    <3>2. InputsOK(left) /\ Range(left) = {v \in Range(inputs) : v.slug # m}
      BY <1>1, DropIs
    <3>3. /\ EdgesOK(es) /\ MildAll(edges, es)
          /\ \A n \in Names : n # In(m) => es[n] = edges[n]
          /\ es[In(m)].state # "up"
      BY <1>1, <2>1, NamesAre, DestroyedIs
    <3>4. es[In(m)].state = "loading" => edges[In(m)].state = "loading"
      BY <2>1, NamesAre DEF Destroyed
    <3> HIDE DEF left, es
    <3>5. In(0) # In(m) /\ In(0) \in Names /\ Out(0) \in Names /\ In(m) # Out(0)
      BY <1>5, ZeroIsASlug, NamesAre
    <3>6. es[Out(0)] = edges[Out(0)] /\ es[In(0)] = edges[In(0)]
      BY <3>3, <3>5
    <3>7. \A n : n # In(m) => OwnOf(n, left) = OwnOf(n, inputs)
      BY <3>2 DEF OwnOf
    <3>8. OwnOf(In(m), left) = {}
      BY <3>2, NamesAre DEF OwnOf
    <3>9. ASSUME NEW n \in InNames, n # In(0)
          PROVE  \/ OwnOf(n, left) = OwnOf(n, inputs) /\ es[n] = edges[n]
                 \/ OwnOf(n, left) = {} /\ (es[n].state \in {"loading", "up"} => n \in raced')
      <4>1. CASE n = In(m)
        BY <2>3, <3>3, <3>4, <3>8, <4>1
      <4>2. CASE n # In(m)
        BY <3>3, <3>7, <4>2, NamesAre
      <4>3. QED
        BY <4>1, <4>2
    <3>10. OwnOf(In(0), left) = OwnOf(In(0), inputs)
      BY <3>5, <3>7
    <3> QED
      BY <1>3, <2>1, <2>3, <3>1, <3>2, <3>3, <3>6, <3>9, <3>10, PrimaryKeeps
  <2>6. QED
    BY <2>4, <2>5
<1>6. QED
  BY <1>2, <1>4, <1>5

LEMMA MuteInputKeeps ==
  ASSUME IInv, NEW ref \in InRefs, NEW on \in BOOLEAN, MuteInput(ref, on)
  PROVE  IInv'
<1>1. InputsOK(inputs) /\ EdgesOK(edges) /\ raced \subseteq InNames
  BY DEF IInv, Shape
<1> DEFINE hit == {k \in DOMAIN inputs : SameWire(inputs[k].ref, ref)}
           First(m) == \/ inputs[m].slug = 0
                       \/ /\ \A q \in hit : inputs[q].slug # 0
                          /\ \A q \in hit : m <= q
<1>2. PICK k : k = CHOOSE m \in hit : First(m)
  OBVIOUS
<1>3. /\ hit # {} /\ inputs' = [inputs EXCEPT ![k].muted = on]
      /\ edges' = Muted(edges, In(inputs[k].slug), on) /\ raced' = raced /\ Rest
      /\ events' \in 0..MaxEvents
  BY <1>2, EventIs DEF MuteInput, IInv
<1>4. k \in hit
  <2>1. hit \in SUBSET Nat
    BY <1>1 DEF InputsOK
  <2>2. Min(hit) \in hit /\ \A q \in hit : Min(hit) <= q
    BY <1>3, <2>1, Least
  <2> HIDE DEF hit
  <2>3. \E m \in hit : First(m)
    BY <2>2
  <2>4. QED
    BY <1>2, <2>3
<1>5. k \in DOMAIN inputs
  BY <1>4
<1> HIDE DEF hit, First
<1>6. PICK w : w = inputs[k]
  OBVIOUS
<1>7. w \in Socket /\ w \in Range(inputs) /\ w.slug \in 0..(MaxWires - 1)
  BY <1>1, <1>5, <1>6, WiresAre DEF Range
<1>8. PICK v : v = [w EXCEPT !.muted = on]
  OBVIOUS
<1>9. v \in Socket /\ v.slug = w.slug /\ v.ref = w.ref /\ v.muted = on
  BY <1>7, <1>8 DEF Socket
<1>10. inputs' = Rewired(inputs, v)
  <2>1. \A q \in DOMAIN inputs : inputs[q].slug = v.slug <=> q = k
    BY <1>1, <1>5, <1>6, <1>9 DEF InputsOK
  <2>2. inputs' = [q \in DOMAIN inputs |-> IF q = k THEN v ELSE inputs[q]]
    BY <1>3, <1>5, <1>6, <1>8
  <2>3. QED
    BY <2>1, <2>2 DEF Rewired
<1>11. /\ InputsOK(inputs')
       /\ Range(inputs') = {u \in Range(inputs) : u.slug # w.slug} \cup {v}
  <2>1. Has(inputs, v.slug)
    BY <1>7, <1>9, HasIs
  <2>2. QED
    BY <1>1, <1>9, <1>10, <2>1, RewiredIs
<1>12. PICK z : z = In(w.slug)
  OBVIOUS
<1>13. z \in InNames /\ z \in Names /\ z # Out(0)
  BY <1>7, <1>12, NamesAre
<1>14. /\ EdgesOK(edges') /\ MildAll(edges, edges')
       /\ \A n \in Names : n # z => edges'[n] = edges[n]
       /\ edges'[z] = IF edges[z].state = "up" THEN [edges[z] EXCEPT !.muted = on] ELSE edges[z]
  BY <1>1, <1>3, <1>6, <1>12, <1>13, MutedIs
<1>15. OwnOf(z, inputs) = {w} /\ OwnOf(z, inputs') = {v}
  <2>1. \A u \in Range(inputs) : u.slug = w.slug => u = w
    BY <1>1, <1>7, WiresAre
  <2>2. QED
    BY <1>7, <1>9, <1>11, <1>12, <2>1, NamesAre DEF OwnOf
<1>16. Serves(z)'
  <2>1. Serves(z) /\ edges[z] \in EdgeType /\ (\A x, y : Told(x, y)' <=> Told(x, y))
        /\ seen' = seen /\ again' = again
    BY <1>3, <1>13, Unheard DEF IInv, Shape, EdgesOK, Rest
  <2>2. CASE edges[z].state = "up"
    <3>1. edges'[z].state = "up" /\ edges'[z].muted = on /\ edges'[z].ref = edges[z].ref
      BY <1>14, <2>1, <2>2 DEF EdgeType
    <3>2. z \notin raced => edges[z].ref = w.ref
      BY <1>15, <2>1, <2>2 DEF Serves, OwnOf
    <3>3. /\ z \notin raced' => edges'[z].ref = v.ref
          /\ edges'[z].muted <=> v.muted
      BY <1>3, <1>9, <3>1, <3>2
    <3>4. QED
      BY <1>15, <3>1, <3>3, ServesUp
  <2>3. CASE edges[z].state # "up"
    <3>1. edges'[z] = edges[z]
      BY <1>14, <2>3
    <3>2. /\ z \notin raced /\ edges[z].state = "loading" =>
               edges[z].ref = w.ref /\ ~edges[z].muted
          /\ edges[z].state = "none" /\ w.ref.node \in seen => again \/ Told("removed", z)
      BY <1>15, <2>1 DEF Serves, OwnOf
    <3>3. /\ edges'[z].state = "up" => z \in raced'
          /\ edges'[z].state = "loading" =>
               z \in raced' \/ (edges'[z].ref = v.ref /\ ~edges'[z].muted)
          /\ edges'[z].state = "none" /\ v.ref.node \in seen' => again' \/ Told("removed", z)'
      BY <1>3, <1>9, <2>1, <2>3, <3>1, <3>2
    <3>4. QED
      BY <1>15, <3>3, ServesWire
  <2>4. QED
    BY <2>2, <2>3
<1>17. ASSUME NEW n \in InNames, n # z
       PROVE  OwnOf(n, inputs') = OwnOf(n, inputs) /\ edges'[n] = edges[n]
  <2>1. edges'[n] = edges[n]
    BY <1>14, <1>17, NamesAre
  <2>2. OwnOf(n, inputs') = OwnOf(n, inputs)
    BY <1>9, <1>11, <1>12, <1>17 DEF OwnOf
  <2>3. QED
    BY <2>1, <2>2
<1>18. \A n \in InNames :
          \/ Serves(n)'
          \/ /\ OwnOf(n, inputs') = OwnOf(n, inputs) /\ edges'[n] = edges[n]
             /\ n \in raced => n \in raced'
  BY <1>3, <1>16, <1>17
<1>19. edges'[Out(0)] = edges[Out(0)]
  BY <1>13, <1>14, NamesAre
<1>20. QED
  BY <1>1, <1>3, <1>11, <1>14, <1>18, <1>19, InputCommand DEF Rest


LEMMA FirstRunKeeps ==
  ASSUME IInv, NEW sink \in OutRefs, NEW source \in InRefs, FirstRun(sink, source)
  PROVE  IInv'
<1> DEFINE adopts == outputs = <<>>
           wires == inputs = <<>> /\ Valid(source)
           outs == <<Wire(sink)>>
           v == Input(0, source)
           z == In(0)
<1>1. PICK es : es = IF adopts THEN SetMixOutputs(edges, outs) ELSE edges
  OBVIOUS
<1>2. /\ UNCHANGED <<there, seen, fallback, news, again>> /\ (adopts \/ wires)
      /\ outputs' = IF adopts THEN outs ELSE outputs
      /\ inputs' = IF wires THEN <<v>> ELSE inputs
      /\ edges' = IF wires THEN EnsureInput(es, v, seen) ELSE es
      /\ Raced(IF wires THEN {z} ELSE {}) /\ events' \in 0..MaxEvents
  BY <1>1, EventIs DEF FirstRun, IInv
<1>3. OutputsOK(outs)
  <2>1. outs \in Seq(Output) /\ Len(outs) = 1
    BY OutputTyped
  <2>2. QED
    BY <2>1, DevicesAssumption DEF OutputsOK
<1>4. z \in InNames /\ z \in Names /\ z # Out(0)
  BY ZeroIsASlug, NamesAre
<1>5. v \in Socket /\ v.slug = 0 /\ v.ref = source
  BY ZeroIsASlug, InputTyped
<1>6. Shape /\ OutputsOK(outputs) /\ InputsOK(inputs) /\ EdgesOK(edges) /\ raced \subseteq InNames
  BY DEF IInv, Shape
<1> HIDE DEF outs, v, z
<1>7. CASE ~wires
  <2>1. outputs' = outs /\ edges' = SetMixOutputs(edges, outs) /\ inputs' = inputs
    BY <1>1, <1>2, <1>7
  <2>2. raced' = raced
    BY <1>2, <1>7 DEF Raced
  <2>3. Outputs(outs)
    BY <1>2, <2>1, <2>2 DEF Outputs
  <2>4. QED
    BY <1>2, <1>3, <2>3, OutputsKeeps
<1>8. CASE wires
  <2>1. /\ Raced({z}) /\ edges' = EnsureInput(es, v, seen) /\ inputs' = <<v>> /\ inputs = <<>>
    BY <1>2, <1>8
  <2>2. /\ raced \subseteq raced' /\ raced' \subseteq InNames
        /\ edges[z].state = "loading" => z \in raced'
    <3>1. {z} \in SUBSET InNames
      BY <1>4
    <3>2. QED
      BY <1>6, <2>1, <3>1, RacedIs
  <2>3. Range(inputs) = {} /\ Range(inputs') = {v} /\ InputsOK(inputs')
    BY <1>5, <2>1 DEF Range, InputsOK
  <2>4. /\ EdgesOK(es) /\ MildAll(edges, es) /\ \A n \in InNames : es[n] = edges[n]
        /\ OutputsOK(outputs')
        /\ IF adopts THEN AimOK(es, Pick(outs, fallback, seen), seen)
                     ELSE es[Out(0)] = edges[Out(0)]
    <3>1. CASE adopts
      <4>1. es = SetMixOutputs(edges, outs) /\ outputs' = outs
        BY <1>1, <1>2, <3>1
      <4>2. /\ EdgesOK(es) /\ MildAll(edges, es) /\ AimOK(es, Pick(outs, fallback, seen), seen)
            /\ \A n \in InNames : Asked(n, edges[n], es[n], Range(inputs), seen)
        BY <1>3, <1>6, <4>1, SetMixOutputsIs
      <4>3. QED
        BY <1>3, <2>3, <3>1, <4>1, <4>2 DEF Asked
    <3>2. CASE ~adopts
      BY <1>1, <1>2, <1>6, <3>2 DEF MildAll, Mild
    <3>3. QED
      BY <3>1, <3>2
  <2>5. /\ EdgesOK(edges') /\ MildAll(es, edges')
        /\ \A n \in Names : n # z => edges'[n] = es[n]
        /\ Fetched(es[z], edges'[z], v.ref)
    BY <1>5, <2>1, <2>4, ZeroIsASlug, EnsureInputIs DEF z, Fetched
  <2>6. MildAll(edges, edges')
    BY <2>4, <2>5, MildIsTransitive
  <2>7. Follows'
    <3>1. edges'[Out(0)] = es[Out(0)]
      BY <1>4, <2>5, NamesAre
    <3>2. CASE adopts
      <4>1. AimOK(es, Pick(outs, fallback, seen), seen) /\ Target' = Pick(outs, fallback, seen)
        BY <1>2, <2>4, <3>2 DEF Target
      <4>2. seen' \in SUBSET Devices /\ AimOK(edges', Target', seen')
        BY <1>2, <1>6, <3>1, <4>1 DEF Shape, AimOK
      <4>3. \A d \in Devices : DeviceTold(d)'
        BY <1>2, Unheard
      <4>4. QED
        BY <1>2, <4>2, <4>3, AimApplied
    <3>3. CASE ~adopts
      <4>1. Target' = Target /\ edges'[Out(0)].aim = edges[Out(0)].aim
        BY <1>2, <2>4, <3>1, <3>3 DEF Target
      <4>2. QED
        BY <1>2, <4>1, Unheard, AimKept DEF IInv
    <3>4. QED
      BY <3>2, <3>3
  <2>8. Serves(z)'
    <3>1. OwnOf(z, inputs) = {} /\ OwnOf(z, inputs') = {v}
      BY <1>5, <2>3 DEF OwnOf, z
    <3>2. Fetched(edges[z], edges'[z], v.ref) /\ v.ref \in InRefs
      BY <1>4, <1>5, <2>4, <2>5
    <3>3. /\ EdgeOK(z, edges[z]) /\ news \in Seq(Words) /\ EdgeTold(z) /\ Serves(z)
          /\ Told("removed", z) => Told("removed", z)'
      BY <1>2, <1>4, Unheard DEF IInv, Shape, EdgesOK
    <3>4. QED
      BY <1>2, <1>4, <2>2, <3>1, <3>2, <3>3, ServesFresh
  <2>9. ASSUME NEW n \in InNames, n # z PROVE Serves(n)'
    <3>1. OwnOf(n, inputs') = {} /\ OwnOf(n, inputs) = {}
      BY <1>5, <2>3, <2>9 DEF OwnOf, z
    <3>2. edges'[n] = edges[n]
      BY <2>4, <2>5, <2>9, NamesAre
    <3>3. Serves(n) /\ (Told("added", n) => Told("added", n)')
          /\ (Told("removed", n) => Told("removed", n)')
      BY <1>2, Unheard DEF IInv
    <3>4. QED
      BY <1>2, <2>2, <3>1, <3>2, <3>3, ServesStays
  <2>10. Shape'
    BY <1>2, <1>6, <2>2, <2>3, <2>4, <2>5, Unheard DEF Shape
  <2>11. QED
    BY <1>2, <2>6, <2>7, <2>8, <2>9, <2>10, Unheard DEF IInv
<1>9. QED
  BY <1>7, <1>8

-----------------------------------------------------------------------------
(* PipeWire                                                                *)

LEMMA Notice ==
  ASSUME IInv, NEW what \in {"added", "removed"}, NEW name \in Devices \cup Names,
         Tell(what, name), UNCHANGED <<seen, layout, again>>, events' \in 0..MaxEvents,
         there' = IF name \notin Devices THEN there
                  ELSE IF what = "added" THEN there \cup {name} ELSE there \ {name},
         raced' \subseteq InNames, EdgesOK(edges'),
         \A n \in Names :
           \/ name # n /\ Mild(edges[n], edges'[n])
           \/ /\ name = n /\ what = "added" /\ edges[n].state = "loading"
              /\ edges'[n].state = "up" /\ edges'[n].asked = edges[n].asked
           \/ /\ name = n /\ what = "removed" /\ edges[n].state = "dying"
              /\ edges'[n].state = "none" /\ edges'[n].asked = edges[n].asked,
         Follows' \/ edges'[Out(0)].aim \in {edges[Out(0)].aim, None},
         \A n \in InNames :
           \/ Serves(n)'
           \/ edges'[n] = edges[n] /\ (n \in raced => n \in raced')
  PROVE  IInv'
<1>1. news \in Seq(Words) /\ \A w, x : Told(w, x) => Told(w, x)'
  BY Telling DEF IInv, Shape, Told
<1>2. ASSUME NEW d \in Devices PROVE DeviceTold(d)'
  BY <1>1, DeviceTelling DEF IInv
<1>3. ASSUME NEW n \in Names PROVE EdgeTold(n)'
  BY <1>1, EdgeTelling DEF IInv
<1>4. ASSUME NEW n \in InNames PROVE Serves(n)'
  <2>1. OwnOf(n, inputs') = OwnOf(n, inputs) /\ seen' = seen /\ again' = again
    BY DEF layout
  <2>2. QED
    BY <1>1, <2>1, ServesStays DEF IInv
<1>5. Follows'
  <2>1. Target' = Target
    BY DEF Target, layout
  <2>2. QED
    BY <1>1, <2>1, AimKept DEF IInv
<1>6. Shape'
  <2>1. there' \subseteq Devices /\ news' \in Seq(Words)
    BY <1>1, Telling DEF IInv, Shape
  <2>2. QED
    BY <2>1 DEF IInv, Shape, layout
<1>7. QED
  BY <1>2, <1>3, <1>4, <1>5, <1>6 DEF IInv

LEMMA DeviceArrivesKeeps ==
  ASSUME IInv, NEW d \in Devices, DeviceArrives(d)
  PROVE  IInv'
<1>1. /\ Tell("added", d) /\ UNCHANGED <<seen, layout, again>> /\ events' \in 0..MaxEvents
      /\ there' = there \cup {d} /\ edges' = edges /\ raced' = raced
      /\ EdgesOK(edges) /\ raced \subseteq InNames
  BY EventIs DEF DeviceArrives, IInv, Shape
<1>2. \A n \in Names : d # n /\ Mild(edges[n], edges[n])
  BY NamesAssumption DEF Mild
<1>3. QED
  BY <1>1, <1>2, Notice

LEMMA DeviceLeavesKeeps ==
  ASSUME IInv, NEW d \in Devices, DeviceLeaves(d)
  PROVE  IInv'
<1>1. /\ Tell("removed", d) /\ UNCHANGED <<seen, layout, again>> /\ events' \in 0..MaxEvents
      /\ there' = there \ {d} /\ raced' = raced /\ raced \subseteq InNames
      /\ edges' = [n \in Names |-> IF edges[n].aim = d
                                     THEN [edges[n] EXCEPT !.aim = Gone] ELSE edges[n]]
      /\ EdgesOK(edges) /\ news \in Seq(Words)
  BY EventIs DEF DeviceLeaves, IInv, Shape
<1>2. d # None
  BY DevicesAssumption
<1>3. ASSUME NEW n \in Names
      PROVE  /\ d # n /\ Mild(edges[n], edges'[n]) /\ EdgeOK(n, edges'[n])
             /\ n \in InNames => edges'[n] = edges[n]
             /\ edges[n].aim # d => edges'[n] = edges[n]
  <2>1. d # n
    BY NamesAssumption
  <2>2. EdgeOK(n, edges[n]) /\ edges[n] \in EdgeType
    BY <1>1 DEF EdgesOK, EdgeOK
  <2>3. CASE edges[n].aim = d
    <3>1. edges'[n] = [edges[n] EXCEPT !.aim = Gone]
      BY <1>1, <2>3
    <3>2. /\ edges'[n] \in EdgeType /\ edges'[n].state = edges[n].state
          /\ edges'[n].asked = edges[n].asked
      BY <2>2, <3>1 DEF EdgeType
    <3>3. ~(n \in InNames \/ (n = Out(0) /\ ~InGraph(edges[n])))
      BY <1>2, <2>2, <2>3 DEF EdgeOK
    <3>4. QED
      BY <2>1, <2>2, <2>3, <3>2, <3>3 DEF EdgeOK, Mild, InGraph
  <2>4. CASE edges[n].aim # d
    BY <1>1, <2>1, <2>2, <2>4 DEF Mild
  <2>5. QED
    BY <2>3, <2>4
<1>4. EdgesOK(edges')
  <2>1. edges' \in [Names -> EdgeType]
    BY <1>1, <1>3 DEF EdgeOK
  <2>2. QED
    BY <1>3, <2>1 DEF EdgesOK
<1>5. Follows' \/ edges'[Out(0)].aim \in {edges[Out(0)].aim, None}
  <2>1. CASE edges[Out(0)].aim = d
    <3>1. Told("removed", d)' /\ \A w, x : Told(w, x) => Told(w, x)'
      BY <1>1, Telling DEF Told
    <3>2. Target' = Target
      BY <1>1 DEF Target, layout
    <3>3. PICK t : t = Target
      OBVIOUS
    <3>4. t \in Devices /\ t = Target' /\ Told("removed", t)'
      BY <1>2, <2>1, <3>1, <3>2, <3>3 DEF IInv, Follows
    <3>5. QED
      BY <3>4 DEF Follows
  <2>2. CASE edges[Out(0)].aim # d
    BY <1>3, <2>2, NamesAre
  <2>3. QED
    BY <2>1, <2>2
<1>6. QED
  BY <1>1, <1>3, <1>4, <1>5, NamesAre, Notice

LEMMA EdgeArrivesKeeps ==
  ASSUME IInv, NEW m \in Names, EdgeArrives(m)
  PROVE  IInv'
<1>1. /\ Tell("added", m) /\ UNCHANGED <<seen, layout, again>> /\ events' \in 0..MaxEvents
      /\ there' = there /\ raced' = raced /\ raced \subseteq InNames
      /\ edges[m].state = "loading" /\ edges' = [edges EXCEPT ![m].state = "up"]
      /\ EdgesOK(edges) /\ news \in Seq(Words) /\ m \notin Devices
  BY NamesAssumption DEF EdgeArrives, IInv, Shape
<1>2. edges[m] \in EdgeType /\ EdgeOK(m, edges[m]) /\ edges \in [Names -> EdgeType]
  BY <1>1 DEF EdgesOK, EdgeOK
<1>3. /\ edges' \in [Names -> EdgeType] /\ \A n \in Names : n # m => edges'[n] = edges[n]
      /\ edges'[m].state = "up" /\ edges'[m].asked = edges[m].asked
      /\ edges'[m].ref = edges[m].ref /\ edges'[m].muted = edges[m].muted
      /\ edges'[m].aim = edges[m].aim
  BY <1>1, <1>2 DEF EdgeType
<1>4. EdgesOK(edges')
  <2>1. EdgeOK(m, edges'[m])
    BY <1>1, <1>2, <1>3 DEF EdgeOK, InGraph
  <2>2. QED
    BY <1>1, <1>3, <2>1 DEF EdgesOK
<1>5. edges'[Out(0)].aim \in {edges[Out(0)].aim, None}
  BY <1>3, NamesAre
<1>6. ASSUME NEW n \in InNames
      PROVE  Serves(n)' \/ (edges'[n] = edges[n] /\ (n \in raced => n \in raced'))
  <2>1. CASE n = m
    <3>1. Told("added", n)'
      BY <1>1, <2>1, Telling
    <3>2. /\ n \notin raced => /\ \E w \in OwnOf(n, inputs) : edges[n].ref = w.ref
                               /\ ~edges[n].muted
          /\ OwnOf(n, inputs') = OwnOf(n, inputs)
      BY <1>1, <2>1 DEF IInv, Serves, OwnOf, layout
    <3>3. QED
      BY <1>1, <1>3, <2>1, <3>1, <3>2 DEF Serves, OwnOf
  <2>2. CASE n # m
    BY <1>1, <1>3, <2>2, NamesAre
  <2>3. QED
    BY <2>1, <2>2
<1>7. ASSUME NEW n \in Names
      PROVE  \/ m # n /\ Mild(edges[n], edges'[n])
             \/ /\ m = n /\ edges[n].state = "loading"
                /\ edges'[n].state = "up" /\ edges'[n].asked = edges[n].asked
  BY <1>1, <1>3 DEF Mild
<1>8. /\ m \in Devices \cup Names
      /\ there' = IF m \notin Devices THEN there
                  ELSE IF "added" = "added" THEN there \cup {m} ELSE there \ {m}
  BY <1>1
<1>9. QED
  BY <1>1, <1>4, <1>5, <1>6, <1>7, <1>8, Notice

LEMMA EdgeLeavesKeeps ==
  ASSUME IInv, NEW m \in Names, EdgeLeaves(m)
  PROVE  IInv'
<1> DEFINE f == [Absent EXCEPT !.asked = edges[m].asked]
<1>1. /\ Tell("removed", m) /\ UNCHANGED <<seen, layout, again>> /\ events' \in 0..MaxEvents
      /\ there' = there /\ raced' = raced \ {m} /\ raced \subseteq InNames
      /\ edges[m].state = "dying" /\ edges' = [edges EXCEPT ![m] = f]
      /\ EdgesOK(edges) /\ news \in Seq(Words) /\ m \notin Devices
  BY NamesAssumption DEF EdgeLeaves, IInv, Shape
<1>2. edges[m] \in EdgeType /\ EdgeOK(m, edges[m]) /\ edges \in [Names -> EdgeType]
  BY <1>1 DEF EdgesOK, EdgeOK
<1>3. /\ f \in EdgeType /\ f.state = "none" /\ f.aim = None /\ f.asked = edges[m].asked
  BY <1>2 DEF EdgeType, Absent
<1> HIDE DEF f
<1>4. /\ edges' \in [Names -> EdgeType] /\ edges'[m] = f
      /\ \A n \in Names : n # m => edges'[n] = edges[n]
  BY <1>1, <1>2, <1>3
<1>5. EdgesOK(edges')
  <2>1. EdgeOK(m, f)
    BY <1>3 DEF EdgeOK
  <2>2. QED
    BY <1>1, <1>4, <2>1 DEF EdgesOK
<1>6. edges'[Out(0)].aim \in {edges[Out(0)].aim, None}
  BY <1>3, <1>4, NamesAre
<1>7. ASSUME NEW n \in InNames
      PROVE  Serves(n)' \/ (edges'[n] = edges[n] /\ (n \in raced => n \in raced'))
  <2>1. CASE n = m
    <3>1. Told("removed", n)' /\ edges'[n].state = "none"
      BY <1>1, <1>3, <1>4, <2>1, Telling
    <3>2. QED
      BY <3>1 DEF Serves
  <2>2. CASE n # m
    BY <1>1, <1>4, <2>2, NamesAre
  <2>3. QED
    BY <2>1, <2>2
<1>8. ASSUME NEW n \in Names
      PROVE  \/ m # n /\ Mild(edges[n], edges'[n])
             \/ /\ m = n /\ edges[n].state = "dying"
                /\ edges'[n].state = "none" /\ edges'[n].asked = edges[n].asked
  BY <1>1, <1>3, <1>4 DEF Mild
<1>9. /\ m \in Devices \cup Names
      /\ there' = IF m \notin Devices THEN there
                  ELSE IF "removed" = "added" THEN there \cup {m} ELSE there \ {m}
  BY <1>1
<1>10. QED
  BY <1>1, <1>5, <1>6, <1>7, <1>8, <1>9, Notice

-----------------------------------------------------------------------------
(* The Mixer hears of it                                                   *)

LEMMA Hearing ==
  ASSUME IInv, NEW what, Hear(what), UNCHANGED <<there, layout, raced, events>>,
         seen' = IF Named \notin Devices THEN seen
                 ELSE IF what = "added" THEN seen \cup {Named} ELSE seen \ {Named},
         again' \in BOOLEAN, EdgesOK(edges'), Follows',
         \A n \in Names : EdgeTold(n)', \A n \in InNames : Serves(n)'
  PROVE  IInv'
<1>1. news \in Seq(Words) /\ \A d \in Devices : DeviceTold(d)
  BY DEF IInv, Shape
<1>2. \A d \in Devices : DeviceTold(d)'
  BY <1>1, DeviceHeard
<1>3. news' \in Seq(Words)
  BY <1>1, Heard
<1>4. seen' \subseteq Devices
  BY DEF IInv, Shape
<1>5. Shape'
  BY <1>3, <1>4 DEF IInv, Shape, layout
<1>6. QED
  BY <1>2, <1>5 DEF IInv

\* What a device coming or going does to the wires.
LEMMA EnsureInputsKeep ==
  ASSUME NEW es, EdgesOK(es), NEW ins, InputsOK(ins), NEW known
  PROVE  /\ EdgesOK(EnsureInputs(es, ins, known)) /\ MildAll(es, EnsureInputs(es, ins, known))
         /\ EnsureInputs(es, ins, known)[Out(0)] = es[Out(0)]
<1> DEFINE fs == EnsureInputs(es, ins, known)
<1>1. \A n \in Names : Asked(n, es[n], fs[n], Range(ins), known)
  BY EnsureInputsIs
<1>2. \A n \in Names : EdgeOK(n, fs[n]) /\ Mild(es[n], fs[n])
  BY <1>1, AskedIs DEF EdgesOK
<1>3. fs \in [Names -> EdgeType]
  BY <1>2 DEF EdgeOK, EnsureInputs
<1> HIDE DEF fs
<1>4. fs[Out(0)] = es[Out(0)]
  BY <1>1, NamesAre DEF Asked
<1>5. QED
  BY <1>2, <1>3, <1>4 DEF EdgesOK, MildAll, fs

LEMMA DeviceHearing ==
  ASSUME IInv, NEW what, Hear(what), Named \in Devices
  PROVE  /\ news \in Seq(Words) /\ EdgesOK(edges) /\ seen \in SUBSET Devices
         /\ InputsOK(inputs) /\ OutputsOK(outputs) /\ fallback \in Devices \cup {None}
         /\ again \in BOOLEAN
         /\ \A w, x : x \in Names /\ Told(w, x) => Told(w, x)'
         /\ MildAll(edges, edges') => \A n \in Names : EdgeTold(n)'
<1>1. news \in Seq(Words) /\ \A n \in Names : Named # n
  BY NamesAssumption DEF IInv, Shape
<1>2. \A w, x : x \in Names /\ Told(w, x) => Told(w, x)'
  BY <1>1, Heard
<1>3. ASSUME MildAll(edges, edges'), NEW n \in Names PROVE EdgeTold(n)'
  BY <1>1, <1>3, EdgeHeard DEF IInv, MildAll
<1>4. QED
  BY <1>1, <1>2, <1>3 DEF IInv, Shape

LEMMA DeviceAddedKeeps ==
  ASSUME IInv, DeviceAdded
  PROVE  IInv'
<1>1. /\ Hear("added") /\ Named \in Devices /\ UNCHANGED <<there, layout, again, raced, events>>
      /\ seen' = seen \cup {Named}
      /\ edges' = IF Named \in seen THEN edges
                  ELSE EnsureInputs(ApplyFallbacks(edges, outputs, fallback, seen'),
                                    inputs, seen')
  BY DEF DeviceAdded
<1>2. /\ news \in Seq(Words) /\ EdgesOK(edges) /\ seen \in SUBSET Devices
      /\ InputsOK(inputs) /\ OutputsOK(outputs) /\ fallback \in Devices \cup {None}
      /\ \A w, x : x \in Names /\ Told(w, x) => Told(w, x)'
      /\ MildAll(edges, edges') => \A n \in Names : EdgeTold(n)'
      /\ again' \in BOOLEAN
  BY <1>1, DeviceHearing
<1>3. \A d \in Devices : DeviceTold(d)'
  BY <1>1, <1>2, DeviceHeard DEF IInv
<1>4. seen' = IF Named \notin Devices THEN seen
              ELSE IF "added" = "added" THEN seen \cup {Named} ELSE seen \ {Named}
  BY <1>1
<1>5. CASE Named \in seen
  <2>1. edges' = edges /\ seen' = seen /\ MildAll(edges, edges')
    BY <1>1, <1>5 DEF MildAll, Mild
  <2>2. Follows'
    <3>1. Target' = Target
      BY <1>1, <2>1 DEF Target, layout
    <3>2. \A x : Told("removed", x) => Told("removed", x)'
      BY <1>1, <1>2, Heard
    <3>3. QED
      BY <2>1, <3>1, <3>2, AimKept DEF IInv
  <2>3. ASSUME NEW n \in InNames PROVE Serves(n)'
    <3>1. OwnOf(n, inputs') = OwnOf(n, inputs) /\ n \in Names /\ Serves(n)
      BY <1>1, NamesAre DEF layout, IInv
    <3>2. QED
      BY <1>1, <1>2, <2>1, <3>1, ServesStays
  <2>4. QED
    BY <1>1, <1>2, <1>4, <2>1, <2>2, <2>3, Hearing
<1>6. CASE Named \notin seen
  <2>1. PICK known : known = seen'
    OBVIOUS
  <2>2. PICK es : es = ApplyFallbacks(edges, outputs, fallback, known)
    OBVIOUS
  <2>3. edges' = EnsureInputs(es, inputs, known) /\ known \in SUBSET Devices
    BY <1>1, <1>2, <1>6, <2>1, <2>2
  <2>4. /\ EdgesOK(es) /\ MildAll(edges, es) /\ \A n \in Names : n # Out(0) => es[n] = edges[n]
        /\ AimOK(es, Pick(outputs, fallback, known), known)
    BY <1>2, <2>2, <2>3, ApplyIs
  <2>5. /\ EdgesOK(edges') /\ MildAll(es, edges') /\ edges'[Out(0)] = es[Out(0)]
        /\ \A n \in Names : Asked(n, es[n], edges'[n], Range(inputs), known)
    BY <1>2, <2>3, <2>4, EnsureInputsKeep, EnsureInputsIs
  <2>6. MildAll(edges, edges')
    BY <2>4, <2>5, MildIsTransitive
  <2>7. Follows'
    <3>1. Target' = Pick(outputs, fallback, known)
      BY <1>1, <2>1 DEF Target, layout
    <3>2. AimOK(edges', Target', seen')
      BY <2>1, <2>4, <2>5, <3>1 DEF AimOK
    <3>3. there' = there /\ seen' \in SUBSET Devices
      BY <1>1, <2>1, <2>3
    <3>4. QED
      BY <1>3, <3>2, <3>3, AimApplied
  <2>8. ASSUME NEW n \in InNames PROVE Serves(n)'
    <3>1. n \in Names /\ Serves(n) /\ EdgeTold(n) /\ EdgeOK(n, edges[n]) /\ n # Out(0)
      BY <1>2, NamesAre DEF IInv, EdgesOK
    <3>2. Asked(n, edges[n], edges'[n], Range(inputs), seen')
      BY <2>1, <2>4, <2>5, <3>1
    <3>3. inputs' = inputs /\ raced' = raced
      BY <1>1 DEF layout
    <3>4. QED
      BY <1>2, <3>1, <3>2, <3>3, ServesAsked
  <2>9. QED
    BY <1>1, <1>2, <1>4, <2>5, <2>6, <2>7, <2>8, Hearing
<1>7. QED
  BY <1>5, <1>6

LEMMA DeviceRemovedKeeps ==
  ASSUME IInv, DeviceRemoved
  PROVE  IInv'
<1>1. /\ Hear("removed") /\ Named \in Devices
      /\ UNCHANGED <<there, layout, again, raced, events>> /\ seen' = seen \ {Named}
      /\ edges' = ApplyFallbacks(edges, outputs, fallback, seen')
  BY DEF DeviceRemoved
<1>2. /\ news \in Seq(Words) /\ EdgesOK(edges) /\ seen \in SUBSET Devices
      /\ InputsOK(inputs) /\ OutputsOK(outputs) /\ fallback \in Devices \cup {None}
      /\ \A w, x : x \in Names /\ Told(w, x) => Told(w, x)'
      /\ MildAll(edges, edges') => \A n \in Names : EdgeTold(n)'
      /\ again' \in BOOLEAN
  BY <1>1, DeviceHearing
<1>3. \A d \in Devices : DeviceTold(d)'
  BY <1>1, <1>2, DeviceHeard DEF IInv
<1>4. seen' = IF Named \notin Devices THEN seen
              ELSE IF "removed" = "added" THEN seen \cup {Named} ELSE seen \ {Named}
  BY <1>1
<1>5. PICK known : known = seen'
  OBVIOUS
<1>6. known \in SUBSET Devices /\ edges' = ApplyFallbacks(edges, outputs, fallback, known)
  BY <1>1, <1>2, <1>5
<1>7. /\ EdgesOK(edges') /\ MildAll(edges, edges')
      /\ \A n \in Names : n # Out(0) => edges'[n] = edges[n]
      /\ AimOK(edges', Pick(outputs, fallback, known), known)
  BY <1>2, <1>6, ApplyIs
<1>8. Follows'
  <2>1. Target' = Pick(outputs, fallback, known)
    BY <1>1, <1>5 DEF Target, layout
  <2>2. AimOK(edges', Target', seen') /\ there' = there /\ seen' \in SUBSET Devices
    BY <1>1, <1>5, <1>6, <1>7, <2>1
  <2>3. QED
    BY <1>3, <2>2, AimApplied
<1>9. ASSUME NEW n \in InNames PROVE Serves(n)'
  <2>1. n \in Names /\ n # Out(0) /\ Serves(n) /\ OwnOf(n, inputs') = OwnOf(n, inputs)
    BY <1>1, NamesAre DEF IInv, layout
  <2>2. seen' \subseteq seen
    BY <1>1
  <2>3. QED
    BY <1>1, <1>2, <1>7, <2>1, <2>2, ServesStays
<1>10. QED
  BY <1>1, <1>2, <1>4, <1>7, <1>8, <1>9, Hearing

LEMMA EdgeAddedKeeps ==
  ASSUME IInv, EdgeAdded
  PROVE  IInv'
<1>1. PICK m : m = Named
  OBVIOUS
<1>2. PICK es : es = [edges EXCEPT ![m].asked = FALSE]
  OBVIOUS
<1>3. /\ Hear("added") /\ m \in Names
      /\ UNCHANGED <<there, seen, layout, again, raced, events>>
      /\ edges' = IF WireMuted(m) THEN Muted(es, m, TRUE) ELSE es
      /\ EdgesOK(edges) /\ InputsOK(inputs) /\ news \in Seq(Words) /\ m \notin Devices
      /\ again' \in BOOLEAN
  BY <1>1, <1>2, NamesAssumption DEF EdgeAdded, IInv, Shape
<1>4. edges[m] \in EdgeType /\ EdgeOK(m, edges[m]) /\ edges \in [Names -> EdgeType]
  BY <1>3 DEF EdgesOK, EdgeOK
<1>5. edges[m].state # "loading"
  <2>1. news[1] = <<"added", m>> /\ 1 \in DOMAIN news
    BY <1>1, <1>3, Heard
  <2>2. QED
    BY <1>3, <2>1 DEF IInv, EdgeTold, Told, Later
<1>6. /\ es \in [Names -> EdgeType] /\ \A n \in Names : n # m => es[n] = edges[n]
      /\ es[m].state = edges[m].state /\ ~es[m].asked /\ es[m].ref = edges[m].ref
      /\ es[m].muted = edges[m].muted /\ es[m].aim = edges[m].aim
  BY <1>2, <1>3, <1>4 DEF EdgeType
<1>7. EdgesOK(es)
  <2>1. EdgeOK(m, es[m])
    BY <1>3, <1>4, <1>5, <1>6 DEF EdgeOK, InGraph
  <2>2. QED
    BY <1>3, <1>6, <2>1 DEF EdgesOK
<1>8. /\ EdgesOK(edges') /\ \A n \in Names : n # m => edges'[n] = edges[n]
      /\ edges'[m].state = edges[m].state /\ ~edges'[m].asked /\ edges'[m].ref = edges[m].ref
      /\ edges'[m].aim = edges[m].aim
      /\ edges[m].state = "up" =>
           (edges'[m].muted <=> WireMuted(m) \/ edges[m].muted)
  <2>1. CASE ~WireMuted(m)
    BY <1>3, <1>6, <1>7, <2>1
  <2>2. CASE WireMuted(m)
    <3> DEFINE fs == Muted(es, m, TRUE)
    <3>1. edges' = fs
      BY <1>3, <2>2
    <3>2. /\ EdgesOK(fs) /\ \A n \in Names : n # m => fs[n] = es[n]
          /\ fs[m] = IF es[m].state = "up" THEN [es[m] EXCEPT !.muted = TRUE] ELSE es[m]
      BY <1>3, <1>7, MutedIs
    <3> HIDE DEF fs
    <3>3. /\ EdgesOK(edges') /\ \A n \in Names : n # m => edges'[n] = es[n]
          /\ edges'[m] = IF es[m].state = "up" THEN [es[m] EXCEPT !.muted = TRUE] ELSE es[m]
      BY <3>2, <3>1
    <3>4. es[m] \in EdgeType
      BY <1>3, <1>6
    <3>5. /\ edges'[m].state = es[m].state /\ edges'[m].asked = es[m].asked
          /\ edges'[m].ref = es[m].ref /\ edges'[m].aim = es[m].aim
          /\ es[m].state = "up" => edges'[m].muted
      BY <3>3, <3>4 DEF EdgeType
    <3>6. QED
      BY <1>6, <2>2, <3>3, <3>5
  <2>3. QED
    BY <2>1, <2>2
<1>9. /\ EdgeTold(m)' /\ ~Told("added", m)'
      /\ edges[m].state = "none" => Told("removed", m)'
  BY <1>1, <1>3, <1>8, EdgeHeardUp DEF IInv
<1>10. ASSUME NEW n \in Names PROVE EdgeTold(n)'
  <2>1. CASE n = m
    BY <1>9, <2>1
  <2>2. CASE n # m
    <3>1. Mild(edges[n], edges'[n])
      BY <1>8, <2>2 DEF Mild
    <3>2. QED
      BY <1>1, <1>3, <2>2, <3>1, EdgeHeard DEF IInv
  <2>3. QED
    BY <2>1, <2>2
<1>11. Follows'
  <2>1. Target' = Target
    BY <1>3 DEF Target, layout
  <2>2. edges'[Out(0)].aim = edges[Out(0)].aim
    BY <1>8, NamesAre
  <2>3. \A x : Told("removed", x) => Told("removed", x)'
    BY <1>3, Heard
  <2>4. QED
    BY <2>1, <2>2, <2>3, AimKept DEF IInv
<1>12. ASSUME NEW n \in InNames PROVE Serves(n)'
  <2>1. OwnOf(n, inputs') = OwnOf(n, inputs) /\ n \in Names /\ Serves(n)
    BY <1>3, NamesAre DEF layout, IInv
  <2>2. CASE n # m
    <3>1. \A w : Told(w, n) => Told(w, n)'
      BY <1>1, <1>3, <2>2, Heard
    <3>2. QED
      BY <1>3, <1>8, <2>1, <2>2, <3>1, ServesStays
  <2>3. CASE n = m /\ edges[m].state = "up"
    <3>1. ASSUME NEW w \in OwnOf(n, inputs) PROVE w.muted <=> WireMuted(m)
      <4>1. w \in Range(inputs) /\ In(w.slug) = m /\ m \in InNames
        BY <2>3 DEF OwnOf
      <4>2. m \notin OutNames /\ m[2] = w.slug
        BY <4>1, NamesAre DEF OutNames
      <4>3. WireMuted(m) <=> \E u \in Range(inputs) : u.slug = w.slug /\ u.muted
        BY <4>1, <4>2 DEF WireMuted, Range
      <4>4. QED
        BY <1>3, <4>1, <4>3, WiresAre
    <3>2. n \notin raced => /\ \E w \in OwnOf(n, inputs) : edges[n].ref = w.ref
                            /\ \A w \in OwnOf(n, inputs) : edges[n].muted => w.muted
      BY <2>1, <2>3 DEF Serves, OwnOf
    <3>3. n \notin raced => /\ \E w \in OwnOf(n, inputs) : edges'[n].ref = w.ref
                            /\ \A w \in OwnOf(n, inputs) : edges'[n].muted <=> w.muted
      BY <1>8, <2>3, <3>1, <3>2
    <3>4. edges'[n].state = "up" /\ raced' = raced
      BY <1>3, <1>8, <2>3
    <3>5. QED
      BY <2>1, <3>3, <3>4 DEF Serves, OwnOf
  <2>4. CASE n = m /\ edges[m].state # "up"
    <3>1. edges'[n].state \notin {"up", "loading"}
      BY <1>5, <1>8, <2>4
    <3>2. edges'[n].state = "none" => Told("removed", n)'
      BY <1>8, <1>9, <2>4
    <3>3. QED
      BY <3>1, <3>2 DEF Serves
  <2>5. QED
    BY <2>2, <2>3, <2>4
<1>13. seen' = IF Named \notin Devices THEN seen
               ELSE IF "added" = "added" THEN seen \cup {Named} ELSE seen \ {Named}
  BY <1>1, <1>3
<1>14. QED
  BY <1>3, <1>8, <1>10, <1>11, <1>12, <1>13, Hearing

LEMMA EdgeRemovedKeeps ==
  ASSUME IInv, EdgeRemoved
  PROVE  IInv'
<1>1. PICK m : m = Named
  OBVIOUS
<1>2. /\ Hear("removed") /\ m \in Names /\ again' = TRUE
      /\ UNCHANGED <<there, seen, layout, edges, raced, events>>
      /\ EdgesOK(edges) /\ news \in Seq(Words) /\ m \notin Devices
  BY <1>1, NamesAssumption DEF EdgeRemoved, IInv, Shape
<1>3. /\ \A x : Told("added", x) => Told("added", x)'
      /\ \A w, x : Told(w, x) /\ x # m => Told(w, x)'
  BY <1>1, <1>2, Heard
<1>4. ASSUME NEW n \in Names PROVE EdgeTold(n)'
  <2>1. Mild(edges[n], edges'[n])
    BY <1>2 DEF Mild
  <2>2. QED
    BY <1>2, <2>1, EdgeHeard DEF IInv
<1>5. Follows'
  <2>1. Target' = Target /\ (Target \in Devices => Target # m)
    BY <1>2 DEF Target, layout
  <2>2. QED
    BY <1>2, <1>3, <2>1, AimKept DEF IInv
<1>6. ASSUME NEW n \in InNames PROVE Serves(n)'
  <2>1. OwnOf(n, inputs') = OwnOf(n, inputs) /\ Serves(n)
    BY <1>2 DEF layout, IInv
  <2>2. QED
    BY <1>2, <1>3, <2>1, ServesStays
<1>7. seen' = IF Named \notin Devices THEN seen
              ELSE IF "removed" = "added" THEN seen \cup {Named} ELSE seen \ {Named}
  BY <1>1, <1>2
<1>8. QED
  BY <1>2, <1>4, <1>5, <1>6, <1>7, Hearing

LEMMA LookAgainKeeps ==
  ASSUME IInv, LookAgain
  PROVE  IInv'
<1>1. PICK es : es = EnsureEdges(edges, outputs, inputs, seen)
  OBVIOUS
<1>2. /\ again' = FALSE /\ UNCHANGED <<there, seen, layout, news, raced, events>>
      /\ edges' = ApplyFallbacks(es, outputs, fallback, seen)
      /\ EdgesOK(edges) /\ OutputsOK(outputs) /\ InputsOK(inputs) /\ seen \in SUBSET Devices
      /\ fallback \in Devices \cup {None} /\ events' \in 0..MaxEvents
  BY <1>1 DEF LookAgain, IInv, Shape
<1>3. /\ EdgesOK(es) /\ MildAll(edges, es)
      /\ \A n \in InNames : Asked(n, edges[n], es[n], Range(inputs), seen)
  BY <1>1, <1>2, EnsureEdgesIs
<1>4. /\ EdgesOK(edges') /\ MildAll(es, edges') /\ AimOK(edges', Target, seen)
      /\ \A n \in Names : n # Out(0) => edges'[n] = es[n]
  BY <1>2, <1>3, ApplyIs DEF Target
<1>5. MildAll(edges, edges')
  BY <1>3, <1>4, MildIsTransitive
<1>6. Follows'
  <2>1. \A d \in Devices : DeviceTold(d)'
    BY <1>2, Unheard
  <2>2. Target' = Target
    BY <1>2 DEF Target, layout
  <2>3. AimOK(edges', Target', seen') /\ there' = there /\ seen' \in SUBSET Devices
    BY <1>2, <1>4, <2>2
  <2>4. QED
    BY <2>1, <2>3, AimApplied
<1>7. \A n \in InNames : Asked(n, edges[n], edges'[n], Range(inputs), seen)
  BY <1>3, <1>4, NamesAre
<1>8. QED
  BY <1>2, <1>4, <1>5, <1>6, <1>7, OutputCommand DEF layout

-----------------------------------------------------------------------------
(* The invariant                                                           *)

LEMMA Start == Init => IInv
<1> SUFFICES ASSUME Init PROVE IInv
  OBVIOUS
<1>1. /\ there \subseteq Devices /\ seen = there /\ outputs = <<>> /\ fallback = None
      /\ inputs = <<>> /\ news = <<>> /\ ~again /\ raced = {} /\ events = 0
      /\ again \in BOOLEAN
      /\ edges = [n \in Names |-> IF n = Out(0) THEN [Absent EXCEPT !.state = "up"]
                                                ELSE Absent]
  BY DEF Init
<1>2. ASSUME NEW n \in Names
      PROVE  /\ EdgeOK(n, edges[n]) /\ ~edges[n].asked /\ edges[n].aim = None
             /\ edges[n].state = IF n = Out(0) THEN "up" ELSE "none"
  <2>1. edges[n] = IF n = Out(0) THEN [Absent EXCEPT !.state = "up"] ELSE Absent
    BY <1>1
  <2>2. edges[n] = [state |-> IF n = Out(0) THEN "up" ELSE "none", ref |-> Parked,
                    aim |-> None, muted |-> FALSE, asked |-> FALSE]
    BY <2>1 DEF Absent
  <2>3. edges[n] \in EdgeType
    BY <2>2 DEF EdgeType
  <2>4. QED
    BY <2>2, <2>3 DEF EdgeOK
<1>3. EdgesOK(edges)
  <2>1. edges \in [Names -> EdgeType]
    BY <1>1, <1>2 DEF EdgeOK
  <2>2. QED
    BY <1>2, <2>1 DEF EdgesOK
<1>4. \A i, w, x : ~Later(i, w, x) /\ ~Told(w, x)
  BY <1>1 DEF Later, Told
<1>5. Shape
  BY <1>1, <1>3, DevicesAssumption DEF Shape, OutputsOK, InputsOK
<1>6. \A d \in Devices : DeviceTold(d)
  BY <1>1 DEF DeviceTold
<1>7. \A n \in Names : EdgeTold(n)
  BY <1>1, <1>2, <1>4 DEF EdgeTold
<1>8. Follows
  BY <1>2, NamesAre DEF Follows
<1>9. ASSUME NEW n \in InNames PROVE Serves(n)
  <2>1. Range(inputs) = {}
    BY <1>1 DEF Range
  <2>2. edges[n].state = "none"
    BY <1>2, <1>9, NamesAre
  <2>3. QED
    BY <2>1, <2>2 DEF Serves
<1>10. QED
  BY <1>5, <1>6, <1>7, <1>8, <1>9 DEF IInv

LEMMA Idle ==
  ASSUME IInv, UNCHANGED vars
  PROVE  IInv'
<1>1. /\ UNCHANGED <<there, seen, inputs, news, raced>>
      /\ UNCHANGED <<outputs, fallback, edges, again, events>>
  BY DEF vars, layout
<1>2. Shape /\ Follows
  BY DEF IInv
<1>3. MildAll(edges, edges')
  BY <1>1 DEF MildAll, Mild
<1>4. Follows'
  <2>1. Target' = Target
    BY <1>1 DEF Target
  <2>2. QED
    BY <1>1, <1>2, <2>1, Unheard, AimKept
<1>5. QED
  BY <1>1, <1>2, <1>3, <1>4, OutputCommand DEF Shape

LEMMA Step == IInv /\ [Next]_vars => IInv'
<1> SUFFICES ASSUME IInv, [Next]_vars PROVE IInv'
  OBVIOUS
<1>1. CASE Commands
  <2>1. ASSUME NEW ref \in OutRefs, SetOutputDevice(ref) \/ AddOutput(ref) \/ RemoveOutput(ref)
        PROVE  IInv'
    BY <2>1, SetOutputDeviceKeeps, OtherOutputsKeep
  <2>2. CASE \E ref \in OutRefs, on \in BOOLEAN : MuteOutput(ref, on)
    BY <2>2, MuteOutputKeeps
  <2>3. CASE ClearOutputs
    BY <2>3, OtherOutputsKeep
  <2>4. CASE \E d \in Nodes(OutRefs) \cup {None} : d # fallback /\ SetFallback(d)
    BY <2>4, SetFallbackKeeps
  <2>5. ASSUME NEW ref \in InRefs,
               SetInputDevice(ref) \/ AddChannelInput(ref) \/ RemoveChannelInput(ref)
        PROVE  IInv'
    BY <2>5, SetInputDeviceKeeps, AddChannelInputKeeps, RemoveChannelInputKeeps
  <2>6. CASE \E ref \in InRefs, on \in BOOLEAN : MuteInput(ref, on)
    BY <2>6, MuteInputKeeps
  <2>7. CASE ClearInputDevice
    BY <2>7, ClearInputDeviceKeeps
  <2>8. CASE \E sink \in OutRefs, source \in InRefs : sink.ports = Whole /\ FirstRun(sink, source)
    BY <2>8, FirstRunKeeps
  <2>9. QED
    BY <1>1, <2>1, <2>2, <2>3, <2>4, <2>5, <2>6, <2>7, <2>8 DEF Commands
<1>2. CASE Hears
  BY <1>2, DeviceAddedKeeps, DeviceRemovedKeeps, EdgeAddedKeeps, EdgeRemovedKeeps,
     LookAgainKeeps DEF Hears
<1>3. CASE \E d \in Devices : DeviceArrives(d) \/ DeviceLeaves(d)
  BY <1>3, DeviceArrivesKeeps, DeviceLeavesKeeps
<1>4. CASE \E n \in Names : EdgeArrives(n) \/ EdgeLeaves(n)
  BY <1>4, EdgeArrivesKeeps, EdgeLeavesKeeps
<1>5. CASE UNCHANGED vars
  BY <1>5, Idle
<1>6. QED
  BY <1>1, <1>2, <1>3, <1>4, <1>5 DEF Next

\* The invariant holds in every state.
THEOREM Invariance == Spec => []IInv
<1>1. QED
  BY Start, Step, PTL DEF Spec

\* The types: no number is given to two wires, an input edge is never moved, and
\* what is loading has been asked for.
THEOREM TypeCorrect == Spec => []TypeOK
<1>1. IInv => TypeOK
  BY ShapeTyped DEF IInv
<1>2. QED
  BY <1>1, Invariance, PTL

\* When all has been heard, the Mixer knows what is there.
LEMMA Known ==
  ASSUME IInv, Quiet
  PROVE  seen = there /\ \A w, x : ~Told(w, x)
<1>1. \A w, x : ~Told(w, x)
  BY DEF Quiet, Told, Later
<1>2. \A d \in Devices : d \in seen <=> d \in there
  BY <1>1 DEF IInv, DeviceTold
<1>3. seen \subseteq Devices /\ there \subseteq Devices
  BY DEF IInv, Shape
<1>4. QED
  BY <1>1, <1>2, <1>3

\* DV-12, DV-15: the mix plays on the first of its outputs that is plugged in,
\* else on its fallback, else nowhere (applyFallbacks()).
THEOREM MixOnItsOutput == Spec => []MixFollows
<1>1. ASSUME IInv, Quiet
      PROVE  edges[Out(0)].aim \in {None, Pick(outputs, fallback, there)}
  BY <1>1, Known DEF IInv, Follows, Target
<1>2. IInv => MixFollows
  BY <1>1 DEF MixFollows
<1>3. QED
  BY <1>2, Invariance, PTL

\* DV-12, DV-14, DV-25: an input edge carries the wire of its slug, with its mute,
\* and every wire whose device is plugged in has its edge.
THEOREM ChannelHears == Spec => []WiresServe
<1>1. ASSUME IInv, Quiet, NEW n \in InNames \ raced
      PROVE  LET own == {k \in DOMAIN inputs : In(inputs[k].slug) = n}
             IN  /\ edges[n].state = "up" =>
                      \E k \in own : /\ edges[n].ref = inputs[k].ref
                                     /\ edges[n].muted = inputs[k].muted
                 /\ \A k \in own : inputs[k].ref.node \in there => edges[n].state = "up"
  <2> DEFINE own == {k \in DOMAIN inputs : In(inputs[k].slug) = n}
  <2>1. /\ n \in Names /\ Serves(n) /\ ~again /\ edges[n] \in EdgeType /\ InputsOK(inputs)
        /\ seen = there /\ (\A w, x : ~Told(w, x)) /\ edges[n].state \in {"none", "up"}
    BY <1>1, Known, NamesAre DEF IInv, Shape, EdgesOK, Quiet
  <2>2. \A k \in own : inputs[k] \in OwnOf(n, inputs)
    BY DEF OwnOf, Range
  <2>3. \A w \in OwnOf(n, inputs) : \E k \in own : w = inputs[k]
    BY DEF OwnOf, Range
  <2>4. ASSUME edges[n].state = "up"
        PROVE  \E k \in own : edges[n].ref = inputs[k].ref /\ edges[n].muted = inputs[k].muted
    <3>1. /\ \E w \in OwnOf(n, inputs) : edges[n].ref = w.ref
          /\ \A w \in OwnOf(n, inputs) : edges[n].muted <=> w.muted
      BY <1>1, <2>1, <2>4 DEF Serves, OwnOf
    <3>2. PICK k \in own : edges[n].ref = inputs[k].ref
      BY <2>3, <3>1
    <3>3. edges[n].muted <=> inputs[k].muted
      BY <2>2, <3>1
    <3>4. edges[n].muted \in BOOLEAN /\ inputs[k].muted \in BOOLEAN
      <4>1. inputs[k] \in Socket
        BY <2>1 DEF InputsOK
      <4>2. QED
        BY <2>1, <4>1, Zenon DEF EdgeType, Socket
    <3>5. QED
      BY <3>2, <3>3, <3>4
  <2>5. ASSUME NEW k \in own, inputs[k].ref.node \in there PROVE edges[n].state = "up"
    BY <2>1, <2>2, <2>5 DEF Serves, OwnOf
  <2>6. QED
    BY <2>4, <2>5
<1>2. IInv => WiresServe
  BY <1>1 DEF WiresServe
<1>3. QED
  BY <1>2, Invariance, PTL

-----------------------------------------------------------------------------
(* A removal takes one wire                                                *)

One(b) == IF b THEN 1 ELSE 0
At(ins, ref) == {k \in DOMAIN ins : ins[k].ref = ref}

LEMMA AtIsFinite ==
  ASSUME NEW ins, InputsOK(ins), NEW ref
  PROVE  IsFiniteSet(At(ins, ref)) /\ Cardinality(At(ins, ref)) \in Nat
<1>1. IsFiniteSet(1..Len(ins)) /\ DOMAIN ins = 1..Len(ins)
  <2>1. Len(ins) \in Nat /\ DOMAIN ins = 1..Len(ins)
    BY DEF InputsOK
  <2>2. QED
    BY <2>1, FS_Interval
<1>2. At(ins, ref) \in SUBSET (1..Len(ins))
  BY <1>1 DEF At
<1>3. QED
  BY <1>1, <1>2, FS_Subset, FS_CardinalityType

LEMMA CountIs ==
  ASSUME NEW ins, NEW ref
  PROVE  Count(ins, ref) = Cardinality(At(ins, ref))
BY DEF Count, At

LEMMA CountDropped ==
  ASSUME NEW ins, InputsOK(ins), NEW k \in DOMAIN ins, NEW ref
  PROVE  /\ Count(Drop(ins, ins[k].slug), ref) = Count(ins, ref) - One(ins[k].ref = ref)
         /\ Count(ins, ref) \in Nat
<1> DEFINE m == ins[k].slug
           some == {q \in DOMAIN ins : ins[q].slug # m}
           S == At(ins, ref) \ {k}
<1>1. PICK t : t = Drop(ins, m)
  OBVIOUS
<1>2. PICK e : InputsOK(t) /\ Embeds(e, t, ins, some)
  BY <1>1, DropIs
<1>3. \A q \in DOMAIN ins : ins[q].slug = m <=> q = k
  BY DEF InputsOK
<1>4. S = {q \in some : ins[q].ref = ref}
  BY <1>3 DEF At
<1> DEFINE T == At(t, ref)
           g == [i \in T |-> e[i]]
<1>5. g \in Bijection(T, S)
  <2>1. g \in [T -> S]
    BY <1>2, <1>4 DEF Embeds, At
  <2>2. \A i, j \in T : g[i] = g[j] => i = j
    BY <1>2 DEF Embeds, At
  <2>3. ASSUME NEW q \in S PROVE \E i \in T : g[i] = q
    <3>1. q \in some /\ ins[q].ref = ref
      BY <1>4
    <3>2. PICK i \in DOMAIN t : e[i] = q
      BY <1>2, <3>1 DEF Embeds
    <3>3. i \in T
      BY <1>2, <3>1, <3>2 DEF Embeds, At
    <3>4. QED
      BY <3>2, <3>3
  <2> HIDE DEF T, S, g
  <2>4. QED
    BY <2>1, <2>2, <2>3 DEF Bijection, Injection, Surjection, IsInjective
<1>6. IsFiniteSet(T) /\ IsFiniteSet(At(ins, ref)) /\ Cardinality(At(ins, ref)) \in Nat
  BY <1>2, AtIsFinite
<1>7. Cardinality(S) = Cardinality(T)
  <2>1. ExistsBijection(T, S)
    BY <1>5 DEF ExistsBijection
  <2> HIDE DEF T, S
  <2>2. QED
    BY <1>6, <2>1, FS_Bijection
<1>8. Cardinality(S) = IF k \in At(ins, ref) THEN Cardinality(At(ins, ref)) - 1
                                             ELSE Cardinality(At(ins, ref))
  BY <1>6, FS_RemoveElement
<1>9. k \in At(ins, ref) <=> ins[k].ref = ref
  BY DEF At
<1> HIDE DEF T, S, m
<1>10. Count(t, ref) = Cardinality(T) /\ Count(ins, ref) = Cardinality(At(ins, ref))
  BY CountIs DEF T
<1>11. Cardinality(S) = Cardinality(At(ins, ref)) - One(ins[k].ref = ref)
  BY <1>6, <1>8, <1>9 DEF One
<1>12. Count(t, ref) = Count(ins, ref) - One(ins[k].ref = ref)
  BY <1>7, <1>10, <1>11
<1>13. QED
  BY <1>1, <1>6, <1>10, <1>12 DEF m

LEMMA CountRewired ==
  ASSUME NEW ins, InputsOK(ins), NEW k \in DOMAIN ins, NEW v, v.slug = ins[k].slug, NEW ref
  PROVE  Count(Rewired(ins, v), ref) = Count(ins, ref) - One(ins[k].ref = ref) + One(v.ref = ref)
<1>1. PICK t : t = Rewired(ins, v)
  OBVIOUS
<1>2. \A q \in DOMAIN ins : ins[q].slug = v.slug <=> q = k
  BY DEF InputsOK
<1>3. DOMAIN t = DOMAIN ins /\ \A q \in DOMAIN ins : t[q] = IF q = k THEN v ELSE ins[q]
  BY <1>1, <1>2 DEF Rewired
<1>4. PICK S : S = At(ins, ref) \ {k}
  OBVIOUS
<1>5. IsFiniteSet(At(ins, ref)) /\ Cardinality(At(ins, ref)) \in Nat
  BY AtIsFinite
<1>6. IsFiniteSet(S) /\ Cardinality(S) = Cardinality(At(ins, ref)) - One(ins[k].ref = ref)
  <2>1. k \in At(ins, ref) <=> ins[k].ref = ref
    BY DEF At
  <2>2. QED
    BY <1>4, <1>5, <2>1, FS_RemoveElement DEF One
<1>7. At(t, ref) = IF v.ref = ref THEN S \cup {k} ELSE S
  BY <1>3, <1>4 DEF At
<1>8. Cardinality(At(t, ref)) = Cardinality(S) + One(v.ref = ref)
  <2>1. CASE v.ref = ref
    BY <1>4, <1>6, <1>7, <2>1, FS_AddElement DEF One
  <2>2. CASE v.ref # ref
    <3>1. At(t, ref) = S /\ One(v.ref = ref) = 0
      BY <1>7, <2>2 DEF One
    <3>2. Cardinality(S) \in Int
      BY <1>5, <1>6 DEF One
    <3>3. QED
      BY <3>1, <3>2
  <2>3. QED
    BY <2>1, <2>2
<1>9. Count(t, ref) = Cardinality(At(t, ref)) /\ Count(ins, ref) = Cardinality(At(ins, ref))
  BY CountIs
<1>10. QED
  BY <1>1, <1>6, <1>8, <1>9

\* Taking a wire away takes it, or it takes the one that becomes the primary and
\* makes it the primary.
LEMMA RemovalTakesOne ==
  ASSUME Shape, NEW r \in InRefs, RemoveChannelInput(r),
         \A k \in DOMAIN inputs : Valid(inputs[k].ref), NEW q \in InRefs
  PROVE  Count(inputs', q) = Count(inputs, q) - One(q = r)
<1>1. InputsOK(inputs)
  BY DEF Shape
<1>2. PICK k \in DOMAIN inputs :
        /\ inputs[k].ref = r
        /\ \/ RemoveInput(inputs[k].slug)
           \/ /\ inputs[k].slug = 0 /\ Drop(inputs, 0) # <<>>
              /\ \E w \in Range(inputs) : w.slug # 0 /\ Promote(w) /\ Raced({In(0), In(w.slug)})
  BY <1>1, Removal
<1>3. One(inputs[k].ref = q) = One(q = r)
  BY <1>2 DEF One
<1>4. CASE RemoveInput(inputs[k].slug)
  <2>1. inputs' = Drop(inputs, inputs[k].slug)
    BY <1>4 DEF RemoveInput
  <2>2. QED
    BY <1>1, <1>3, <2>1, CountDropped
<1>5. ASSUME NEW w \in Range(inputs), w.slug # 0, Promote(w), inputs[k].slug = 0
      PROVE  Count(inputs', q) = Count(inputs, q) - One(q = r)
  <2>1. PICK j \in DOMAIN inputs : inputs[j] = w
    BY DEF Range
  <2>2. PICK left : left = Drop(inputs, w.slug)
    OBVIOUS
  <2>3. PICK es : es = Destroyed(edges, {In(w.slug)})
    OBVIOUS
  <2>4. Primary(es, left, w.ref)
    BY <1>5, <2>1, <2>2, <2>3 DEF Promote
  <2>5. /\ Count(left, q) = Count(inputs, q) - One(w.ref = q) /\ Count(inputs, q) \in Nat
        /\ InputsOK(left) /\ Range(left) = {v \in Range(inputs) : v.slug # w.slug}
    BY <1>1, <2>1, <2>2, CountDropped, DropIs
  <2>6. inputs[k] \in Range(left)
    BY <1>5, <2>5 DEF Range
  <2>7. PICK p \in DOMAIN left : left[p] = inputs[k]
    BY <2>6 DEF Range
  <2>8. left[p].slug = 0 /\ left[p].ref = r
    BY <1>2, <1>5, <2>7
  <2>9. CASE inputs' = left /\ \E n \in DOMAIN left : left[n].slug = 0 /\ left[n].ref = w.ref
    <3>1. w.ref = r
      BY <2>5, <2>8, <2>9 DEF InputsOK
    <3>2. One(w.ref = q) = One(q = r)
      BY <3>1 DEF One
    <3>3. QED
      BY <2>5, <2>9, <3>2
  <2>10. CASE inputs' = [n \in DOMAIN left |-> IF left[n].slug = 0
                                                 THEN Input(0, w.ref) ELSE left[n]]
    <3>1. PICK v : v = Input(0, w.ref)
      OBVIOUS
    <3>2. v.slug = 0 /\ v.ref = w.ref
      BY <3>1 DEF Input
    <3>3. inputs' = Rewired(left, v)
      BY <2>10, <3>1, <3>2 DEF Rewired
    <3>4. Count(inputs', q) = Count(left, q) - One(left[p].ref = q) + One(v.ref = q)
      BY <2>5, <2>8, <3>2, <3>3, CountRewired
    <3>5. One(left[p].ref = q) = One(q = r) /\ One(v.ref = q) = One(w.ref = q)
      BY <2>8, <3>2 DEF One
    <3>6. One(w.ref = q) \in Int /\ One(q = r) \in Int
      BY DEF One
    <3>7. QED
      BY <2>5, <3>4, <3>5, <3>6
  <2>11. Has(left, 0)
    BY <2>8 DEF Has
  <2>12. QED
    BY <2>4, <2>9, <2>10, <2>11 DEF Primary
<1>6. QED
  BY <1>2, <1>4, <1>5

\* Removing a wire takes away that wire and no other, promoting the next one into
\* the primary slot where the primary goes (removeChannelInput()).
THEOREM RemovalTakesOneWire == Spec => RemovalIsExact
<1> DEFINE Exact == \A r \in InRefs :
                      /\ RemoveChannelInput(r)
                      /\ \A k \in DOMAIN inputs : Valid(inputs[k].ref)
                      => \A q \in InRefs :
                           Count(inputs', q) = Count(inputs, q) - (IF q = r THEN 1 ELSE 0)
<1>1. IInv => Exact
  <2> SUFFICES ASSUME IInv, NEW r \in InRefs, RemoveChannelInput(r),
                      \A k \in DOMAIN inputs : Valid(inputs[k].ref), NEW q \in InRefs
               PROVE  Count(inputs', q) = Count(inputs, q) - (IF q = r THEN 1 ELSE 0)
    OBVIOUS
  <2>1. Count(inputs', q) = Count(inputs, q) - One(q = r)
    BY RemovalTakesOne DEF IInv
  <2>2. QED
    BY <2>1 DEF One
<1>2. QED
  BY <1>1, Invariance, PTL DEF RemovalIsExact
=============================================================================
