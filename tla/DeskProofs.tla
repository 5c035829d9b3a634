------------------------------ MODULE DeskProofs ------------------------------
(***************************************************************************)
(* What holds of Desk for every finite set of channels and mixes, every    *)
(* layout to start with or to import, and any number of commands, edits of *)
(* the file and restarts: the state stays in its types, links join cells   *)
(* that exist, a restart loses nothing that was saved unless an edit of    *)
(* the file came between, an undo restores what was removed, and a recall  *)
(* is exact.                                                               *)
(*                                                                         *)
(* A recall writes the cells of a scene one after the other.  What it      *)
(* leaves behind is shown by induction over the cells written; induction   *)
(* is had from the well-founded order of the naturals, for a set of        *)
(* numbers at a time.                                                      *)
(***************************************************************************)
EXTENDS Desk, FiniteSetTheorems, WellFoundedInduction, TLAPS

\* Values for some cells.
IsScene(f) == DOMAIN f \subseteq Cells /\ f \in [DOMAIN f -> Values]

\* The cells and links that go with a channel or a mix.
CellsOf(kind, slug) == IF kind = "channel" THEN {slug} \X Mixes ELSE Channels \X {slug}
LinksOf(d, kind, slug) ==
  {l \in d.links : IF kind = "channel" THEN l.channel = slug ELSE slug \in {l.mix, l.follows}}

\* The snapshot of a removal holds what the removal took.
RemovalKept ==
  undo # None /\ undo.kind \in {"channel", "mix"} =>
    /\ undo.slug \in (IF undo.kind = "channel" THEN Channels ELSE Mixes)
    /\ undo.cells = [x \in CellsOf(undo.kind, undo.slug) |-> removed.cells[x]]
    /\ undo.links = LinksOf(removed, undo.kind, undo.slug)

ScenesOK ==
  /\ scenes = [s \in Scenes |-> scenes[s]]
  /\ \A s \in Scenes : scenes[s] # None => IsScene(scenes[s])
  /\ undo # None /\ undo.kind = "scene" => IsScene(undo.cells)

\* The links an undo brings back join what stands and what it brings back.
UndoJoins ==
  undo # None /\ undo.kind \in {"channel", "mix"} =>
    \A l \in undo.links :
      /\ l.channel \in desk.channels \cup Returning("channel")
      /\ {l.mix, l.follows} \subseteq desk.mixes \cup Returning("mix")
      /\ l.mix # l.follows

\* What the daemon wrote or took over last is what the desk shows; before its first save that
\* is the file it started from.
Saved ==
  ~saving =>
    /\ written # None => Live(written) = Live(desk)
    /\ written = None /\ foreign = None => Live(disk) = Live(desk)

\* Only an edit of the file makes the file differ from what was written.
Ours ==
  /\ foreign = None /\ written \in {None, disk}
  /\ Joined(desk) /\ Joined(disk) /\ UndoJoins

\* The invariant.
IInv ==
  /\ TypeOK /\ removed \in Layouts /\ ScenesOK /\ RemovalKept
  /\ ~astray => Ours
  /\ Saved
-----------------------------------------------------------------------------
(* Induction, and the largest number of a set                              *)

LEMMA NatSetInduction ==
  ASSUME NEW T, 0 \in T, \A n \in Nat : n \in T => n + 1 \in T
  PROVE  Nat \subseteq T
<1> DEFINE U == Nat \ T
<1> SUFFICES ASSUME U # {} PROVE FALSE
  OBVIOUS
<1>1. PICK x \in U : \A y \in U : ~(<<y, x>> \in OpToRel(<, Nat))
  <2>1. U \subseteq Nat
    OBVIOUS
  <2> HIDE DEF U
  <2>2. \E x \in U : \A y \in U : ~(<<y, x>> \in OpToRel(<, Nat))
    BY <2>1, NatLessThanWellFounded, WFMin
  <2>3. QED
    BY <2>2
<1>2. x - 1 \in U /\ x - 1 < x
  OBVIOUS
<1>3. <<x - 1, x>> \in OpToRel(<, Nat)
  BY <1>2 DEF OpToRel
<1>4. QED
  BY <1>1, <1>2, <1>3

LEMMA Largest ==
  ASSUME NEW k \in Nat, NEW s \in SUBSET (1..k), s # {}
  PROVE  Max(s) \in s /\ \A y \in s : y <= Max(s)
<1> DEFINE Has(t) == \E x \in t : \A y \in t : x >= y
           T == {n \in Nat : \A t \in SUBSET (1..n) : t # {} => Has(t)}
<1>1. 0 \in T
  <2>1. 1..0 = {}
    OBVIOUS
  <2>2. QED
    BY <2>1
<1>2. ASSUME NEW n \in Nat, n \in T PROVE n + 1 \in T
  <2> SUFFICES ASSUME NEW t \in SUBSET (1..(n + 1)), t # {} PROVE Has(t)
    OBVIOUS
  <2>1. CASE n + 1 \in t
    BY <2>1
  <2>2. CASE n + 1 \notin t
    <3>1. t \in SUBSET (1..n)
      BY <2>2
    <3>2. QED
      BY <1>2, <3>1
  <2>3. QED
    BY <2>1, <2>2
<1>3. k \in T
  <2> HIDE DEF T
  <2>1. Nat \subseteq T
    BY <1>1, <1>2, NatSetInduction
  <2>2. QED
    BY <2>1
<1>4. Has(s)
  BY <1>3
<1>5. QED
  BY <1>4 DEF Max

LEMMA LargestOfInterval ==
  ASSUME NEW k \in Nat \ {0}
  PROVE  Max(1..k) = k /\ (1..k) \ {k} = 1..(k - 1)
<1>1. 1..k \in SUBSET (1..k) /\ k \in 1..k
  OBVIOUS
<1>2. Max(1..k) \in 1..k /\ k <= Max(1..k)
  BY <1>1, Largest
<1>3. QED
  BY <1>2

-----------------------------------------------------------------------------
(* A recall, cell by cell                                                  *)

\* What the fold of SceneApplied makes of the cells whose indices are in s.
After(f, s, d, q, scene) ==
  IF s = {} THEN d ELSE Touched(f[s \ {Max(s)}], q[Max(s)], scene[q[Max(s)]])
IsFold(f, k, d, q, scene) ==
  f = [s \in SUBSET (1..k) |-> After(f, s, d, q, scene)]

LEMMA FoldExists ==
  ASSUME NEW d, NEW q, NEW scene, NEW k \in Nat
  PROVE  \E f : IsFold(f, k, d, q, scene)
<1> DEFINE T == {n \in Nat : \E f : IsFold(f, n, d, q, scene)}
<1>1. 0 \in T
  <2> DEFINE f == [s \in SUBSET (1..0) |-> d]
  <2>1. IsFold(f, 0, d, q, scene)
    BY DEF IsFold, After
  <2>2. QED
    BY <2>1
<1>2. ASSUME NEW n \in Nat, n \in T PROVE n + 1 \in T
  <2>1. PICK f : IsFold(f, n, d, q, scene)
    BY <1>2
  <2> DEFINE g == [s \in SUBSET (1..(n + 1)) |-> After(f, s, d, q, scene)]
  <2>2. ASSUME NEW s \in SUBSET (1..n)
        PROVE  s \in SUBSET (1..(n + 1)) /\ g[s] = f[s]
    BY <2>1 DEF IsFold
  <2>3. ASSUME NEW s \in SUBSET (1..(n + 1)), s # {}
        PROVE  s \ {Max(s)} \in SUBSET (1..n)
    <3>1. n + 1 \in Nat
      OBVIOUS
    <3>2. PICK m \in s : m = Max(s) /\ \A y \in s : y <= m
      BY <2>3, <3>1, Largest
    <3>3. ASSUME NEW y \in s, y # m PROVE y \in 1..n
      <4>1. y \in 1..(n + 1) /\ m \in 1..(n + 1) /\ y <= m
        BY <3>2
      <4>2. QED
        BY <3>3, <4>1
    <3>4. QED
      BY <3>2, <3>3
  <2> HIDE DEF g
  <2>4. ASSUME NEW s \in SUBSET (1..(n + 1))
        PROVE  After(f, s, d, q, scene) = After(g, s, d, q, scene)
    BY <2>2, <2>3 DEF After
  <2>5. IsFold(g, n + 1, d, q, scene)
    BY <2>4 DEF g, IsFold
  <2>6. QED
    BY <2>5
<1>3. Nat \subseteq T
  <2> HIDE DEF T
  <2>1. QED
    BY <1>1, <1>2, NatSetInduction
<1>4. QED
  BY <1>3

\* The layouts a recall goes through, one for every cell it has written.
IsRecall(after, n, q, d, scene) ==
  /\ after[0] = d
  /\ \A i \in 1..n : after[i] = Touched(after[i - 1], q[i], scene[q[i]])

LEMMA RecallSteps ==
  ASSUME NEW d \in Layouts, NEW scene, IsScene(scene)
  PROVE  \E n, q, after :
           /\ n \in Nat /\ q \in [1..n -> DOMAIN scene \cap Standing(d)]
           /\ \A i, j \in 1..n : q[i] = q[j] => i = j
           /\ \A x \in DOMAIN scene \cap Standing(d) : \E i \in 1..n : q[i] = x
           /\ IsRecall(after, n, q, d, scene)
           /\ SceneApplied(d, scene) = after[n]
<1> DEFINE S == DOMAIN scene \cap Standing(d)
           n == Cardinality(S)
           q == SetToSeq(S)
<1>1. IsFiniteSet(S)
  <2>1. IsFiniteSet(Cells)
    BY DeskAssumption, FS_Product DEF DeskAssumption, Cells
  <2>2. S \in SUBSET Cells
    BY DEF IsScene
  <2>3. QED
    BY <2>1, <2>2, FS_Subset
<1>2. n \in Nat /\ \E f \in [1..n -> S] : IsInjective(f) /\ \A x \in S : \E i \in 1..n : f[i] = x
  <2>1. n \in Nat /\ ExistsBijection(1..n, S)
    BY <1>1, FS_CardinalityType
  <2>2. QED
    BY <2>1 DEF ExistsBijection, Bijection, Injection, Surjection, IsInjective
<1>3. q \in [1..n -> S] /\ IsInjective(q)
  BY <1>2 DEF SetToSeq
<1>4. \A x \in S : \E i \in 1..n : q[i] = x
  <2>1. q \in Injection(1..n, S)
    BY <1>3 DEF Injection
  <2>2. Cardinality(1..n) = n
    <3> HIDE DEF n
    <3>1. QED
      BY <1>2, FS_Interval
  <2>3. q \in Surjection(1..n, S)
    BY <1>1, <2>1, <2>2, FS_Injection
  <2>4. QED
    BY <2>3 DEF Surjection
<1> DEFINE iter == CHOOSE f : f = [s \in SUBSET DOMAIN q |-> After(f, s, d, q, scene)]
<1>5. SceneApplied(d, scene) = iter[DOMAIN q]
  BY DEF SceneApplied, FoldLeft, MapThenFoldSet, After
<1>6. DOMAIN q = 1..n
  BY <1>3
<1>7. IsFold(iter, n, d, q, scene)
  <2>1. \E f : IsFold(f, n, d, q, scene)
    BY <1>2, FoldExists
  <2>2. \E f : f = [s \in SUBSET DOMAIN q |-> After(f, s, d, q, scene)]
    BY <1>6, <2>1 DEF IsFold
  <2>3. iter = [s \in SUBSET DOMAIN q |-> After(iter, s, d, q, scene)]
    BY <2>2
  <2>4. QED
    BY <1>6, <2>3 DEF IsFold
<1> DEFINE after == [i \in 0..n |-> iter[1..i]]
<1> HIDE DEF iter, n, q
<1>8. IsRecall(after, n, q, d, scene)
  <2>1. after[0] = d
    <3>1. after[0] = iter[{}] /\ {} \in SUBSET (1..n)
      BY <1>2
    <3>2. QED
      BY <1>7, <3>1 DEF IsFold, After
  <2>2. ASSUME NEW i \in 1..n
        PROVE  after[i] = Touched(after[i - 1], q[i], scene[q[i]])
    <3>1. after[i] = iter[1..i] /\ after[i - 1] = iter[1..(i - 1)]
      BY <1>2
    <3>2. 1..i \in SUBSET (1..n) /\ 1 \in 1..i /\ i \in Nat \ {0}
      BY <1>2
    <3>3. iter[1..i] = After(iter, 1..i, d, q, scene)
      BY <1>7, <3>2 DEF IsFold
    <3>4. QED
      BY <3>1, <3>2, <3>3, LargestOfInterval DEF After
  <2>3. QED
    BY <2>1, <2>2 DEF IsRecall
<1>9. SceneApplied(d, scene) = after[n]
  BY <1>2, <1>5, <1>6
<1>10. \A i, j \in 1..n : q[i] = q[j] => i = j
  BY <1>3, <1>6 DEF IsInjective
<1>11. /\ n \in Nat /\ q \in [1..n -> S]
       /\ \A x \in S : \E i \in 1..n : q[i] = x
  BY <1>2, <1>3, <1>4
<1> HIDE DEF after, S
<1>12. \E m, r, a :
         /\ m \in Nat /\ r \in [1..m -> S]
         /\ \A i, j \in 1..m : r[i] = r[j] => i = j
         /\ \A x \in S : \E i \in 1..m : r[i] = x
         /\ IsRecall(a, m, r, d, scene)
         /\ SceneApplied(d, scene) = a[m]
  BY <1>8, <1>9, <1>10, <1>11
<1>13. QED
  BY <1>12 DEF S
-----------------------------------------------------------------------------
(* Writing cells                                                           *)

LEMMA UnlinkedType ==
  ASSUME NEW d \in Layouts, NEW cell
  PROVE  LET e == Unlinked(d, cell) IN
         /\ e \in Layouts
         /\ e.channels = d.channels /\ e.mixes = d.mixes /\ e.cells = d.cells
         /\ e.links = {l \in d.links : <<l.channel, l.mix>> # cell}
         /\ Joined(d) => Joined(e)
BY DEF Unlinked, Layouts, Joined, Standing

\* The followers of a cell get its value, nothing else changes.
LEMMA PropagatedType ==
  ASSUME NEW d \in Layouts, NEW cell \in Cells
  PROVE  LET e == Propagated(d, cell) IN
         /\ e \in Layouts
         /\ e.channels = d.channels /\ e.mixes = d.mixes /\ e.links = d.links
         /\ e.default = d.default
         /\ \A x \in Cells : x \notin Followers(d, cell) => e.cells[x] = d.cells[x]
BY DEF Propagated, Layouts

\* A write reaches the cell itself and cells that have a link, nobody else; it
\* takes the cell's own links, and only those.
LEMMA TouchedType ==
  ASSUME NEW d \in Layouts, NEW cell \in Cells, NEW value \in Values
  PROVE  LET e == Touched(d, cell, value) IN
         /\ e \in Layouts /\ e.channels = d.channels /\ e.mixes = d.mixes
         /\ e.links = {l \in d.links : <<l.channel, l.mix>> # cell}
         /\ e.cells[cell] = value
         /\ \A x \in Cells : x # cell /\ (\A l \in d.links : <<l.channel, l.mix>> # x) =>
              e.cells[x] = d.cells[x]
<1> DEFINE u == Unlinked(d, cell)
           w == [u EXCEPT !.cells[cell] = value]
           e == Touched(d, cell, value)
<1>1. /\ u \in Layouts /\ u.links = {l \in d.links : <<l.channel, l.mix>> # cell}
      /\ u.channels = d.channels /\ u.mixes = d.mixes /\ u.cells = d.cells
  BY UnlinkedType DEF Layouts
<1> HIDE DEF u
<1>2. /\ w \in Layouts /\ w.links = u.links /\ w.channels = u.channels /\ w.mixes = u.mixes
      /\ w.cells[cell] = value /\ \A x \in Cells : x # cell => w.cells[x] = u.cells[x]
  BY <1>1 DEF Layouts
<1>3. e = Propagated(w, cell)
  BY DEF Touched, u
<1> HIDE DEF w, e
<1>4. /\ e \in Layouts /\ e.channels = w.channels /\ e.mixes = w.mixes /\ e.links = w.links
      /\ \A x \in Cells : x \notin Followers(w, cell) => e.cells[x] = w.cells[x]
  BY <1>2, <1>3, PropagatedType
<1>5. cell \notin Followers(w, cell)
      /\ \A x : (\A l \in d.links : <<l.channel, l.mix>> # x) => x \notin Followers(w, cell)
  BY <1>1, <1>2 DEF Followers
<1>6. QED
  BY <1>1, <1>2, <1>4, <1>5 DEF e

\* A recall writes the cells the scene names and no others by hand: it adds no
\* link, leaves channels and mixes alone, and every cell it names ends with the
\* value of the scene, since a cell that was written follows nobody any more.
LEMMA SceneAppliedType ==
  ASSUME NEW d \in Layouts, NEW scene, IsScene(scene)
  PROVE  LET e == SceneApplied(d, scene) IN
         /\ e \in Layouts /\ e.channels = d.channels /\ e.mixes = d.mixes
         /\ e.links \subseteq d.links
         /\ \A x \in DOMAIN scene \cap Standing(d) : e.cells[x] = scene[x]
<1> DEFINE S == DOMAIN scene \cap Standing(d)
<1>1. PICK n, q, after :
        /\ n \in Nat /\ q \in [1..n -> S]
        /\ \A i, j \in 1..n : q[i] = q[j] => i = j
        /\ \A x \in S : \E i \in 1..n : q[i] = x
        /\ IsRecall(after, n, q, d, scene)
        /\ SceneApplied(d, scene) = after[n]
  BY RecallSteps
<1> DEFINE Good(i) ==
      /\ after[i] \in Layouts
      /\ after[i].channels = d.channels /\ after[i].mixes = d.mixes
      /\ after[i].links \subseteq d.links
      /\ \A j \in 1..i :
           /\ after[i].cells[q[j]] = scene[q[j]]
           /\ \A l \in after[i].links : <<l.channel, l.mix>> # q[j]
    T == {i \in Nat : i <= n => Good(i)}
<1>2. 0 \in T
  BY <1>1 DEF IsRecall
<1>3. ASSUME NEW i \in Nat, i \in T PROVE i + 1 \in T
  <2> SUFFICES ASSUME i + 1 <= n PROVE Good(i + 1)
    OBVIOUS
  <2> DEFINE cell == q[i + 1]
             e == after[i + 1]
  <2>1. Good(i)
    BY <1>1, <1>3
  <2>2. i + 1 \in 1..n /\ e = Touched(after[i], cell, scene[cell])
    BY <1>1 DEF IsRecall
  <2>3. cell \in S /\ cell \in Cells /\ scene[cell] \in Values
    BY <1>1, <2>2 DEF IsScene
  <2>4. /\ e \in Layouts /\ e.channels = after[i].channels /\ e.mixes = after[i].mixes
        /\ e.links = {l \in after[i].links : <<l.channel, l.mix>> # cell}
        /\ e.cells[cell] = scene[cell]
        /\ \A x \in Cells : x # cell /\ (\A l \in after[i].links : <<l.channel, l.mix>> # x) =>
             e.cells[x] = after[i].cells[x]
    <3>1. after[i] \in Layouts
      BY <2>1
    <3> HIDE DEF cell, e, S
    <3>2. QED
      BY <2>2, <2>3, <3>1, TouchedType
  <2>5. ASSUME NEW j \in 1..i
        PROVE  e.cells[q[j]] = scene[q[j]] /\ \A l \in e.links : <<l.channel, l.mix>> # q[j]
    <3>1. j \in 1..n /\ j # i + 1
      BY <1>1
    <3>2. q[j] # cell /\ q[j] \in Cells
      BY <1>1, <2>2, <3>1 DEF IsScene
    <3>3. QED
      BY <2>1, <2>4, <3>2
  <2>6. 1..(i + 1) = (1..i) \cup {i + 1}
    OBVIOUS
  <2>7. QED
    BY <2>1, <2>4, <2>5, <2>6
<1>4. Good(n)
  <2>1. Nat \subseteq T
    <3> HIDE DEF T
    <3>1. QED
      BY <1>2, <1>3, NatSetInduction
  <2>2. QED
    BY <1>1, <2>1
<1>5. QED
  BY <1>1, <1>4
-----------------------------------------------------------------------------
(* What the invariant is kept by                                           *)

\* A layout with the same channels and mixes and no new links stays joined.
LEMMA JoinedKept ==
  ASSUME NEW d \in Layouts, NEW e \in Layouts, Joined(d),
         d.channels \subseteq e.channels, d.mixes \subseteq e.mixes, e.links \subseteq d.links
  PROVE  Joined(e)
BY DEF Joined, Standing

\* What an undo brings back still joins when nothing was removed since.
LEMMA UndoJoinsKept ==
  ASSUME UndoJoins, UNCHANGED undo,
         desk.channels \subseteq desk'.channels, desk.mixes \subseteq desk'.mixes
  PROVE  UndoJoins'
BY DEF UndoJoins, Returning

\* The parts that a step keeps which neither removes nor records anything.
LEMMA HistoryKept ==
  ASSUME IInv, UNCHANGED <<scenes, removed>>, undo' = undo \/ undo' = None
  PROVE  removed' \in Layouts /\ ScenesOK' /\ RemovalKept'
         /\ (undo' # None => undo'.kind \in {"channel", "mix", "scene"})
BY DEF IInv, TypeOK, ScenesOK, RemovalKept, LinksOf

LEMMA Bounds ==
  /\ MaxOps \in Nat /\ MaxCrashes \in Nat
  /\ TypeOK /\ Command => ops' \in 0..MaxOps /\ crashes' \in 0..MaxCrashes
<1>1. MaxOps \in Nat /\ MaxCrashes \in Nat
  BY DeskAssumption DEF DeskAssumption
<1>2. QED
  BY <1>1 DEF TypeOK, Command

\* A save of what the desk shows, or comes to show in the same handler.
LEMMA SaveKeeps ==
  ASSUME IInv, NEW d \in Layouts, Save(d), ~saving' => Live(d) = Live(desk')
  PROVE  /\ disk' = d /\ {written', foreign'} \ {None} \subseteq Layouts /\ Saved'
         /\ ~astray => foreign' = None /\ written' \in {None, disk'}
<1> USE DEF Save
<1>1. disk' = d /\ written' = d
  OBVIOUS
<1>2. {written', foreign'} \ {None} \subseteq Layouts
  BY DEF IInv, TypeOK
<1>3. Saved'
  BY <1>1 DEF Saved
<1>4. ~astray => foreign' = None
  BY DEF IInv, Ours
<1>5. QED
  BY <1>1, <1>2, <1>3, <1>4

\* The parts about the file that a step keeps which leaves desk and file alone.
LEMMA FileKept ==
  ASSUME IInv, UNCHANGED <<file, astray>>
  PROVE  /\ disk' \in Layouts /\ {written', foreign'} \ {None} \subseteq Layouts
         /\ UNCHANGED <<desk, saving>> \/ saving' => Saved'
         /\ ~astray' => foreign' = None /\ written' \in {None, disk'}
BY DEF file, IInv, TypeOK, Ours, Saved, Live, Standing

\* A command that saves at once, adds to the desk or takes links, and leaves
\* scenes and removals alone.
LEMMA SavedStep ==
  ASSUME IInv, Command, NEW d \in Layouts, ChangeAndSave(d), saving' \in BOOLEAN,
         desk.channels \subseteq d.channels, desk.mixes \subseteq d.mixes,
         d.links \subseteq desk.links, UNCHANGED <<scenes, astray, removed>>,
         undo' = undo \/ undo' = None
  PROVE  IInv'
<1>1. ops' \in 0..MaxOps /\ crashes' \in 0..MaxCrashes
  BY Bounds DEF IInv
<1>2. removed' \in Layouts /\ ScenesOK' /\ RemovalKept'
      /\ (undo' # None => undo'.kind \in {"channel", "mix", "scene"})
  BY HistoryKept
<1>3. /\ desk' = d /\ disk' = d /\ {written', foreign'} \ {None} \subseteq Layouts /\ Saved'
      /\ ~astray => foreign' = None /\ written' \in {None, disk'}
  BY SaveKeeps DEF ChangeAndSave
<1>4. TypeOK'
  BY <1>1, <1>2, <1>3 DEF IInv, TypeOK
<1>5. ~astray' => Joined(d)
  BY JoinedKept DEF IInv, TypeOK, Ours
<1>6. ~astray' => UndoJoins'
  <2>1. CASE undo' = undo
    BY <1>3, <2>1, UndoJoinsKept DEF IInv, Ours
  <2>2. CASE undo' = None
    BY <2>2 DEF UndoJoins
  <2>3. QED
    BY <2>1, <2>2
<1>7. (~astray => Ours)'
  BY <1>3, <1>5, <1>6 DEF Joined, Standing, Ours
<1>8. QED
  BY <1>2, <1>3, <1>4, <1>7 DEF IInv

-----------------------------------------------------------------------------
(* The steps                                                               *)

LEMMA InitIInv == Init => IInv
<1> SUFFICES ASSUME Init PROVE IInv
  OBVIOUS
<1>1. TypeOK /\ removed \in Layouts
  <2>1. ops \in 0..MaxOps /\ crashes \in 0..MaxCrashes
    BY Bounds DEF Init
  <2>2. Starter \in Layouts
    BY DeskAssumption DEF DeskAssumption
  <2>3. astray \in BOOLEAN
    BY DEF Init, Joined
  <2>4. QED
    BY <2>1, <2>2, <2>3 DEF Init, TypeOK
<1>2. ScenesOK /\ RemovalKept /\ UndoJoins
  BY DEF Init, ScenesOK, RemovalKept, UndoJoins
<1>3. ~astray => Ours
  BY <1>2 DEF Init, Ours
<1>4. Saved
  BY DEF Init, Saved
<1>5. QED
  BY <1>1, <1>2, <1>3, <1>4 DEF IInv

LEMMA SetCellStep ==
  ASSUME IInv, NEW cell \in Cells, NEW value \in Values, SetCell(cell, value)
  PROVE  IInv'
<1> USE DEF SetCell
<1>1. ops' \in 0..MaxOps /\ crashes' \in 0..MaxCrashes /\ desk \in Layouts /\ disk \in Layouts
  BY Bounds DEF IInv, TypeOK
<1>2. /\ desk' \in Layouts /\ desk'.channels = desk.channels /\ desk'.mixes = desk.mixes
      /\ desk'.links \subseteq desk.links
  BY <1>1, TouchedType
<1>3. Unlinked(desk, cell) \in Layouts /\ (Joined(desk) => Joined(Unlinked(desk, cell)))
  BY <1>1, UnlinkedType
<1>4. /\ disk' \in Layouts /\ (disk' = disk \/ disk' = Unlinked(desk, cell))
      /\ {written', foreign'} \ {None} \subseteq Layouts /\ Saved'
      /\ ~astray' => foreign' = None /\ written' \in {None, disk'}
  <2>1. CASE UNCHANGED file
    BY <2>1, FileKept DEF file
  <2>2. CASE Save(Unlinked(desk, cell))
    BY <1>3, <2>2, SaveKeeps
  <2>3. QED
    BY <2>1, <2>2
<1>5. removed' \in Layouts /\ ScenesOK' /\ RemovalKept'
      /\ (undo' # None => undo'.kind \in {"channel", "mix", "scene"})
  BY HistoryKept
<1>6. TypeOK'
  BY <1>1, <1>2, <1>4, <1>5 DEF IInv, TypeOK
<1>7. (~astray => Joined(desk))'
  BY <1>1, <1>2, JoinedKept DEF IInv, Ours
<1>8. (~astray => Joined(disk))'
  BY <1>3, <1>4 DEF IInv, Ours, Joined, Standing
<1>9. ~astray' => UndoJoins'
  BY <1>2, UndoJoinsKept DEF IInv, Ours
<1>10. (~astray => Ours)'
  BY <1>4, <1>7, <1>8, <1>9 DEF Ours
<1>11. QED
  BY <1>4, <1>5, <1>6, <1>10 DEF IInv

LEMMA SetCellFollowsStep ==
  ASSUME IInv, NEW c \in Channels, NEW m \in Mixes, NEW f \in Mixes, SetCellFollows(c, m, f)
  PROVE  IInv'
<1> DEFINE free == Unlinked(desk, <<c, m>>)
           link == [channel |-> c, mix |-> m, follows |-> f]
           linked == [free EXCEPT !.links = @ \cup {link}]
<1>1. /\ Command /\ f # m /\ <<c, m>> \in Standing(desk) /\ f \in desk.mixes
      /\ desk' = Propagated(linked, <<c, f>>) /\ Save(linked)
      /\ saving' = (saving \/ desk' # linked)
      /\ UNCHANGED <<undo, scenes, astray, removed>>
  BY DEF SetCellFollows
<1>2. ops' \in 0..MaxOps /\ crashes' \in 0..MaxCrashes /\ desk \in Layouts
  BY <1>1, Bounds DEF IInv, TypeOK
<1>3. free \in Layouts /\ free.links \subseteq desk.links /\ free.channels = desk.channels
      /\ free.mixes = desk.mixes
  BY <1>2, UnlinkedType
<1> HIDE DEF free
<1>4. /\ linked \in Layouts /\ linked.channels = desk.channels /\ linked.mixes = desk.mixes
      /\ linked.links = free.links \cup {link} /\ link \in Link
  BY <1>3 DEF Layouts, Link
<1>5. Joined(desk) => Joined(linked)
  <2>1. link.channel = c /\ link.mix = m /\ link.follows = f
    OBVIOUS
  <2> HIDE DEF link, linked
  <2>2. QED
    BY <1>1, <1>3, <1>4, <2>1 DEF Joined, Standing
<1> HIDE DEF linked
<1>6. /\ desk' \in Layouts /\ desk'.channels = linked.channels
      /\ desk'.mixes = linked.mixes /\ desk'.links = linked.links
  BY <1>1, <1>4, PropagatedType DEF Cells
<1>7. removed' \in Layouts /\ ScenesOK' /\ RemovalKept'
      /\ (undo' # None => undo'.kind \in {"channel", "mix", "scene"})
  BY <1>1, HistoryKept
<1>8. saving' \in BOOLEAN /\ (~saving' => linked = desk')
  BY <1>1
<1>9. /\ disk' = linked /\ {written', foreign'} \ {None} \subseteq Layouts /\ Saved'
      /\ ~astray => foreign' = None /\ written' \in {None, disk'}
  <2>1. ~saving' => Live(linked) = Live(desk')
    BY <1>8
  <2>2. QED
    BY <1>1, <1>4, <2>1, SaveKeeps
<1>10. TypeOK'
  BY <1>1, <1>2, <1>4, <1>6, <1>7, <1>8, <1>9 DEF IInv, TypeOK
<1>11. (~astray => Joined(desk) /\ Joined(disk))'
  BY <1>1, <1>5, <1>6, <1>9 DEF IInv, Ours, Joined, Standing
<1>12. ~astray' => UndoJoins'
  BY <1>1, <1>4, <1>6, UndoJoinsKept DEF IInv, Ours
<1>13. (~astray => Ours)'
  BY <1>1, <1>9, <1>11, <1>12 DEF Ours
<1>14. QED
  BY <1>7, <1>9, <1>10, <1>13 DEF IInv

LEMMA ClearCellFollowsStep ==
  ASSUME IInv, NEW c \in Channels, NEW m \in Mixes, ClearCellFollows(c, m)
  PROVE  IInv'
<1>1. desk \in Layouts /\ saving \in BOOLEAN
  BY DEF IInv, TypeOK
<1>2. LET d == Unlinked(desk, <<c, m>>) IN
        d \in Layouts /\ d.channels = desk.channels /\ d.mixes = desk.mixes
        /\ d.links \subseteq desk.links
  BY <1>1, UnlinkedType
<1>3. QED
  BY <1>1, <1>2, SavedStep DEF ClearCellFollows

LEMMA SetDefaultChannelStep ==
  ASSUME IInv, NEW c \in Channels, SetDefaultChannel(c)
  PROVE  IInv'
<1>1. desk \in Layouts /\ saving \in BOOLEAN
  BY DEF IInv, TypeOK
<1>2. LET d == [desk EXCEPT !.default = c] IN
        d \in Layouts /\ d.channels = desk.channels /\ d.mixes = desk.mixes
        /\ d.links = desk.links
  BY <1>1 DEF Layouts
<1>3. QED
  BY <1>1, <1>2, SavedStep DEF SetDefaultChannel

LEMMA AddStep ==
  ASSUME IInv, NEW channels \in SUBSET Channels, NEW mixes \in SUBSET Mixes, Add(channels, mixes)
  PROVE  IInv'
<1>1. desk \in Layouts /\ saving \in BOOLEAN
  BY DEF IInv, TypeOK
<1>2. LET d == [desk EXCEPT !.channels = @ \cup channels, !.mixes = @ \cup mixes] IN
        d \in Layouts /\ desk.channels \subseteq d.channels /\ desk.mixes \subseteq d.mixes
        /\ d.links = desk.links
  BY <1>1 DEF Layouts
<1>3. QED
  BY <1>1, <1>2, SavedStep DEF Add

LEMMA DuplicateMixStep ==
  ASSUME IInv, NEW from \in Mixes, NEW m \in Mixes, DuplicateMix(from, m)
  PROVE  IInv'
<1> DEFINE d == [desk EXCEPT
                   !.mixes = @ \cup {m},
                   !.cells = [x \in Cells |-> IF x[2] = m /\ x[1] \in desk.channels
                                               THEN @[<<x[1], from>>] ELSE @[x]]]
<1>1. desk \in Layouts /\ saving \in BOOLEAN
  BY DEF IInv, TypeOK
<1>2. /\ d \in Layouts /\ d.channels = desk.channels /\ desk.mixes \subseteq d.mixes
      /\ d.links = desk.links
  <2>1. [x \in Cells |-> IF x[2] = m /\ x[1] \in desk.channels
                          THEN desk.cells[<<x[1], from>>] ELSE desk.cells[x]] \in [Cells -> Values]
    BY <1>1 DEF Layouts, Cells
  <2>2. QED
    BY <1>1, <2>1 DEF Layouts
<1>3. Command /\ ChangeAndSave(d) /\ undo' = None /\ UNCHANGED <<saving, scenes, astray, removed>>
  BY DEF DuplicateMix
<1> HIDE DEF d
<1>4. QED
  BY <1>1, <1>2, <1>3, SavedStep
\* What a removal leaves behind: the snapshot holds what was taken, and the
\* links left join what is left.
LEMMA ForgetType ==
  ASSUME desk \in Layouts, NEW cells \in SUBSET Cells
  PROVE  Forget(cells) \in [Cells -> Values] /\ \A x \in Cells \ cells : Forget(cells)[x] = desk.cells[x]
BY DeskAssumption DEF DeskAssumption, Forget, Layouts

LEMMA RemoveChannelStep ==
  ASSUME IInv, NEW c \in Channels, RemoveChannel(c)
  PROVE  IInv'
<1> DEFINE cells == {c} \X Mixes
           d == [desk EXCEPT
                   !.channels = @ \ {c}, !.links = @ \ LinksOfChannel(c), !.cells = Forget(cells),
                   !.default = IF @ = c THEN None ELSE @]
<1>1. /\ Command /\ undo' = SnapshotForUndo("channel", c, cells, LinksOfChannel(c))
      /\ desk' = d /\ Save(d) /\ removed' = desk
      /\ UNCHANGED <<saving, scenes, astray>>
  BY DEF RemoveChannel, ChangeAndSave
<1>2. ops' \in 0..MaxOps /\ crashes' \in 0..MaxCrashes /\ desk \in Layouts
  BY <1>1, Bounds DEF IInv, TypeOK
<1>3. Forget(cells) \in [Cells -> Values]
  BY <1>2, ForgetType DEF Cells
<1>4. /\ d \in Layouts /\ d.channels = desk.channels \ {c} /\ d.mixes = desk.mixes
      /\ d.links = desk.links \ LinksOfChannel(c)
  BY <1>2, <1>3, DeskAssumption DEF DeskAssumption, Layouts
<1> HIDE DEF d
<1>5. Joined(desk) => Joined(d)
  BY <1>4 DEF Joined, Standing, LinksOfChannel
<1>6. /\ undo'.kind = "channel" /\ undo'.slug = c /\ undo'.links = LinksOfChannel(c)
      /\ undo'.cells = [x \in cells |-> desk.cells[x]]
  BY <1>1 DEF SnapshotForUndo
<1>7. ScenesOK'
  BY <1>1, <1>6 DEF IInv, ScenesOK
<1>8. RemovalKept'
  BY <1>1, <1>6 DEF RemovalKept, CellsOf, LinksOf, LinksOfChannel
<1>9. Joined(desk) => UndoJoins'
  BY <1>1, <1>2, <1>4, <1>6 DEF UndoJoins, Returning, LinksOfChannel, Joined, Standing
<1>10. /\ disk' = d /\ {written', foreign'} \ {None} \subseteq Layouts /\ Saved'
       /\ ~astray => foreign' = None /\ written' \in {None, disk'}
  BY <1>1, <1>4, SaveKeeps
<1>11. TypeOK'
  BY <1>1, <1>2, <1>4, <1>6, <1>10 DEF IInv, TypeOK
<1>12. (~astray => Ours)'
  BY <1>1, <1>5, <1>9, <1>10 DEF IInv, Ours, Joined, Standing
<1>13. QED
  BY <1>1, <1>2, <1>7, <1>8, <1>10, <1>11, <1>12 DEF IInv

\* The file still holds the cells of the mix that goes; nobody looks at them,
\* they are not among the cells that stand.
LEMMA RemoveMixStep ==
  ASSUME IInv, NEW m \in Mixes, RemoveMix(m)
  PROVE  IInv'
<1> DEFINE cells == Channels \X {m}
           without == [desk EXCEPT !.mixes = @ \ {m}, !.links = @ \ LinksOfMix(m)]
<1>1. /\ Command /\ undo' = SnapshotForUndo("mix", m, cells, LinksOfMix(m))
      /\ desk' = [without EXCEPT !.cells = Forget(cells)] /\ Save(without)
      /\ removed' = desk /\ UNCHANGED <<saving, scenes, astray>>
  BY DEF RemoveMix
<1>2. ops' \in 0..MaxOps /\ crashes' \in 0..MaxCrashes /\ desk \in Layouts
  BY <1>1, Bounds DEF IInv, TypeOK
<1>3. /\ Forget(cells) \in [Cells -> Values]
      /\ \A x \in Cells \ cells : Forget(cells)[x] = desk.cells[x]
  BY <1>2, ForgetType DEF Cells
<1>4. /\ without \in Layouts /\ without.channels = desk.channels
      /\ without.mixes = desk.mixes \ {m} /\ without.cells = desk.cells
      /\ without.links = desk.links \ LinksOfMix(m)
  BY <1>2 DEF Layouts
<1> HIDE DEF without
<1>5. /\ desk' \in Layouts /\ desk'.channels = without.channels /\ desk'.mixes = without.mixes
      /\ desk'.links = without.links /\ desk'.cells = Forget(cells)
      /\ desk'.default = without.default
  BY <1>1, <1>3, <1>4 DEF Layouts
<1>6. Joined(desk) => Joined(without)
  BY <1>4 DEF Joined, Standing, LinksOfMix
<1>7. /\ undo'.kind = "mix" /\ undo'.slug = m /\ undo'.links = LinksOfMix(m)
      /\ undo'.cells = [x \in cells |-> desk.cells[x]]
  BY <1>1 DEF SnapshotForUndo
<1>8. ScenesOK'
  BY <1>1, <1>7 DEF IInv, ScenesOK
<1>9. RemovalKept'
  BY <1>1, <1>7 DEF RemovalKept, CellsOf, LinksOf, LinksOfMix
<1>10. Joined(desk) => UndoJoins'
  BY <1>2, <1>4, <1>5, <1>7 DEF UndoJoins, Returning, LinksOfMix, Joined, Standing
<1>11. Live(without) = Live(desk')
  <2>1. Standing(desk') = Standing(without)
    BY <1>5 DEF Standing
  <2>2. ASSUME NEW x \in Standing(without) PROVE desk'.cells[x] = without.cells[x]
    BY <1>2, <1>3, <1>4, <1>5 DEF Standing, Layouts, Cells
  <2>3. [x \in Standing(desk') |-> desk'.cells[x]] = [x \in Standing(without) |-> without.cells[x]]
    BY <2>1, <2>2
  <2>4. \A g : [desk' EXCEPT !.cells = g] = [without EXCEPT !.cells = g]
    BY <1>1, <1>2, <1>4 DEF Layouts
  <2>5. QED
    BY <2>3, <2>4 DEF Live
<1>12. /\ disk' = without /\ {written', foreign'} \ {None} \subseteq Layouts /\ Saved'
       /\ ~astray => foreign' = None /\ written' \in {None, disk'}
  BY <1>1, <1>4, <1>11, SaveKeeps
<1>13. TypeOK'
  BY <1>1, <1>2, <1>4, <1>5, <1>7, <1>12 DEF IInv, TypeOK
<1>14. (~astray => Ours)'
  BY <1>1, <1>5, <1>6, <1>10, <1>12 DEF IInv, Ours, Joined, Standing
<1>15. QED
  BY <1>1, <1>2, <1>8, <1>9, <1>12, <1>13, <1>14 DEF IInv

LEMMA UndoRemovalStep ==
  ASSUME IInv, UndoRemoval
  PROVE  IInv'
<1>1. /\ Command /\ undo' = None /\ undo # None /\ undo.kind \in {"channel", "mix"}
      /\ UNCHANGED <<saving, scenes, astray, removed>>
  BY DEF UndoRemoval, Undoes
<1>2. desk \in Layouts /\ saving \in BOOLEAN /\ removed \in Layouts
  BY DEF IInv, TypeOK
<1>3. ops' \in 0..MaxOps /\ crashes' \in 0..MaxCrashes
  BY <1>1, Bounds DEF IInv
<1>4. removed' \in Layouts /\ ScenesOK' /\ RemovalKept'
  BY <1>1, HistoryKept
<1>5. UndoJoins'
  BY <1>1 DEF UndoJoins
<1>6. CASE UNCHANGED <<desk, file>>
  <2>1. /\ {written', foreign'} \ {None} \subseteq Layouts /\ Saved'
        /\ ~astray' => foreign' = None /\ written' \in {None, disk'}
    BY <1>1, <1>6, FileKept
  <2>2. TypeOK'
    BY <1>1, <1>3, <1>6, <2>1 DEF IInv, TypeOK, file
  <2>3. (~astray => Ours)'
    BY <1>1, <1>5, <1>6, <2>1 DEF IInv, Ours, Joined, Standing, file
  <2>4. QED
    BY <1>4, <2>1, <2>2, <2>3 DEF IInv
<1>7. CASE ~UNCHANGED <<desk, file>>
  <2> DEFINE cells == [x \in Cells |-> IF x \in DOMAIN undo.cells THEN undo.cells[x]
                                                                   ELSE desk.cells[x]]
             default == IF undo.kind = "channel" /\ undo.wasDefault THEN undo.slug ELSE desk.default
             d == [desk EXCEPT
                     !.channels = @ \cup Returning("channel"), !.mixes = @ \cup Returning("mix"),
                     !.links = @ \cup undo.links,
                     !.cells = cells, !.default = default]
  <2>1. desk' = d /\ Save(d)
    BY <1>7 DEF UndoRemoval, ChangeAndSave
  <2>2. /\ undo.slug \in (IF undo.kind = "channel" THEN Channels ELSE Mixes)
        /\ undo.cells = [x \in CellsOf(undo.kind, undo.slug) |-> removed.cells[x]]
        /\ undo.links = LinksOf(removed, undo.kind, undo.slug)
    BY <1>1 DEF IInv, RemovalKept
  <2>3. cells \in [Cells -> Values]
    BY <1>1, <1>2, <2>2 DEF CellsOf, Cells, Layouts
  <2>4. undo.links \subseteq Link /\ Returning("channel") \subseteq Channels
        /\ Returning("mix") \subseteq Mixes /\ default \in Channels \cup {None}
    BY <1>1, <1>2, <2>2 DEF LinksOf, Layouts, Returning
  <2> HIDE DEF cells, default
  <2>5. /\ d \in Layouts /\ d.channels = desk.channels \cup Returning("channel")
        /\ d.mixes = desk.mixes \cup Returning("mix") /\ d.links = desk.links \cup undo.links
    BY <1>2, <2>3, <2>4 DEF Layouts
  <2> HIDE DEF d
  <2>6. /\ disk' = d /\ {written', foreign'} \ {None} \subseteq Layouts /\ Saved'
        /\ ~astray => foreign' = None /\ written' \in {None, disk'}
    BY <2>1, <2>5, SaveKeeps
  <2>7. TypeOK'
    BY <1>1, <1>3, <2>1, <2>5, <2>6 DEF IInv, TypeOK
  <2>8. ~astray => Joined(d)
    BY <1>1, <2>5 DEF IInv, Ours, Joined, Standing, UndoJoins
  <2>9. (~astray => Ours)'
    BY <1>1, <1>5, <2>1, <2>6, <2>8 DEF Ours, Joined, Standing
  <2>10. QED
    BY <1>4, <2>6, <2>7, <2>9 DEF IInv
<1>8. QED
  BY <1>6, <1>7
\* What a recall, by hand or by undo, writes at once.
LEMMA AppliedStep ==
  ASSUME IInv, Command, NEW scene, IsScene(scene), ChangeAndSave(SceneApplied(desk, scene)),
         saving' \in BOOLEAN, UNCHANGED <<scenes, astray, removed>>,
         \/ undo' = None
         \/ undo'.kind = "scene" /\ IsScene(undo'.cells)
  PROVE  IInv'
<1> DEFINE d == SceneApplied(desk, scene)
<1>1. ops' \in 0..MaxOps /\ crashes' \in 0..MaxCrashes /\ desk \in Layouts
  BY Bounds DEF IInv, TypeOK
<1>2. /\ d \in Layouts /\ d.channels = desk.channels /\ d.mixes = desk.mixes
      /\ d.links \subseteq desk.links /\ desk' = d /\ Save(d)
  BY <1>1, SceneAppliedType DEF ChangeAndSave
<1> HIDE DEF d
<1>3. /\ disk' = d /\ {written', foreign'} \ {None} \subseteq Layouts /\ Saved'
      /\ ~astray => foreign' = None /\ written' \in {None, disk'}
  BY <1>2, SaveKeeps
<1>4. TypeOK'
  BY <1>3, <1>1, <1>2 DEF IInv, TypeOK
<1>5. ScenesOK'
  BY DEF IInv, ScenesOK
<1>6. RemovalKept' /\ UndoJoins'
  BY DEF RemovalKept, UndoJoins
<1>7. ~astray => Joined(d)
  BY <1>1, <1>2, JoinedKept DEF IInv, Ours
<1>8. (~astray => Ours)'
  BY <1>3, <1>2, <1>6, <1>7 DEF Ours, Joined, Standing
<1>9. QED
  BY <1>3, <1>2, <1>4, <1>5, <1>6, <1>8 DEF IInv

LEMMA CaptureType ==
  ASSUME desk \in Layouts
  PROVE  IsScene(CaptureScene)
BY DEF IsScene, CaptureScene, Standing, Layouts, Cells

LEMMA UndoRecallStep ==
  ASSUME IInv, UndoRecall
  PROVE  IInv'
<1>1. IsScene(undo.cells) /\ saving \in BOOLEAN
  BY DEF UndoRecall, Undoes, IInv, ScenesOK, TypeOK
<1>2. /\ Command /\ undo' = None /\ ChangeAndSave(SceneApplied(desk, undo.cells))
      /\ saving' \in BOOLEAN /\ UNCHANGED <<scenes, astray, removed>>
  BY <1>1 DEF UndoRecall
<1>3. QED
  BY <1>1, <1>2, AppliedStep

LEMMA RecallSceneStep ==
  ASSUME IInv, NEW s \in Scenes, RecallScene(s)
  PROVE  IInv'
<1>1. IsScene(scenes[s]) /\ IsScene(CaptureScene)
  BY CaptureType DEF RecallScene, IInv, ScenesOK, TypeOK
<1>2. /\ Command /\ undo'.kind = "scene" /\ undo'.cells = CaptureScene
      /\ ChangeAndSave(SceneApplied(desk, scenes[s]))
      /\ saving' \in BOOLEAN /\ UNCHANGED <<scenes, astray, removed>>
  BY DEF RecallScene, IInv, TypeOK
<1>3. QED
  BY <1>1, <1>2, AppliedStep

\* The steps on the files of the scenes, which leave the desk alone.
LEMMA SceneFileStep ==
  ASSUME IInv, NEW s \in Scenes, SaveScene(s) \/ DeleteScene(s)
  PROVE  IInv'
<1>1. /\ Command /\ UNCHANGED <<desk, file, saving, undo, astray, removed>>
      /\ \A t \in Scenes : scenes'[t] \in {scenes[t], None, CaptureScene}
  <2>1. scenes' = [scenes EXCEPT ![s] = CaptureScene] \/ scenes' = [scenes EXCEPT ![s] = None]
    BY DEF SaveScene, DeleteScene
  <2>2. scenes = [t \in Scenes |-> scenes[t]]
    BY DEF IInv, ScenesOK
  <2>3. ASSUME NEW t \in Scenes PROVE scenes'[t] \in {scenes[t], None, CaptureScene}
    BY <2>1, <2>2
  <2>4. QED
    BY <2>3 DEF SaveScene, DeleteScene
<1>2. ops' \in 0..MaxOps /\ crashes' \in 0..MaxCrashes /\ IsScene(CaptureScene)
  BY <1>1, Bounds, CaptureType DEF IInv, TypeOK
<1>3. \A t \in Scenes : scenes'[t] # None => IsScene(scenes'[t])
  BY <1>1, <1>2 DEF IInv, ScenesOK
<1>4. ScenesOK'
  <2>1. scenes' = [t \in Scenes |-> scenes'[t]]
    BY DEF IInv, ScenesOK, SaveScene, DeleteScene
  <2>2. QED
    BY <1>1, <1>3, <2>1 DEF IInv, ScenesOK
<1>5. TypeOK'
  BY <1>1, <1>2, <1>3 DEF IInv, TypeOK, IsScene, file
<1>6. Saved'
  BY <1>1, FileKept
<1>7. removed' \in Layouts /\ RemovalKept' /\ (~astray => Ours)'
  BY <1>1 DEF IInv, RemovalKept, Ours, Standing, Joined, UndoJoins, Returning, file
<1>8. QED
  BY <1>4, <1>5, <1>6, <1>7 DEF IInv

LEMMA ImportSettingsStep ==
  ASSUME IInv, NEW l \in Foreign, ImportSettings(l)
  PROVE  IInv'
<1>0. /\ l \in Layouts /\ desk' = l /\ Save(l) /\ undo' = None
      /\ astray' = (astray \/ ~Joined(l)) /\ UNCHANGED <<saving, scenes, removed>>
  BY DeskAssumption DEF DeskAssumption, ImportSettings, ChangeAndSave
<1>1. /\ disk' = l /\ {written', foreign'} \ {None} \subseteq Layouts /\ Saved'
      /\ ~astray => foreign' = None /\ written' \in {None, disk'}
  BY <1>0, SaveKeeps
<1>2. ops' \in 0..MaxOps /\ crashes' \in 0..MaxCrashes
  BY Bounds DEF IInv, ImportSettings
<1>3. removed' \in Layouts /\ ScenesOK' /\ RemovalKept'
  BY <1>0, HistoryKept
<1>4. astray' \in BOOLEAN
  BY <1>0 DEF IInv, TypeOK, Joined
<1>5. TypeOK'
  BY <1>0, <1>1, <1>2, <1>4 DEF IInv, TypeOK
<1>6. (~astray => Ours)'
  BY <1>0, <1>1 DEF Ours, UndoJoins, Joined, Standing
<1>7. QED
  BY <1>1, <1>3, <1>5, <1>6 DEF IInv

\* The file is no longer ours; what was written still is what the desk shows.
LEMMA FileEditedStep ==
  ASSUME IInv, NEW l \in Foreign, FileEdited(l)
  PROVE  IInv'
<1>1. /\ l \in Layouts /\ l # None /\ disk' = l /\ astray'
      /\ foreign' = (IF l # written THEN l ELSE foreign)
      /\ UNCHANGED <<desk, written, saving, undo, scenes, removed>>
  BY DeskAssumption DEF DeskAssumption, FileEdited
<1>2. ops' \in 0..MaxOps /\ crashes' \in 0..MaxCrashes /\ astray' \in BOOLEAN
  BY Bounds DEF IInv, FileEdited
<1>3. removed' \in Layouts /\ ScenesOK' /\ RemovalKept'
  BY <1>1, HistoryKept
<1>4. TypeOK'
  BY <1>1, <1>2 DEF IInv, TypeOK
<1>5. Saved'
  BY <1>1 DEF IInv, Saved, Live, Standing
<1>6. QED
  BY <1>1, <1>3, <1>4, <1>5 DEF IInv

\* What is taken over counts as written, whatever the file holds meanwhile.
LEMMA DebounceStep ==
  ASSUME IInv, Debounce
  PROVE  IInv'
<1>1. /\ foreign # None /\ foreign \in Layouts /\ astray
      /\ UNCHANGED <<saving, undo, scenes, astray, removed, ops, crashes>>
  BY DEF Debounce, IInv, TypeOK, Ours
<1>2. removed' \in Layouts /\ ScenesOK' /\ RemovalKept'
  BY <1>1, HistoryKept
<1>3. TypeOK' /\ Saved'
  <2>1. CASE foreign = written /\ foreign' = None /\ UNCHANGED <<desk, disk, written>>
    BY <1>1, <2>1 DEF IInv, TypeOK, Saved, Live, Standing
  <2>2. CASE desk' = foreign /\ written' = foreign
             /\ disk' \in {disk, foreign} /\ foreign' \in {disk, None}
    BY <1>1, <2>2 DEF IInv, TypeOK, Saved
  <2>3. QED
    BY <2>1, <2>2 DEF Debounce
<1>4. QED
  BY <1>1, <1>2, <1>3 DEF IInv

LEMMA CellSaveTimeoutStep ==
  ASSUME IInv, CellSaveTimeout
  PROVE  IInv'
<1>1. /\ Save(desk) /\ desk \in Layouts /\ saving' = FALSE
      /\ UNCHANGED <<desk, undo, scenes, astray, removed, ops, crashes>>
  BY DEF CellSaveTimeout, IInv, TypeOK
<1>2. removed' \in Layouts /\ ScenesOK' /\ RemovalKept'
  BY <1>1, HistoryKept
<1>3. /\ disk' = desk /\ {written', foreign'} \ {None} \subseteq Layouts /\ Saved'
      /\ ~astray => foreign' = None /\ written' \in {None, disk'}
  <2>1. Live(desk) = Live(desk')
    BY <1>1
  <2>2. QED
    BY <1>1, <2>1, SaveKeeps
<1>4. TypeOK'
  BY <1>1, <1>3 DEF IInv, TypeOK
<1>5. (~astray => Ours)'
  BY <1>1, <1>3 DEF IInv, Ours, Joined, Standing, UndoJoins, Returning
<1>6. QED
  BY <1>2, <1>3, <1>4, <1>5 DEF IInv

LEMMA RestartStep ==
  ASSUME IInv, Restart
  PROVE  IInv'
<1> USE DEF Restart
<1>1. removed' \in Layouts /\ ScenesOK' /\ RemovalKept'
  BY HistoryKept
<1>2. crashes' \in 0..MaxCrashes
  BY Bounds DEF IInv, TypeOK
<1>3. TypeOK' /\ Saved'
  BY <1>2 DEF IInv, TypeOK, Saved
<1>4. (~astray => Ours)'
  BY DEF IInv, Ours, Joined, Standing, UndoJoins
<1>5. QED
  BY <1>1, <1>3, <1>4 DEF IInv

\* Every step of the specification keeps the invariant.
LEMMA NextIInv == IInv /\ [Next]_vars => IInv'
<1> SUFFICES ASSUME IInv, [Next]_vars PROVE IInv'
  OBVIOUS
<1>1. ASSUME NEW cell \in Cells, NEW value \in Values, SetCell(cell, value)
      PROVE  IInv'
  BY <1>1, SetCellStep
<1>2. ASSUME NEW c \in Channels, NEW m \in Mixes, NEW f \in Mixes, SetCellFollows(c, m, f)
      PROVE  IInv'
  BY <1>2, SetCellFollowsStep
<1>3. ASSUME NEW c \in Channels, NEW m \in Mixes, ClearCellFollows(c, m)
      PROVE  IInv'
  BY <1>3, ClearCellFollowsStep
<1>4. ASSUME NEW c \in Channels, SetDefaultChannel(c) \/ AddChannel(c) \/ RemoveChannel(c)
      PROVE  IInv'
  BY <1>4, SetDefaultChannelStep, AddStep, RemoveChannelStep DEF AddChannel
<1>5. ASSUME NEW m \in Mixes, AddMix(m) \/ RemoveMix(m)
      PROVE  IInv'
  BY <1>5, AddStep, RemoveMixStep DEF AddMix
<1>6. ASSUME NEW from \in Mixes, NEW m \in Mixes, DuplicateMix(from, m)
      PROVE  IInv'
  BY <1>6, DuplicateMixStep
<1>7. ASSUME NEW s \in Scenes, SaveScene(s) \/ DeleteScene(s) \/ RecallScene(s)
      PROVE  IInv'
  BY <1>7, SceneFileStep, RecallSceneStep
<1>8. ASSUME NEW l \in Foreign, ImportSettings(l) \/ FileEdited(l)
      PROVE  IInv'
  BY <1>8, ImportSettingsStep, FileEditedStep
<1>9. CASE UndoRemoval \/ UndoRecall \/ CellSaveTimeout \/ Debounce \/ Restart
  BY <1>9, UndoRemovalStep, UndoRecallStep, CellSaveTimeoutStep, DebounceStep, RestartStep
<1>10. CASE UNCHANGED vars
  <2>1. TypeOK' /\ removed' \in Layouts /\ ScenesOK' /\ RemovalKept'
    BY <1>10 DEF vars, file, IInv, TypeOK, ScenesOK, RemovalKept
  <2>2. Saved'
    BY <1>10, FileKept DEF vars
  <2>3. (~astray => Ours)'
    BY <1>10 DEF vars, file, IInv, Ours, Joined, Standing, UndoJoins, Returning
  <2>4. QED
    BY <2>1, <2>2, <2>3 DEF IInv
<1>11. QED
  BY <1>1, <1>2, <1>3, <1>4, <1>5, <1>6, <1>7, <1>8, <1>9, <1>10 DEF Next

\* The invariant holds in every state.
LEMMA Invariance == Spec => []IInv
BY InitIInv, NextIInv, PTL DEF Spec

-----------------------------------------------------------------------------
(* The theorems                                                            *)

\* The layout in memory and the one in the file, the undo and the scenes stay in
\* their types (Layout, layout.h 146-204).
THEOREM TypeCorrect == Spec => []TypeOK
<1>1. IInv => TypeOK
  BY DEF IInv
<1>2. QED
  BY <1>1, Invariance, PTL

\* A link joins cells that exist (MX-7): removals take the links of what goes
\* (mixer.cpp 2225, 2240), and what an undo brings back joins what is there,
\* because every other removal, addition or import has replaced or cleared it
\* (mixer.cpp 2082-2156).
THEOREM LinksAlwaysStand == Spec => []LinksStand
<1>1. IInv => LinksStand
  BY DEF IInv, Ours, LinksStand
<1>2. QED
  BY <1>1, Invariance, PTL

\* With no delayed save outstanding the file holds the desk (saveLayout(),
\* mixer.cpp 142-180, in every handler that does not start the 300 ms timer),
\* unless an edit of the file waits to be taken over, or was taken over after a
\* command had saved over it (mixer.cpp 236-260, which writes no file).
THEOREM NothingLost == Spec => []RestartLosesNothing
<1>1. IInv => RestartLosesNothing
  <2> SUFFICES ASSUME IInv, ~saving, foreign = None, written \in {None, disk}
               PROVE  Live(disk) = Live(desk)
    BY DEF RestartLosesNothing
  <2>1. QED
    BY DEF IInv, Saved
<1>2. QED
  BY <1>1, Invariance, PTL

\* CH-9: the undo of a removal brings back the faders and the links of what was
\* removed as they were before (snapshotForUndo(), undo(), mixer.cpp 2082-2156).
THEOREM UndoAlwaysRestores == Spec => UndoRestores
<1> DEFINE OfIt(channel, mix) ==
      IF undo.kind = "channel" THEN channel = undo.slug ELSE mix = undo.slug
    Restores ==
      UndoRemoval /\ desk' # desk =>
        /\ \A x \in Standing(desk') \cap Standing(removed) :
             OfIt(x[1], x[2]) => desk'.cells[x] = removed.cells[x]
        /\ \A l \in removed.links :
             OfIt(l.channel, l.mix) \/ OfIt(None, l.follows) => l \in desk'.links
<1>1. IInv /\ [Next]_vars => Restores
  <2> SUFFICES ASSUME IInv, UndoRemoval, desk' # desk PROVE Restores
    OBVIOUS
  <2>1. /\ undo.kind \in {"channel", "mix"} /\ desk \in Layouts /\ removed \in Layouts
        /\ undo.slug \in (IF undo.kind = "channel" THEN Channels ELSE Mixes)
        /\ undo.cells = [x \in CellsOf(undo.kind, undo.slug) |-> removed.cells[x]]
        /\ undo.links = LinksOf(removed, undo.kind, undo.slug)
        /\ undo.slug # None
    BY DeskAssumption DEF DeskAssumption, UndoRemoval, Undoes, IInv, TypeOK, RemovalKept
  <2>2. /\ desk'.cells = [x \in Cells |-> IF x \in DOMAIN undo.cells THEN undo.cells[x]
                                                                   ELSE desk.cells[x]]
        /\ desk'.links = desk.links \cup undo.links
    BY <2>1 DEF UndoRemoval, ChangeAndSave, Layouts
  <2>3. ASSUME NEW x \in Standing(removed), OfIt(x[1], x[2])
        PROVE  desk'.cells[x] = removed.cells[x]
    <3>1. x \in Cells /\ x \in CellsOf(undo.kind, undo.slug)
      BY <2>1, <2>3 DEF Standing, Cells, CellsOf, Layouts
    <3>2. QED
      BY <2>1, <2>2, <3>1
  <2>4. ASSUME NEW l \in removed.links, OfIt(l.channel, l.mix) \/ OfIt(None, l.follows)
        PROVE  l \in desk'.links
    BY <2>1, <2>2, <2>4 DEF LinksOf
  <2>5. QED
    BY <2>3, <2>4
<1>2. IInv /\ [Next]_vars => [Restores]_vars
  BY <1>1
<1>3. QED
  BY <1>2, Invariance, PTL DEF Spec, UndoRestores

\* CT-9: whichever cells follow which, and in whatever order a recall writes
\* them, every cell the scene names ends with the scene's value (applyScene(),
\* mixer.cpp 1258-1304, through setCellVolume() and propagateLinks(), 878-912).
THEOREM RecallAlwaysExact == Spec => RecallIsExact
<1> DEFINE Exact ==
      \A s \in Scenes : RecallScene(s) =>
        \A x \in DOMAIN scenes[s] \cap Standing(desk) : desk'.cells[x] = scenes[s][x]
<1>1. IInv /\ [Next]_vars => Exact
  <2> SUFFICES ASSUME IInv, NEW s \in Scenes, RecallScene(s),
                      NEW x \in DOMAIN scenes[s] \cap Standing(desk)
               PROVE  desk'.cells[x] = scenes[s][x]
    OBVIOUS
  <2>1. IsScene(scenes[s]) /\ desk \in Layouts /\ desk' = SceneApplied(desk, scenes[s])
    BY DEF RecallScene, ChangeAndSave, IInv, ScenesOK, TypeOK
  <2>2. QED
    BY <2>1, SceneAppliedType
<1>2. IInv /\ [Next]_vars => [Exact]_vars
  BY <1>1
<1>3. QED
  BY <1>2, Invariance, PTL DEF Spec, RecallIsExact
=============================================================================
