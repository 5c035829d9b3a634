-------------------------------- MODULE Desk --------------------------------
(***************************************************************************)
(* The desk: what the user sets and the layout remembers                   *)
(* (src/src/mixer.cpp: cells and their links MX-7, scenes CT-9, adding,    *)
(* duplicating and removing channels and mixes, the one-level undo CH-9,   *)
(* the delayed save of faders).                                            *)
(*                                                                         *)
(* A cell is the fader of one channel in one mix; a link makes a cell      *)
(* follow the same channel's cell in another mix.  Volume and mute of a    *)
(* cell are one value of Values: every operation that writes one of them   *)
(* treats the other alike.  A fader move is saved 300 ms after the last    *)
(* one, every other command at once; the daemon may die at any moment and  *)
(* starts again from the file.  An edit of the file reaches the desk when  *)
(* the debounce runs out, and a command may save over it until then; how   *)
(* it is noticed is the subject of LayoutWatch.                            *)
(*                                                                         *)
(* Masters, trims and groups live on PipeWire nodes: see Gain.  `astray`,  *)
(* `removed` are history variables.                                        *)
(***************************************************************************)
EXTENDS Naturals, SequencesExt

CONSTANTS
  Channels, Mixes,   \* slugs
  Values, Unity,     \* what a cell may hold, and what it holds untouched
  Scenes,            \* names of scenes
  Starter,           \* the layout the desk starts with
  Foreign,           \* layouts that come from elsewhere: an import, an edit of the file
  MaxOps,            \* bound: commands
  MaxCrashes,        \* bound: restarts of the daemon
  None               \* no slug, no scene, nothing to undo

Cells == Channels \X Mixes
Link == [channel : Channels, mix : Mixes, follows : Mixes]
Layouts ==
  [channels : SUBSET Channels, mixes : SUBSET Mixes, cells : [Cells -> Values],
   links : SUBSET Link, default : Channels \cup {None}]

ASSUME DeskAssumption ==
  /\ IsFiniteSet(Channels) /\ IsFiniteSet(Mixes)
  /\ Unity \in Values
  /\ None \notin Channels \cup Mixes /\ None \notin Foreign
  /\ Starter \in Layouts /\ Foreign \subseteq Layouts
  /\ {MaxOps, MaxCrashes} \subseteq Nat

VARIABLES
  desk,     \* m_layout
  disk,     \* layout.json
  written,  \* m_layoutGeschrieben: what the daemon saved or took over last, None since its start
  foreign,  \* m_layoutFremdeAenderung: an edit seen and not yet applied, or None
  saving,   \* m_cellSave runs
  undo,     \* m_undo
  scenes,   \* the files of the scene directory
  astray,   \* a file may have brought links that join nothing
  removed,  \* the desk before the last removal
  ops, crashes   \* counters for the bounds

file == <<disk, written, foreign>>
vars == <<desk, file, saving, undo, scenes, astray, removed, ops, crashes>>

\* The layout's cells that exist; a file may hold values for others.
Standing(d) == d.channels \X d.mixes

\* The links of a layout join its own cells, two for two.
Joined(d) ==
  \A l \in d.links :
    /\ <<l.channel, l.mix>> \in Standing(d) /\ l.follows \in d.mixes
    /\ l.mix # l.follows

Init ==
  /\ desk = Starter /\ disk = Starter /\ written = None /\ foreign = None
  /\ saving = FALSE
  /\ undo = None
  /\ scenes = [s \in Scenes |-> None]
  /\ astray = ~Joined(Starter)
  /\ removed = Starter
  /\ ops = 0 /\ crashes = 0
-----------------------------------------------------------------------------
(* Writing cells *)

\* breakLink
Unlinked(d, cell) ==
  [d EXCEPT !.links = {l \in @ : <<l.channel, l.mix>> # cell}]

\* propagateLinks: the cells that follow `cell`, and not those that follow them.
Followers(d, cell) ==
  {<<l.channel, l.mix>> : l \in {k \in d.links : <<k.channel, k.follows>> = cell}}
Propagated(d, cell) ==
  [d EXCEPT !.cells = [x \in Cells |-> IF x \in Followers(d, cell) THEN @[cell] ELSE @[x]]]

\* Mutant: a follower that is written itself stays a follower.
TouchedLinked(d, cell, value) == Propagated([d EXCEPT !.cells[cell] = value], cell)

\* setCellVolume, setCellMuted: the direct write unlinks the cell, its followers come along.
Touched(d, cell, value) ==
  Propagated([Unlinked(d, cell) EXCEPT !.cells[cell] = value], cell)

\* Mutant: mix and channel of a cell are swapped.
CaptureSceneSwapped == [x \in desk.mixes \X desk.channels |-> desk.cells[<<x[2], x[1]>>]]

\* captureScene
CaptureScene == [cell \in Standing(desk) |-> desk.cells[cell]]

\* applyScene: the cells one after the other; a scene may predate a removal.
SceneApplied(d, scene) ==
  LET Set(acc, cell) == Touched(acc, cell, scene[cell]) IN
    FoldLeft(Set, d, SetToSeq(DOMAIN scene \cap Standing(d)))
-----------------------------------------------------------------------------
(* Commands *)

Command == ops < MaxOps /\ ops' = ops + 1 /\ UNCHANGED crashes

\* saveLayout: an edit that is on disk is kept for the debounce before it is written over.
Save(d) ==
  /\ foreign' = IF written # None /\ disk # written THEN disk ELSE foreign
  /\ written' = d
  /\ disk' = d

\* A change with saveLayout in the same handler.
ChangeAndSave(d) == desk' = d /\ Save(d)

SetCell(cell, value) ==
  /\ Command
  /\ cell \in Standing(desk)
  /\ desk' = Touched(desk, cell, value)
  /\ IF Unlinked(desk, cell) = desk THEN UNCHANGED file ELSE Save(Unlinked(desk, cell))
  /\ saving' = TRUE
  /\ UNCHANGED <<undo, scenes, astray, removed>>

\* The source of a cell; if it has two (undo can do that) the order of the list decides.
Sources(d, cell) ==
  {l.follows : l \in {k \in d.links : <<k.channel, k.mix>> = cell}}

\* setCellFollows with a mix: no loop of two, the cell snaps to its source.
SetCellFollows(c, m, f) ==
  /\ Command
  /\ f # m /\ <<c, m>> \in Standing(desk) /\ f \in desk.mixes
  /\ Sources(desk, <<c, f>>) # {m}
  /\ LET linked == [Unlinked(desk, <<c, m>>) EXCEPT
                      !.links = @ \cup {[channel |-> c, mix |-> m, follows |-> f]}] IN
       /\ desk' = Propagated(linked, <<c, f>>)
       /\ Save(linked)
       /\ saving' = (saving \/ desk' # linked)
  /\ UNCHANGED <<undo, scenes, astray, removed>>

\* setCellFollows with "": independent again.
ClearCellFollows(c, m) ==
  /\ Command
  /\ Sources(desk, <<c, m>>) # {}
  /\ ChangeAndSave(Unlinked(desk, <<c, m>>))
  /\ UNCHANGED <<saving, undo, scenes, astray, removed>>

SetDefaultChannel(c) ==
  /\ Command
  /\ c \in desk.channels \ {desk.default}
  /\ ChangeAndSave([desk EXCEPT !.default = c])
  /\ UNCHANGED <<saving, undo, scenes, astray, removed>>

\* addChannel, addSoundboard, addMix: a new thing clears the undo.
Add(channels, mixes) ==
  /\ Command
  /\ ChangeAndSave([desk EXCEPT !.channels = @ \cup channels, !.mixes = @ \cup mixes])
  /\ undo' = None
  /\ UNCHANGED <<saving, scenes, astray, removed>>

AddChannel(c) == c \notin desk.channels /\ Add({c}, {})
AddMix(m) == m \notin desk.mixes /\ Add({}, {m})

\* duplicateMix: the cells of the mix, not its links.
DuplicateMix(from, m) ==
  /\ Command
  /\ from \in desk.mixes /\ m \notin desk.mixes
  /\ ChangeAndSave([desk EXCEPT
       !.mixes = @ \cup {m},
       !.cells = [x \in Cells |-> IF x[2] = m /\ x[1] \in desk.channels
                                   THEN @[<<x[1], from>>] ELSE @[x]]])
  /\ undo' = None
  /\ UNCHANGED <<saving, scenes, astray, removed>>
-----------------------------------------------------------------------------
(* Removal and undo *)

\* Mutant: the links of other mixes to the one that goes stay behind.
LinksOfMixOwn(m) == {l \in desk.links : l.mix = m}

LinksOfMix(m) == {l \in desk.links : m \in {l.mix, l.follows}}
LinksOfChannel(c) == {l \in desk.links : l.channel = c}

\* Mutant: the snapshot is made after the cells are gone.
SnapshotLate(kind, slug, cells, links) ==
  [kind |-> kind, slug |-> slug, cells |-> [x \in cells |-> Unity],
   links |-> links, wasDefault |-> desk.default = slug]

\* snapshotForUndo
SnapshotForUndo(kind, slug, cells, links) ==
  [kind |-> kind, slug |-> slug, cells |-> [x \in cells |-> desk.cells[x]],
   links |-> links, wasDefault |-> desk.default = slug]

Forget(cells) == [x \in Cells |-> IF x \in cells THEN Unity ELSE desk.cells[x]]

\* removeChannel
RemoveChannel(c) ==
  /\ Command
  /\ c \in desk.channels
  /\ LET cells == {c} \X Mixes IN
       /\ undo' = SnapshotForUndo("channel", c, cells, LinksOfChannel(c))
       /\ ChangeAndSave([desk EXCEPT
            !.channels = @ \ {c}, !.links = @ \ LinksOfChannel(c), !.cells = Forget(cells),
            !.default = IF @ = c THEN None ELSE @])
  /\ removed' = desk
  /\ UNCHANGED <<saving, scenes, astray>>

\* removeMix: the file is written before the cells are taken out.
RemoveMix(m) ==
  /\ Command
  /\ m \in desk.mixes
  /\ LET cells == Channels \X {m}
         without == [desk EXCEPT !.mixes = @ \ {m}, !.links = @ \ LinksOfMix(m)] IN
       /\ undo' = SnapshotForUndo("mix", m, cells, LinksOfMix(m))
       /\ desk' = [without EXCEPT !.cells = Forget(cells)]
       /\ Save(without)
  /\ removed' = desk
  /\ UNCHANGED <<saving, scenes, astray>>

Returning(kind) == IF undo.kind = kind THEN {undo.slug} ELSE {}
Undoes(kinds) == undo # None /\ undo.kind \in kinds

\* undo of a removal: what is gone comes back with what the snapshot holds.  It fails, and is
\* spent all the same, when the slug is there again.
UndoRemoval ==
  /\ Command
  /\ Undoes({"channel", "mix"})
  /\ undo' = None
  /\ IF undo.slug \in (IF undo.kind = "channel" THEN desk.channels ELSE desk.mixes)
       THEN UNCHANGED <<desk, file>>
       ELSE ChangeAndSave([desk EXCEPT
              !.channels = @ \cup Returning("channel"),
              !.mixes = @ \cup Returning("mix"),
              !.links = @ \cup undo.links,
              !.cells = [x \in Cells |-> IF x \in DOMAIN undo.cells THEN undo.cells[x] ELSE @[x]],
              !.default = IF undo.kind = "channel" /\ undo.wasDefault THEN undo.slug ELSE @])
  /\ UNCHANGED <<saving, scenes, astray, removed>>

\* undo of a recall: the captured scene, applied like any other.
UndoRecall ==
  /\ Command
  /\ Undoes({"scene"})
  /\ undo' = None
  /\ ChangeAndSave(SceneApplied(desk, undo.cells))
  /\ saving' = (saving \/ DOMAIN undo.cells \cap Standing(desk) # {})
  /\ UNCHANGED <<scenes, astray, removed>>
-----------------------------------------------------------------------------
(* Scenes, imports, edits of the file, restarts *)

SaveScene(s) ==
  /\ Command
  /\ scenes' = [scenes EXCEPT ![s] = CaptureScene]
  /\ UNCHANGED <<desk, file, saving, undo, astray, removed>>

DeleteScene(s) ==
  /\ Command
  /\ scenes[s] # None
  /\ scenes' = [scenes EXCEPT ![s] = None]
  /\ UNCHANGED <<desk, file, saving, undo, astray, removed>>

\* recallScene: the current state becomes the undo.  An exclusive recall resets the masters of
\* the mixes the scene does not name, never their cells.
RecallScene(s) ==
  /\ Command
  /\ scenes[s] # None
  /\ undo' = [kind |-> "scene", cells |-> CaptureScene]
  /\ ChangeAndSave(SceneApplied(desk, scenes[s]))
  /\ saving' = (saving \/ DOMAIN scenes[s] \cap Standing(desk) # {})
  /\ UNCHANGED <<scenes, astray, removed>>

\* importSettings replaces the layout, unseen, and forgets the undo.
ImportSettings(l) ==
  /\ Command
  /\ ChangeAndSave(l)
  /\ undo' = None
  /\ astray' = (astray \/ ~Joined(l))
  /\ UNCHANGED <<saving, scenes, removed>>

\* Somebody else writes the file; the watcher reads it (`angestossen`).
FileEdited(l) ==
  /\ Command
  /\ disk' = l
  /\ foreign' = IF l # written THEN l ELSE foreign
  /\ astray' = TRUE
  /\ UNCHANGED <<desk, written, saving, undo, scenes, removed>>

\* The debounce handler takes the edit over, unless it is what the daemon wrote itself; the undo
\* stays.  The file is written only if reconcile finds the PipeWire fragment to differ, and the
\* daemon is connected.
Debounce ==
  /\ foreign # None
  /\ IF foreign = written
       THEN foreign' = None /\ UNCHANGED <<desk, disk, written>>
       ELSE /\ desk' = foreign /\ written' = foreign
            /\ \/ foreign' = None /\ UNCHANGED disk
               \/ disk' = foreign /\ foreign' = IF disk # foreign THEN disk ELSE None
  /\ UNCHANGED <<saving, undo, scenes, astray, removed, ops, crashes>>

\* Mutant: the timer only stops.
CellSaveTimeoutIdle ==
  /\ saving
  /\ saving' = FALSE
  /\ UNCHANGED <<desk, file, undo, scenes, astray, removed, ops, crashes>>

\* m_cellSave fires.
CellSaveTimeout ==
  /\ saving
  /\ saving' = FALSE
  /\ Save(desk)
  /\ UNCHANGED <<desk, undo, scenes, astray, removed, ops, crashes>>

\* The daemon dies and starts again: loadLayout.
Restart ==
  /\ crashes < MaxCrashes /\ crashes' = crashes + 1
  /\ desk' = disk /\ written' = None /\ foreign' = None
  /\ saving' = FALSE
  /\ undo' = None
  /\ UNCHANGED <<disk, scenes, astray, removed, ops>>

Next ==
  \/ \E cell \in Cells, value \in Values : SetCell(cell, value)
  \/ \E c \in Channels, m, f \in Mixes : SetCellFollows(c, m, f)
  \/ \E c \in Channels, m \in Mixes : ClearCellFollows(c, m)
  \/ \E c \in Channels : SetDefaultChannel(c) \/ AddChannel(c) \/ RemoveChannel(c)
  \/ \E m \in Mixes : AddMix(m) \/ RemoveMix(m)
  \/ \E from, m \in Mixes : DuplicateMix(from, m)
  \/ \E s \in Scenes : SaveScene(s) \/ DeleteScene(s) \/ RecallScene(s)
  \/ \E l \in Foreign : ImportSettings(l) \/ FileEdited(l)
  \/ UndoRemoval \/ UndoRecall \/ CellSaveTimeout \/ Debounce \/ Restart

Spec == Init /\ [][Next]_vars
-----------------------------------------------------------------------------
TypeOK ==
  /\ {desk, disk} \subseteq Layouts
  /\ {written, foreign} \ {None} \subseteq Layouts
  /\ saving \in BOOLEAN /\ astray \in BOOLEAN
  /\ undo # None => undo.kind \in {"channel", "mix", "scene"}
  /\ \A s \in Scenes : scenes[s] # None => DOMAIN scenes[s] \subseteq Cells
  /\ ops \in 0..MaxOps /\ crashes \in 0..MaxCrashes

\* A link joins cells that exist, through any sequence of removals, undos, recalls, imports and
\* restarts.  (Nobody looks at the links of a file, and an edit of it leaves the undo of an older
\* layout standing.)
LinksStand == ~astray => Joined(desk)

\* A scene, an undo or a link can move a cell as well as a hand can: once the 300 ms of the last
\* move are over, a restart brings back exactly the desk the user left.  (While an edit of the
\* file waits for the debounce the file and the desk differ, and they go on to differ when a
\* command saved over the edit within its 300 ms: then `written` is the edit, the file is not.)
Live(d) == [d EXCEPT !.cells = [x \in Standing(d) |-> d.cells[x]]]
RestartLosesNothing ==
  ~saving /\ foreign = None /\ written \in {None, disk} => Live(disk) = Live(desk)

\* CH-9: undoing a removal brings back the faders and the links as they were before it,
\* whatever was done to the rest of the desk in between.
UndoRestores ==
  [][UndoRemoval /\ desk' # desk =>
       LET OfIt(channel, mix) ==
             IF undo.kind = "channel" THEN channel = undo.slug ELSE mix = undo.slug
       IN  /\ \A x \in Standing(desk') \cap Standing(removed) :
                OfIt(x[1], x[2]) => desk'.cells[x] = removed.cells[x]
           /\ \A l \in removed.links :
                OfIt(l.channel, l.mix) \/ OfIt(None, l.follows) => l \in desk'.links]_vars

\* CT-9: after a recall every cell the scene names holds the scene's value, whichever cells
\* followed which before, and in whatever order they were written.
RecallIsExact ==
  [][\A s \in Scenes : RecallScene(s) =>
       \A x \in DOMAIN scenes[s] \cap Standing(desk) : desk'.cells[x] = scenes[s][x]]_vars

=============================================================================
