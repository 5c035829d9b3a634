----------------------------- MODULE LayoutWatch -----------------------------
(***************************************************************************)
(* layout.json while the daemon runs (src/src/mixer.cpp, "B2").            *)
(*                                                                         *)
(* The daemon keeps the layout in memory, writes it to disk on every       *)
(* change, and watches the file so that an edit made by anybody else is    *)
(* applied live.  Three memories decide whose bytes the file holds:        *)
(*   written  m_layoutGeschrieben      what the daemon wrote last          *)
(*   foreign  m_layoutFremdeAenderung  foreign bytes seen, not yet applied *)
(*   timer    m_layoutEntprellung      the 300 ms debounce is running      *)
(* File-system notifications reach the Qt thread through its event queue,  *)
(* so a save, an edit and a notification interleave freely.                *)
(*                                                                         *)
(* A layout is abstracted to the number of the latest foreign edit it      *)
(* contains and the number of the latest command it contains.  Commands,   *)
(* edits and PipeWire restarts are bounded by MaxOps, MaxEdits, MaxDrops.  *)
(***************************************************************************)
EXTENDS Naturals

CONSTANTS
  MaxEdits,      \* bound: foreign edits of the file
  MaxOps,        \* bound: commands that change the layout
  MaxDrops,      \* bound: times PipeWire goes away
  RenderedEdits, \* the edits that show in the PipeWire fragment (routing, not cosmetics)
  EditKinds,     \* how foreign writers write: "rename" (vim, rsync), "inplace"
  Starts,        \* how the daemon stands: just started ("unsaved", "corrupt"), "saved" since
  NoBytes,       \* an empty QByteArray
  Corrupt        \* bytes that do not parse

ASSUME LayoutWatchAssumption ==
  /\ MaxEdits \in Nat /\ MaxOps \in Nat /\ MaxDrops \in Nat
  /\ RenderedEdits \subseteq 1..MaxEdits
  /\ EditKinds \subseteq {"rename", "inplace"}
  /\ Starts \subseteq {"unsaved", "corrupt", "saved"}

VARIABLES
  layout,    \* m_layout
  disk,      \* the bytes of layout.json
  written,   \* m_layoutGeschrieben
  foreign,   \* m_layoutFremdeAenderung
  held,      \* QFileSystemWatcher::files() holds the path
  live,      \* ... and the inotify watch is on the inode that is on disk now
  fsEvent,   \* a notification waits in the Qt event queue
  timer,     \* m_layoutEntprellung is running
  conf,      \* what the PipeWire fragment on disk was rendered from
  pw,        \* "down", "settling" (connected, reconcile() due in 400 ms), "up"
  edits, ops, drops   \* counters for the bounds; edits also numbers the edits

watchVars == <<layout, disk, written, foreign, held, live, fsEvent, timer, conf,
          pw, edits, ops, drops>>
watch == <<held, live>>
counters == <<edits, ops, drops>>

Layouts == [edit : 0..MaxEdits, op : 0..MaxOps]

ASSUME BytesAssumption ==
  NoBytes \notin Layouts /\ Corrupt \notin Layouts /\ NoBytes # Corrupt

\* Layout::toPipewireConf: cosmetic edits leave the fragment as it is.
Render(l) == [edits |-> {e \in RenderedEdits : e <= l.edit}, op |-> l.op]

StaleConf == [edits |-> {}, op |-> MaxOps + 1]   \* a fragment of an older renderer

\* loadLayout leaves m_layoutGeschrieben empty: the daemon knows its own bytes from its
\* first save on.  An unreadable file leaves it with the starter layout.
Start(how) ==
  \/ how = "saved" /\ disk = layout /\ written = layout /\ conf = Render(layout)
  \/ how = "unsaved" /\ disk = layout /\ written = NoBytes
     /\ conf \in {Render(layout), StaleConf}
  \/ how = "corrupt" /\ disk = Corrupt /\ written = NoBytes /\ conf = StaleConf

WatchInit ==
  /\ layout = [edit |-> 0, op |-> 0]
  /\ \E how \in Starts : Start(how)
  /\ foreign = NoBytes
  /\ held = TRUE /\ live = TRUE
  /\ fsEvent = FALSE /\ timer = FALSE
  /\ pw = "settling"
  /\ edits = 0 /\ ops = 0 /\ drops = 0
-----------------------------------------------------------------------------
\* Mutant: nobody re-adds the path.
ArmNothing == UNCHANGED watch

\* armLayoutWatch: re-add the path only when Qt no longer holds it.
ArmLayoutWatch ==
  IF held THEN UNCHANGED watch ELSE held' = TRUE /\ live' = TRUE

\* The rename of QSaveFile kills the inode's watch.  Qt takes the path off files() when it
\* gets to the notification, which the re-arm at the end of saveLayout may or may not
\* already see.
ReplaceInodeAndArm(holds) ==
  /\ held' = TRUE
  /\ live' \in {TRUE, ~holds}

\* Mutant: saveLayout does not look at the file before it writes.
PickUpNothing(ours, pending) == pending

\* The check at the head of saveLayout: bytes on disk that are not ours are kept for the
\* debounce handler.  `ours` and `pending` are the two memories at that moment.
PickUpForeign(ours, pending) ==
  IF ours # NoBytes /\ disk # ours THEN disk ELSE pending

\* Mutant: the bytes written are not remembered as ours.
SaveUnremembered(l, ours, pending, holds) ==
  /\ foreign' = PickUpForeign(ours, pending)
  /\ written' = ours
  /\ disk' = l
  /\ conf' = Render(l)
  /\ ReplaceInodeAndArm(holds)
  /\ fsEvent' = TRUE

\* saveLayout with the layout `l` in memory, the memories as given and files() as in `holds`.
SaveLayout(l, ours, pending, holds) ==
  /\ foreign' = PickUpForeign(ours, pending)
  /\ written' = l
  /\ disk' = l
  /\ conf' = Render(l)
  /\ ReplaceInodeAndArm(holds)
  /\ fsEvent' = TRUE

\* The fragment on disk is not the one this layout renders, and reconcile gets that far.
Drifted(l) == pw # "down" /\ conf # Render(l)
-----------------------------------------------------------------------------
\* Any command of a frontend that changes the layout ends in saveLayout.
Command ==
  /\ ops < MaxOps
  /\ ops' = ops + 1
  /\ layout' = [layout EXCEPT !.op = ops + 1]
  /\ SaveLayout(layout', written, foreign, held)
  /\ UNCHANGED <<timer, pw, edits, drops>>

\* Mutant: the notification starts the debounce and takes no snapshot.
FsNotifyWithoutSnapshot ==
  /\ fsEvent
  /\ fsEvent' = FALSE
  /\ held' = (held /\ live)
  /\ timer' = TRUE
  /\ UNCHANGED <<layout, disk, written, foreign, live, conf, pw, counters>>

\* `angestossen`: snapshot the file, (re)start the debounce.  Qt drops a dead path first.
FsNotify ==
  /\ fsEvent
  /\ fsEvent' = FALSE
  /\ held' = (held /\ live)
  /\ foreign' = IF disk # written THEN disk ELSE foreign
  /\ timer' = TRUE
  /\ UNCHANGED <<layout, disk, written, live, conf, pw, counters>>

\* The debounce handler has nothing to apply: nothing foreign, our own bytes, or corrupt.
Ignores(bytes) == bytes \in {NoBytes, Corrupt, written}

DebounceIgnore ==
  /\ timer
  /\ timer' = FALSE
  /\ Ignores(foreign)
  /\ foreign' = NoBytes
  /\ ArmLayoutWatch
  /\ UNCHANGED <<layout, disk, written, fsEvent, conf, pw, counters>>

\* The debounce handler applies the captured bytes: they are ours from here on, and
\* reconcile rewrites both files when the fragment no longer matches.
DebounceApply ==
  /\ timer
  /\ timer' = FALSE
  /\ ~Ignores(foreign)
  /\ layout' = foreign
  /\ IF Drifted(foreign)
       THEN SaveLayout(foreign, foreign, NoBytes, TRUE)
       ELSE /\ written' = foreign
            /\ foreign' = NoBytes
            /\ ArmLayoutWatch
            /\ UNCHANGED <<disk, conf, fsEvent>>
  /\ UNCHANGED <<pw, counters>>

\* Graph::connected, then reconcile() 400 ms later; Graph::disconnected.
PwConnected ==
  /\ pw = "down"
  /\ pw' = "settling"
  /\ UNCHANGED <<layout, disk, written, foreign, watch, fsEvent, timer, conf, counters>>

PwReconcile ==
  /\ pw = "settling"
  /\ pw' = "up"
  /\ IF Drifted(layout)
       THEN SaveLayout(layout, written, foreign, held)
       ELSE UNCHANGED <<disk, written, foreign, watch, fsEvent, conf>>
  /\ UNCHANGED <<layout, timer, counters>>

PwDisconnected ==
  /\ pw # "down"
  /\ drops < MaxDrops
  /\ drops' = drops + 1
  /\ pw' = "down"
  /\ UNCHANGED <<layout, disk, written, foreign, watch, fsEvent, timer, conf, edits, ops>>
-----------------------------------------------------------------------------
\* Somebody else edits the file, on top of what the file holds.  A rename is seen by the watch
\* on the directory; bytes written in place only by a watch on the inode that is there.
Notified(kind) ==
  \/ kind = "rename" /\ live' = FALSE /\ fsEvent' = TRUE
  \/ kind = "inplace" /\ live' = live /\ fsEvent' = (fsEvent \/ live)

ForeignEdit ==
  /\ edits < MaxEdits
  /\ edits' = edits + 1
  /\ disk' = [edit |-> edits + 1, op |-> IF disk = Corrupt THEN 0 ELSE disk.op]
  /\ \E kind \in EditKinds : Notified(kind)
  /\ UNCHANGED <<layout, written, foreign, held, timer, conf, pw, ops, drops>>

ForeignGarbage ==
  /\ edits < MaxEdits
  /\ edits' = edits + 1
  /\ disk' = Corrupt
  /\ \E kind \in EditKinds : Notified(kind)
  /\ UNCHANGED <<layout, written, foreign, held, timer, conf, pw, ops, drops>>

WatchNext ==
  \/ Command \/ FsNotify \/ DebounceIgnore \/ DebounceApply
  \/ PwConnected \/ PwReconcile \/ PwDisconnected
  \/ ForeignEdit \/ ForeignGarbage

\* The Qt event loop serves notifications and timers; nobody owes an edit or a command.
WatchFairness ==
  /\ WF_watchVars(FsNotify)
  /\ WF_watchVars(DebounceIgnore \/ DebounceApply)
  /\ WF_watchVars(PwConnected) /\ WF_watchVars(PwReconcile)

WatchSpec == WatchInit /\ [][WatchNext]_watchVars
WatchFairSpec == WatchSpec /\ WatchFairness
-----------------------------------------------------------------------------
WatchTypeOK ==
  /\ layout \in Layouts
  /\ disk \in Layouts \cup {Corrupt}
  /\ written \in Layouts \cup {NoBytes}
  /\ foreign \in Layouts \cup {NoBytes, Corrupt}
  /\ {held, live, fsEvent, timer} \subseteq BOOLEAN
  /\ conf \in [edits : SUBSET RenderedEdits, op : 0..(MaxOps + 1)]
  /\ pw \in {"down", "settling", "up"}
  /\ edits \in 0..MaxEdits /\ ops \in 0..MaxOps /\ drops \in 0..MaxDrops

Quiet == ~fsEvent /\ ~timer

\* The loop brake: as long as nobody else writes the file, no sequence of commands,
\* reconciles and PipeWire restarts makes the daemon take its own bytes for somebody
\* else's, so nothing is ever reloaded (saveLayout's and the watcher's two comparisons).
OwnBytesNeverForeign == edits = 0 => foreign = NoBytes

\* Once the event loop is idle the watch sits on the inode that is on disk, however many
\* renames replaced it: an edit made from then on will be noticed (armLayoutWatch's two callers).
WatchSurvivesRenames == Quiet => held /\ live

\* A save never destroys an edit nobody has read: what the daemon writes over is a layout it
\* already runs, bytes that do not parse, or an edit kept for the debounce handler.
UnreadEditSurvivesSave ==
  [][\/ disk' # layout'           \* not the daemon's write
     \/ disk = disk'
     \/ disk = Corrupt
     \/ disk.edit <= layout'.edit
     \/ foreign' = disk]_watchVars

\* The last foreign edit, once its notification is queued, gets applied no matter which
\* saves, commands and PipeWire restarts fall into its 300 ms.
LastEditIsApplied ==
  (disk # Corrupt /\ disk.edit = MaxEdits /\ fsEvent) ~> (layout.edit = MaxEdits)

\* mixer.cpp: "Three things make this safe rather than a feedback loop".  Once nobody edits the
\* file or gives commands any more, the daemon stops reloading and rewriting it.
NoFeedbackLoop == <>[](~timer)

=============================================================================
