------------------------------- MODULE Playlist -------------------------------
(***************************************************************************)
(* What playback into channels (CT-10) promises its clients, without       *)
(* threads, streams or descriptors: src/src/pipewire/player.h.             *)
(*                                                                         *)
(* A channel is a queue of limited length whose front sounds, and nothing  *)
(* else does; an id names one track for good and ends exactly once.        *)
(* Module Player implements it.                                            *)
(***************************************************************************)
EXTENDS Naturals, Sequences

CONSTANTS Channels, Ids, Limit

VARIABLES list,      \* channel -> the ids it will play, in order
          sounding,  \* the ids that have been started
          ended      \* the ids whose end was announced

plVars == <<list, sounding, ended>>

Listed(l, c) == {l[c][i] : i \in 1..Len(l[c])}

\* "at most ONE track sounds (the front of the queue), the rest wait in order"
Fronts(l) == {l[c][1] : c \in {d \in Channels : l[d] # <<>>}}

Init == /\ list = [c \in Channels |-> <<>>]
        /\ sounding = {} /\ ended = {}

\* enqueue(): a fresh id, behind everything that waits
Enqueue(c, id) ==
  /\ Len(list[c]) < Limit
  /\ id \notin ended /\ \A d \in Channels : id \notin Listed(list, d)
  /\ list' = [list EXCEPT ![c] = Append(@, id)]
  /\ sounding' = Fronts(list')
  /\ UNCHANGED ended

\* ended(): played, stopped or failed, at any place of the queue; those behind
\* move up
End(c, i) ==
  /\ list' = [list EXCEPT ![c] = [k \in 1..(Len(@) - 1) |-> IF k < i THEN @[k] ELSE @[k + 1]]]
  /\ sounding' = Fronts(list')
  /\ ended' = ended \cup {list[c][i]}

Next ==
  \E c \in Channels : \/ \E id \in Ids : Enqueue(c, id)
                      \/ \E i \in 1..Len(list[c]) : End(c, i)

Spec == Init /\ [][Next]_plVars
=============================================================================
