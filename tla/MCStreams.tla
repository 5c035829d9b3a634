----------------------------- MODULE MCStreams -----------------------------
(***************************************************************************)
(* Streams for TLC: two tabs of a browser, which share their node name, a  *)
(* stream of it with a name of its own, a soundboard that is the default   *)
(* channel, and a second channel whose slug begins with the board's.       *)
(***************************************************************************)
EXTENDS Streams

CONSTANTS firefox, tab1, tab2, call, media, rtc, game, pads, pads2, horn, elsewhere

MCChannels == {game, pads, pads2}
MCApps     == {tab1, tab2, call}
MCKeyOf    == [s \in MCApps |-> firefox]
MCNames    == {media, rtc}
MCNameOf   == [s \in MCApps |-> IF s = call THEN rtc ELSE media]
MCDecks    == {pads, pads2}
MCAlike    == [c \in MCChannels |-> IF c = pads THEN {pads, pads2} ELSE {c}]
MCSamples  == {horn}
MCRestored == {pads, elsewhere}
=============================================================================
