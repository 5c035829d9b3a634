------------------------------ MODULE MCLevels ------------------------------
(***************************************************************************)
(* Levels for TLC: two channels, one mix with its edge, two subscribers.   *)
(***************************************************************************)
EXTENDS Levels, TLC

CONSTANTS game, voice, window, tray

MCChannels == {game, voice}
MCClients == {window, tray}
MCSymmetry == Permutations(MCChannels) \cup Permutations(MCClients)
=============================================================================
