------------------------------ MODULE MCClient ------------------------------
(***************************************************************************)
(* Client for TLC: two channels, two values a fader may have.              *)
(***************************************************************************)
EXTENDS Client

CONSTANTS game, voice

MCChannels == {game, voice}
MCDesk == <<game>>
=============================================================================
