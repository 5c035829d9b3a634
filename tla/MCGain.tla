------------------------------ MODULE MCGain ------------------------------
(***************************************************************************)
(* Gain for TLC: two grouped channels, a channel that comes back, two      *)
(* mixes, or a chain, in separate behaviours.                              *)
(***************************************************************************)
EXTENDS Gain

CONSTANTS game, voice, monitor, stream, chain

MCChannels == {game, voice}
MCMixes == {monitor, stream}
MCChains == {chain}
MCLevels == {0, 1}
MCViews ==
  {[known |-> {game, voice}, absent |-> {}, ops |-> 3, foreign |-> 0],
   [known |-> {game}, absent |-> {voice}, ops |-> 2, foreign |-> 1],
   [known |-> {game}, absent |-> {}, ops |-> 3, foreign |-> 1],
   [known |-> {monitor}, absent |-> {stream}, ops |-> 2, foreign |-> 1],
   [known |-> {monitor}, absent |-> {}, ops |-> 2, foreign |-> 4],
   [known |-> {}, absent |-> {chain}, ops |-> 2, foreign |-> 3]}

=============================================================================
