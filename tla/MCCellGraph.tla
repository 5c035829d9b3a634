---------------------------- MODULE MCCellGraph ----------------------------
(***************************************************************************)
(* CellGraph for TLC: one channel and two mixes in either order, or one of *)
(* them alone.                                                             *)
(***************************************************************************)
EXTENDS CellGraph

CONSTANTS game, monitor, stream

MCChannels == {game}
MCMixes == {monitor, stream}
MCOrders == {<<monitor>>, <<monitor, stream>>, <<stream, monitor>>}
MCStarts == {<< <<monitor, stream>>, <<monitor>> >>}

=============================================================================
