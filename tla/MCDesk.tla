------------------------------- MODULE MCDesk -------------------------------
(***************************************************************************)
(* Desk for TLC: one channel that may go and come back in up to three      *)
(* mixes, two of which stand at the start.                                 *)
(***************************************************************************)
EXTENDS Desk

CONSTANTS voice, monitor, stream, chat

MCChannels == {voice}
MCMixes == {monitor, stream, chat}
MCValues == {"unity", "low"}

MCStarter ==
  [channels |-> MCChannels, mixes |-> {monitor, stream},
   cells |-> [x \in MCChannels \X MCMixes |-> "unity"], links |-> {}, default |-> voice]

\* Layouts from elsewhere: the stream mix is not in it, a fader is down; the same with a link to it.
MCOther ==
  [MCStarter EXCEPT !.mixes = {monitor, chat}, !.cells[<<voice, monitor>>] = "low"]
MCForeign ==
  {MCOther,
   [MCOther EXCEPT !.links = {[channel |-> voice, mix |-> chat, follows |-> stream]}]}

=============================================================================
