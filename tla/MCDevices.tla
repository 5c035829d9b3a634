------------------------------ MODULE MCDevices ------------------------------
(***************************************************************************)
(* Devices for TLC: headphones, speakers of which a port can be named, and *)
(* two microphones.                                                        *)
(***************************************************************************)
EXTENDS Devices

CONSTANTS phones, speakers, mic, headset, whole, aux

Ref(d, p)  == [node |-> d, ports |-> p]
MCOutRefs == {Ref(phones, whole), Ref(speakers, whole), Ref(speakers, aux)}
MCInRefs  == {Ref(mic, whole), Ref(headset, aux)}
=============================================================================
