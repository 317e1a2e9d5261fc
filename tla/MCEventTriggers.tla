-------------------------- MODULE MCEventTriggers --------------------------
(* A MIDI definition for a port p and one for a port q that p can be renamed to, a
   keystroke; two devices, so that two ports of one name can be open. *)
EXTENDS EventTriggers

CONSTANTS mp, mq, key, p, q

MCMidiDefs == {mp, mq}
MCPortOf == [d \in MCMidiDefs |-> IF d = mp THEN p ELSE q]
=============================================================================
