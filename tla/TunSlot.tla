------------------------------ MODULE TunSlot ------------------------------
(* What BoxTunRunner promises its server (interface TunRunner, server.go): one
   slot for a Tun instance.  An accepted start ends up or ends the slot; an
   instance that is up stays up until it is stopped, and a slot that was
   emptied is never filled again by a start that came before. *)
EXTENDS Naturals

VARIABLES phase,   \* "off", "starting" or "up"
          start    \* which accepted start the slot belongs to

slotVars == <<phase, start>>

Init == phase = "off" /\ start = 0

\* Only a new start fills an empty slot.
Accept == phase = "off" /\ phase' = "starting" /\ start' = start + 1

Up == phase = "starting" /\ phase' = "up" /\ UNCHANGED start

\* Stopped by the server, or a start that failed.
Empty == phase # "off" /\ phase' = "off" /\ UNCHANGED start

Next == Accept \/ Up \/ Empty

\* An accepted start does not hang.
Spec == Init /\ [][Next]_slotVars /\ WF_slotVars(phase = "starting" /\ (Up \/ Empty))
=============================================================================
