---------------------------- MODULE MCWakeResume ----------------------------
(* WakeResume for TLC: one profile; the intervals keep their order, scaled down
   to few units of the poll interval. *)
EXTENDS WakeResume

CONSTANTS A
Delays == <<1, 2>>
=============================================================================
