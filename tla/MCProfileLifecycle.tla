------------------------- MODULE MCProfileLifecycle -------------------------
(* ProfileLifecycle for TLC: one profile, remembered or not, and two start threads (a
   second start can begin while the tail of the first one still runs), interchangeable
   where no liveness is checked. *)
EXTENDS ProfileLifecycle, TLC

CONSTANTS A, t1, t2
Symmetry == Permutations(Threads)
=============================================================================
