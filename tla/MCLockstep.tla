----------------------------- MODULE MCLockstep -----------------------------
(* Lockstep on small instances: all peers have the same delay, except      *)
(* perhaps one that was told of a longer one.                              *)
EXTENDS Lockstep

CONSTANTS CommonDelay, Slow

MCDelay == [s \in Player |-> IF s = Slow THEN CommonDelay + 1 ELSE CommonDelay]
=============================================================================
