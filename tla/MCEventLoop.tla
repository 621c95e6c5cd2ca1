----------------------------- MODULE MCEventLoop -----------------------------
(* Instances of EventLoop for TLC.                                          *)
EXTENDS EventLoop, TLC

CONSTANTS t1, t2

OnFirst == [o \in Object |-> t1]
Symmetry == Permutations(Object) \cup Permutations(Poster)
=============================================================================
