---------------------------- MODULE MCMultiFork ----------------------------
(* Instances of MultiFork; no symmetry, since liveness is checked.          *)
EXTENDS MultiFork

TwoBlocks == 1 .. 2
=============================================================================
