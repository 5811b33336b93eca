--------------------------- MODULE MCTimeManager ---------------------------
(* Instances of TimeManager; requests are interchangeable.                  *)
EXTENDS TimeManager, TLC

RequestSymmetry == Permutations(Requests)
=============================================================================
