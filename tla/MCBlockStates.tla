--------------------------- MODULE MCBlockStates ---------------------------
(* Instances of BlockStates.  A hash is symmetric with the others: no       *)
(* action orders hashes.                                                    *)
EXTENDS BlockStates, TLC

HashSymmetry == Permutations(Hash)
=============================================================================
