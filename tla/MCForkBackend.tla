--------------------------- MODULE MCForkBackend ---------------------------
(* Instances of ForkBackend.                                                *)
EXTENDS ForkBackend

TwoBlocks == 1 .. 2

\* Every pair of calls whose effects meet.
Pairs == {{"load", "roll", "setBlockNumber"},
          {"load", "roll", "end"},
          {"load", "end", "setBlockNumber"},
          {"load", "transact"},
          {"load", "snapshot"},
          {"roll", "snapshot"},
          {"setBlockNumber", "snapshot"}}
=============================================================================
