------------------------------ MODULE MCChain ------------------------------
(* Instances of Chain; transactions and threads are interchangeable.        *)
EXTENDS Chain, TLC

\* One thread makes all calls.
Alone(calls) ==
    {[t \in Threads |-> IF t = u THEN calls ELSE {}] : u \in Threads}

Rewinding == Alone({"mine", "rollback", "reorg"})

Snapshotting == Alone({"mine", "snapshot", "revert"})

\* Nobody reverts, but snapshots are taken while blocks are mined.
Mining == {[t \in Threads |-> {"mine", "snapshot"}]}

AnyOfThese == Rewinding \cup Snapshotting \cup Mining

ChainSymmetry == Permutations(Txs) \cup Permutations(Threads)
=============================================================================
