---------------------------- MODULE BlockStates ----------------------------
(***************************************************************************)
(* The historic states anvil keeps per block hash: InMemoryBlockStates of  *)
(* crates/anvil/src/eth/backend/mem/storage.rs and the DiskStateCache of   *)
(* mem/cache.rs it moves old states to.                                    *)
(*                                                                         *)
(* do_mine_block calls insert(best_hash, state) before it executes a       *)
(* block.  insert and update_interval_mine_block_time run enforce_limits,  *)
(* two loops, under the write lock of Backend::states: pc says where the   *)
(* holder of that lock is.  The files are written by spawned tasks that do *)
(* not hold the lock.                                                      *)
(*                                                                         *)
(* A state is named by the number of the insert that brought it; 0 is no   *)
(* state.                                                                  *)
(***************************************************************************)
EXTENDS Naturals, Sequences, FiniteSets

CONSTANTS
    Hash,                   \* block hashes
    NoHash,                 \* no hash: the update stores nothing
    IN_MEMORY_LIMIT,        \* new(in_memory_limit, _): --prune-history
    ON_DISK_LIMIT,          \* new(_, on_disk_limit); 0 is memory_only
    MIN_HISTORY_LIMIT,      \* the constant of storage.rs
    FAST_LIMIT,             \* DEFAULT_HISTORY_LIMIT * 3
    Reinsert,               \* may the chain go back and mine on a block again
    DiskFails,              \* may writing a file fail
    MaxInserts              \* bound on the number of inserts

ASSUME LimitAssumption ==
    /\ IN_MEMORY_LIMIT \in Nat
    /\ ON_DISK_LIMIT \in Nat
    /\ MIN_HISTORY_LIMIT \in Nat
    /\ FAST_LIMIT \in Nat \ {0}
    /\ MaxInserts \in Nat
    /\ Reinsert \in BOOLEAN
    /\ DiskFails \in BOOLEAN
    /\ NoHash \notin Hash

VARIABLES
    states,             \* states in memory
    on_disk_states,     \* the hashes whose state was moved to disk
    in_memory_limit,
    oldest_on_disk,
    present,
    files,              \* the content of the cache directory
    writes,             \* spawned write tasks, <<hash, state>>
    failed,             \* history: the tasks whose write failed
    pc,                 \* where the holder of the write lock is
    arg,                \* the hash insert was called with, none for an update
    inserts,            \* number of inserts so far
    latest              \* the state last inserted for a hash

memory == <<states, on_disk_states, in_memory_limit, oldest_on_disk, present>>
disk == <<files, writes, failed>>
vars == <<memory, disk, pc, arg, inserts, latest>>

Listed(q) == {q[i] : i \in 1 .. Len(q)}

Smaller(a, b) == IF a < b THEN a ELSE b

Larger(a, b) == IF a < b THEN b ELSE a

min_in_memory_limit == Smaller(IN_MEMORY_LIMIT, MIN_HISTORY_LIMIT)

is_memory_only == ON_DISK_LIMIT = 0

Init ==
    /\ states = [h \in Hash |-> 0]
    /\ on_disk_states = {}
    /\ in_memory_limit = IN_MEMORY_LIMIT
    /\ oldest_on_disk = <<>>
    /\ present = <<>>
    /\ files = [h \in Hash |-> 0]
    /\ writes = {}
    /\ failed = {}
    /\ pc = "idle"
    /\ arg = NoHash
    /\ inserts = 0
    /\ latest = [h \in Hash |-> 0]

-----------------------------------------------------------------------------
(* Once the limit is hit it is decreased step by step, if states can go to *)
(* disk.                                                                   *)
Decreased(limit) ==
    IF ~is_memory_only /\ Len(present) >= limit
    THEN Larger(IF limit = 0 THEN 0 ELSE limit - 1, min_in_memory_limit)
    ELSE limit

Insert(h) ==
    /\ pc = "idle"
    /\ inserts < MaxInserts
    /\ Reinsert \/ latest[h] = 0
    /\ in_memory_limit' = Decreased(in_memory_limit)
    /\ pc' = "memory"
    /\ arg' = h
    /\ UNCHANGED <<states, on_disk_states, oldest_on_disk, present, disk,
                   inserts, latest>>

(* evm_setIntervalMining or --block-time with at most two seconds. *)
UpdateIntervalMineBlockTime ==
    /\ pc = "idle"
    /\ in_memory_limit' = FAST_LIMIT
    /\ pc' = "memory"
    /\ arg' = NoHash
    /\ UNCHANGED <<states, on_disk_states, oldest_on_disk, present, disk,
                   inserts, latest>>

-----------------------------------------------------------------------------
\* Slip: evict only once the limit is exceeded.
MemoryFullLate == Len(present) > in_memory_limit

MemoryFull == Len(present) >= in_memory_limit

\* Slip: the hash at the front is read, not taken.
PeekFront == present

PopFront == IF present = <<>> THEN <<>> ELSE Tail(present)

\* Slip: the newest hash comes first.
PushFront(q, h) == <<h>> \o q

PushBack(q, h) == Append(q, h)

\* Slip: the snapshot is taken after the state was removed.
SpawnedEmpty(h) == <<h, 0>>

\* disk_cache.write(hash, state_snapshot) spawns the task that writes.
Spawned(h) == <<h, states[h]>>

(* enforce_limits: one turn of its first loop evicts the oldest state from *)
(* memory.  A listed hash that has no state any more is just dropped, and  *)
(* if nothing is listed the turn changes nothing.                          *)
EvictOldest ==
    /\ pc = "memory"
    /\ MemoryFull
    /\ LET popped == IF present = <<>> THEN {} ELSE {Head(present)}
           evicted == {h \in popped : states[h] # 0}
           toDisk == IF is_memory_only THEN {} ELSE evicted
       IN  /\ present' = PopFront
           /\ states' = [h \in Hash |-> IF h \in popped THEN 0 ELSE states[h]]
           /\ on_disk_states' = on_disk_states \cup toDisk
           /\ oldest_on_disk' = IF toDisk = {} THEN oldest_on_disk
                                ELSE PushBack(oldest_on_disk, Head(present))
           /\ writes' = writes \cup {Spawned(h) : h \in toDisk}
    /\ UNCHANGED <<in_memory_limit, files, failed, pc, arg, inserts, latest>>

MemoryEnforced ==
    /\ pc = "memory"
    /\ ~MemoryFull
    /\ pc' = "disk"
    /\ UNCHANGED <<memory, disk, arg, inserts, latest>>

(* The second loop purges the oldest states on disk. *)
DiskFull == ~is_memory_only /\ Len(oldest_on_disk) >= ON_DISK_LIMIT

PurgeOldest ==
    /\ pc = "disk"
    /\ DiskFull
    /\ LET hash == Head(oldest_on_disk)
       IN  /\ oldest_on_disk' = Tail(oldest_on_disk)
           /\ on_disk_states' = on_disk_states \ {hash}
           /\ files' = [files EXCEPT ![hash] = 0]
    /\ UNCHANGED <<states, in_memory_limit, present, writes, failed, pc, arg,
                   inserts, latest>>

\* states.insert(hash, state)
Stored(h, s) == [states EXCEPT ![h] = s]

(* The limits are enforced; insert now stores the new state. *)
FinishInsert ==
    /\ pc = "disk"
    /\ ~DiskFull
    /\ arg # NoHash
    /\ inserts' = inserts + 1
    /\ states' = Stored(arg, inserts + 1)
    /\ latest' = [latest EXCEPT ![arg] = inserts + 1]
    /\ present' = PushBack(present, arg)
    /\ pc' = "idle"
    /\ arg' = NoHash
    /\ UNCHANGED <<on_disk_states, in_memory_limit, oldest_on_disk, disk>>

FinishUpdate ==
    /\ pc = "disk"
    /\ ~DiskFull
    /\ arg = NoHash
    /\ pc' = "idle"
    /\ UNCHANGED <<memory, disk, arg, inserts, latest>>

(* clear, called when the fork is reset. *)
Clear ==
    /\ pc = "idle"
    /\ states' = [h \in Hash |-> 0]
    /\ on_disk_states' = {}
    /\ present' = <<>>
    /\ oldest_on_disk' = <<>>
    /\ files' = [h \in Hash |-> IF h \in Listed(oldest_on_disk)
                                THEN 0 ELSE files[h]]
    /\ UNCHANGED <<in_memory_limit, writes, failed, pc, arg, inserts, latest>>

(* A spawned task writes its file, in any order with the others. *)
WriteTask(w) ==
    /\ files' = [files EXCEPT ![w[1]] = w[2]]
    /\ writes' = writes \ {w}
    /\ UNCHANGED <<memory, failed, pc, arg, inserts, latest>>

(* The write fails; the task logs the error and ends. *)
WriteFails(w) ==
    /\ DiskFails
    /\ writes' = writes \ {w}
    /\ failed' = failed \cup {w}
    /\ UNCHANGED <<memory, files, pc, arg, inserts, latest>>

-----------------------------------------------------------------------------
(* The states a caller of `get' is given. *)
Get(h) ==
    IF states[h] # 0 THEN states[h]
    ELSE IF h \in on_disk_states THEN files[h] ELSE 0

LockStep ==
    \/ EvictOldest
    \/ MemoryEnforced
    \/ PurgeOldest
    \/ FinishInsert
    \/ FinishUpdate

Next ==
    \/ \E h \in Hash : Insert(h)
    \/ UpdateIntervalMineBlockTime
    \/ Clear
    \/ LockStep
    \/ \E w \in writes : WriteTask(w) \/ WriteFails(w)

Spec == Init /\ [][Next]_vars

(* The thread that holds the lock goes on. *)
Fairness == WF_vars(LockStep)

FairSpec == Spec /\ Fairness

-----------------------------------------------------------------------------
(* Every variable has its type. *)
TypeOK ==
    /\ states \in [Hash -> 0 .. MaxInserts]
    /\ on_disk_states \subseteq Hash
    /\ in_memory_limit \in Nat
    /\ oldest_on_disk \in Seq(Hash)
    /\ present \in Seq(Hash)
    /\ files \in [Hash -> 0 .. MaxInserts]
    /\ writes \subseteq Hash \X (1 .. MaxInserts)
    /\ failed \subseteq Hash \X (1 .. MaxInserts)
    /\ pc \in {"idle", "memory", "disk"}
    /\ arg \in Hash \cup {NoHash}
    /\ inserts \in 0 .. MaxInserts
    /\ latest \in [Hash -> 0 .. MaxInserts]

(* Whatever is inserted again, evicted or cleared, a state that is kept is *)
(* listed in the queue that will evict it, and once enforce_limits is done *)
(* neither queue is longer than its limit: memory and index stay bounded.  *)
Bounded ==
    /\ \A h \in Hash : states[h] # 0 => h \in Listed(present)
    /\ on_disk_states \subseteq Listed(oldest_on_disk)
    /\ pc = "idle" => /\ Len(present) <= in_memory_limit
                      /\ ~DiskFull

Held(h) == states[h] # 0 \/ h \in on_disk_states

(* insert's comment: "the oldest state is removed" when a limit is         *)
(* reached.  If a state is still held, every state inserted later is too.  *)
OldestRemovedFirst ==
    \A old, new \in Hash :
        0 < latest[old] /\ latest[old] < latest[new] /\ Held(old) => Held(new)

(* What the index says is on disk can be read from there, whatever the     *)
(* order of writes, purges and a clear: the file of a listed hash holds    *)
(* its state, or the task that writes it still runs, or reported that it   *)
(* failed.                                                                 *)
NothingLostOnDisk ==
    \A h \in on_disk_states :
        files[h] = latest[h] \/ <<h, latest[h]>> \in writes \cup failed

(* The loops of enforce_limits end, so the lock on the states is released. *)
LimitsAreEnforced == pc # "idle" ~> pc = "idle"

-----------------------------------------------------------------------------
(* What comments of the repository say and the code does not keep; README, *)
(* Divergences, gives the instances.                                       *)

(* `get' never returns a state older than the one last inserted for its    *)
(* hash: "When a state that was previously written to disk is requested,   *)
(* it is simply read from disk".                                           *)
ServesLatest == \A h \in Hash : Get(h) # 0 => Get(h) = latest[h]

(* max_on_disk_limit: "Limiting the states will prevent disk blow up".     *)
(* Once the write tasks have ended there are no more files than allowed.   *)
FilesBounded ==
    pc = "idle" /\ writes = {} =>
        Cardinality({h \in Hash : files[h] # 0}) <= ON_DISK_LIMIT

(* --prune-history: "at most this number of states is kept in memory".     *)
ConfiguredLimit ==
    Cardinality({h \in Hash : states[h] # 0}) <= IN_MEMORY_LIMIT
=============================================================================
