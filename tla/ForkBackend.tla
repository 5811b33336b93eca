---------------------------- MODULE ForkBackend ----------------------------
(***************************************************************************)
(* The EVM backend of forge and its forks (crates/evm/core/src/backend):   *)
(* the databases and journaled states of the forks, which of them is       *)
(* active, and the snapshots of a test, under the cheatcodes createFork,   *)
(* selectFork, rollFork, transact, roll, snapshotState, revertToState and  *)
(* deleteStateSnapshot.                                                    *)
(*                                                                         *)
(* Two storage slots stand for all: one of an ordinary account, which      *)
(* exists on the remote chain, and one of a persistent account, such as    *)
(* the test contract, which does not.  A journaled state or the cache of a *)
(* database holds a value for a slot or nothing.  The remote value of the  *)
(* ordinary slot is the block number; values above it were written.  Of    *)
(* the env only block.number is kept.                                      *)
(*                                                                         *)
(* The last six variables are what a test may expect: the value of the     *)
(* ordinary slot and the block number in every fork, the one value of the  *)
(* persistent slot.  They are no part of the code.                         *)
(***************************************************************************)
EXTENDS Naturals, Sequences

CONSTANTS
    None,           \* no value, no active fork
    Blocks,         \* blocks that can be forked
    Launched,       \* may the backend be launched with a fork, or without
    Plans,          \* what a test may call, each a subset of Calls
    MaxForks,       \* bound on the forks created
    MaxRolls,       \* bound on rollFork
    MaxWrites,      \* bound on the values written
    MaxRounds,      \* bound on ended transactions
    MaxSnapshots    \* bound on snapshots

Calls == {"load", "setBlockNumber", "end", "roll", "transact", "snapshot"}

ASSUME ForkBackendAssumption ==
    /\ Plans \subseteq SUBSET Calls
    /\ Blocks \subseteq Nat \ {0}
    /\ Launched \subseteq BOOLEAN
    /\ {MaxForks, MaxRolls, MaxWrites, MaxRounds, MaxSnapshots} \subseteq Nat
    /\ MaxForks > 0
    /\ None \notin Nat
    /\ None \notin [id : 1 .. MaxForks, idx : 1 .. MaxForks]

VARIABLES
    mem_db,                     \* the database without a fork
    init_journaled_state,       \* fork_init_journaled_state
    active,                     \* active_fork_ids
    issued_local_fork_ids,      \* local id -> ForkId
    created_forks,              \* ForkId -> index
    forks,                      \* index -> database, its block, journaled state
    multi,                      \* the MultiFork: ForkId -> block and env
    state_snapshots,            \* id -> snapshot
    journaled_state,            \* of the EVM that runs the test
    env,                        \* its block.number
    writes,                     \* values written so far
    rounds,                     \* transactions ended
    plan,                       \* what this test calls besides create and select
    own,                        \* local id -> ordinary slot
    number,                     \* local id -> block number
    base,                       \* ordinary slot, written before a fork was selected
    blurred,                    \* forks of which nothing is promised (README, Divergences)
    shared,                     \* persistent slot
    sure                        \* of shared: "yes", "no", or "forgot" until forks change

maps == <<issued_local_fork_ids, created_forks>>
ghost == <<own, number, base, blurred, shared, sure>>
vars == <<mem_db, init_journaled_state, active, maps, forks, multi, state_snapshots,
          journaled_state, env, writes, rounds, plan, ghost>>

Slots == {"ordinary", "persistent"}

Nothing == [s \in Slots |-> None]

\* The entries of `over' hide those of `under'.
Over(over, under) == [s \in Slots |-> IF over[s] # None THEN over[s] ELSE under[s]]

Remote(block) == [s \in Slots |-> IF s = "ordinary" THEN block ELSE 0]

LocalIds == DOMAIN issued_local_fork_ids

Index(id) == created_forks[issued_local_fork_ids[id]]

\* What the EVM reads through a journaled state from a database.
Read(state, fork) == Over(state, Over(fork.db, Remote(fork.block)))

Fork(db, block, state) == [db |-> db, block |-> block, state |-> state]

ActiveFork == IF active = None THEN Fork(mem_db, 0, Nothing) ELSE forks[active.idx]

Visible == Read(journaled_state, ActiveFork)

IsActive(id) == active # None /\ active.id = id

\* What a test would see in a fork.
View(id) == IF IsActive(id) THEN Visible ELSE Read(forks[Index(id)].state, forks[Index(id)])

BlockNumber(id) == IF IsActive(id) THEN env ELSE multi[issued_local_fork_ids[id]].env

\* A ForkDB at a block that was just created.
NewFork(block, state) == Fork(Nothing, block, state)

(* create_fork and roll_fork of the MultiFork: a new ForkId; if the block  *)
(* was forked before, with the env of the first fork of that block.        *)
Forked(block) ==
    LET same == {i \in DOMAIN multi : multi[i].block = block}
    IN  [block |-> block,
         env |-> IF same = {} THEN block
                 ELSE multi[CHOOSE i \in same : \A j \in same : i <= j].env]

Init ==
    /\ mem_db = Nothing
    /\ init_journaled_state = Nothing
    /\ state_snapshots = <<>>
    /\ journaled_state = Nothing
    /\ writes = 0
    /\ rounds = 0
    /\ plan \in Plans
    /\ base = None
    /\ blurred = {}
    /\ shared = 0
    /\ sure = "yes"
    /\ \/ /\ FALSE \in Launched
          /\ active = None
          /\ issued_local_fork_ids = <<>>
          /\ created_forks = <<>>
          /\ forks = <<>>
          /\ multi = <<>>
          /\ env = 0
          /\ own = <<>>
          /\ number = <<>>
       \/ /\ TRUE \in Launched
          /\ \E block \in Blocks :
               /\ active = [id |-> 1, idx |-> 1]
               /\ issued_local_fork_ids = <<1>>
               /\ created_forks = <<1>>
               /\ forks = <<NewFork(block, Nothing)>>
               /\ multi = <<[block |-> block, env |-> block]>>
               /\ env = block
               /\ own = <<block>>
               /\ number = <<block>>

-----------------------------------------------------------------------------
(* The code a test runs                                                    *)

Written(n) == 10 + n

\* SSTORE or vm.store
Store(slot) ==
    /\ writes < MaxWrites
    /\ writes' = writes + 1
    /\ journaled_state' = [journaled_state EXCEPT ![slot] = Written(writes)]
    /\ shared' = IF slot = "persistent" THEN Written(writes) ELSE shared
    /\ base' = IF slot = "ordinary" /\ active = None THEN Written(writes) ELSE base
    /\ own' = IF slot = "ordinary" /\ active # None
              THEN [own EXCEPT ![active.id] = Written(writes)] ELSE own
    /\ UNCHANGED <<mem_db, init_journaled_state, active, maps, forks, multi,
                   state_snapshots, env, rounds, number, blurred, sure>>

\* SLOAD keeps what it reads in the journaled state.
Load(slot) ==
    /\ "load" \in plan
    /\ journaled_state[slot] = None
    /\ journaled_state' = [journaled_state EXCEPT ![slot] = Visible[slot]]
    /\ blurred' = IF active = None /\ slot = "ordinary" THEN 1 .. MaxForks ELSE blurred
    /\ UNCHANGED <<mem_db, init_journaled_state, active, maps, forks, multi,
                   state_snapshots, env, writes, rounds, own, number, base, shared, sure>>

\* vm.roll
SetBlockNumber ==
    /\ "setBlockNumber" \in plan
    /\ writes < MaxWrites
    /\ writes' = writes + 1
    /\ env' = Written(writes)
    /\ number' = IF active = None THEN number ELSE [number EXCEPT ![active.id] = env']
    /\ UNCHANGED <<mem_db, init_journaled_state, active, maps, forks, multi, state_snapshots,
                   journaled_state, rounds, own, base, blurred, shared, sure>>

(* The transaction ends: Executor::commit writes its state to the active   *)
(* database, and the next one starts with an empty journaled state.        *)
EndTransaction ==
    /\ "end" \in plan
    /\ rounds < MaxRounds
    /\ rounds' = rounds + 1
    /\ IF active = None
       THEN /\ mem_db' = Over(journaled_state, mem_db)
            /\ base' = None
            /\ sure' = "no"
            /\ UNCHANGED forks
       ELSE /\ forks' = [forks EXCEPT ![active.idx] =
                           Fork(Over(journaled_state, @.db), @.block, @.state)]
            /\ sure' = IF sure = "yes" THEN "forgot" ELSE sure
            /\ UNCHANGED <<mem_db, base>>
    /\ journaled_state' = Nothing
    /\ UNCHANGED <<init_journaled_state, active, maps, multi, state_snapshots, env, writes,
                   own, number, blurred, shared>>

-----------------------------------------------------------------------------
(* Forks                                                                   *)

\* The ordinary slot of a fork that starts afresh.
Fresh(block) == IF active # None /\ base # None THEN base ELSE block

(* insert_new_fork with the init journaled state. *)
CreateFork(block) ==
    /\ Len(issued_local_fork_ids) < MaxForks
    /\ multi' = Append(multi, Forked(block))
    /\ issued_local_fork_ids' = Append(issued_local_fork_ids, Len(multi'))
    /\ created_forks' = Append(created_forks, Len(forks) + 1)
    /\ forks' = Append(forks, NewFork(block, init_journaled_state))
    /\ own' = Append(own, Fresh(block))
    /\ number' = Append(number, Forked(block).env)
    /\ UNCHANGED <<mem_db, init_journaled_state, active, state_snapshots, journaled_state,
                   env, writes, rounds, base, blurred, shared, sure>>

\* Slip: the changes made in the fork that is left are not recorded.
Left(fork, state) == fork

\* active.journaled_state = active_journaled_state.clone()
Recorded(fork, state) == Fork(fork.db, fork.block, state)

\* Slip: the values the target has seen last win.
MergedUnder(from, to) == [to EXCEPT !["persistent"] = Over(to, from)["persistent"]]

\* merge_db_account_data, merge_journaled_state_data for persistent accounts
Merged(from, to) == [to EXCEPT !["persistent"] = Over(from, to)["persistent"]]

\* Slip: the block number set by the test is not kept.
NotUpdated(id) == multi

\* update_block
UpdatedBlock(id) ==
    [multi EXCEPT ![issued_local_fork_ids[id]] = [block |-> @.block, env |-> env]]

\* What is no longer remembered is not sure when the forks change.
StillSure == IF sure = "forgot" THEN "no" ELSE sure

\* The forks with what the one that is left, or the test before any, has changed.
Kept ==
    IF active # None
    THEN [forks EXCEPT ![active.idx] = Recorded(@, journaled_state)]
    ELSE [i \in DOMAIN forks |-> Recorded(forks[i], journaled_state)]

\* The target of a selection with the persistent accounts merged into it.
MergedInto(target) ==
    Fork(Merged(ActiveFork.db, target.db), target.block, Merged(journaled_state, target.state))

SelectFork(id) ==
    /\ ~IsActive(id)
    /\ multi' = IF active = None THEN multi ELSE UpdatedBlock(active.id)
    /\ forks' = [Kept EXCEPT ![Index(id)] = MergedInto(@)]
    /\ journaled_state' = MergedInto(Kept[Index(id)]).state
    /\ init_journaled_state' = IF active = None THEN journaled_state ELSE init_journaled_state
    /\ active' = [id |-> id, idx |-> Index(id)]
    /\ env' = multi'[issued_local_fork_ids[id]].env
    /\ own' = IF active = None /\ base # None THEN [i \in DOMAIN own |-> base] ELSE own
    /\ sure' = StillSure
    /\ UNCHANGED <<mem_db, maps, state_snapshots, writes, rounds, number, base, blurred, shared>>

\* What is left of the journaled state after rolling the active fork.
RolledJournaledState == Merged(journaled_state, init_journaled_state)

(* roll_fork: a new database that keeps the persistent accounts, under the *)
(* same index.  If the fork is active the journaled state starts afresh.   *)
RollFork(id, block) ==
    /\ "roll" \in plan
    /\ Len(multi) < MaxForks + MaxRolls
    /\ multi' = Append(multi, Forked(block))
    /\ issued_local_fork_ids' = [issued_local_fork_ids EXCEPT ![id] = Len(multi')]
    /\ created_forks' = Append(created_forks, Index(id))
    /\ LET state == IF IsActive(id) THEN RolledJournaledState ELSE forks[Index(id)].state
       IN  forks' = [forks EXCEPT ![Index(id)] = Fork(Merged(@.db, Nothing), block, state)]
    /\ journaled_state' = IF IsActive(id) THEN RolledJournaledState ELSE journaled_state
    /\ env' = IF IsActive(id) THEN Forked(block).env ELSE env
    /\ own' = [own EXCEPT ![id] = Fresh(block)]
    /\ number' = [number EXCEPT ![id] = Forked(block).env]
    /\ blurred' = IF IsActive(id) \/ active = None THEN blurred ELSE blurred \cup {id}
    /\ sure' = StillSure
    /\ UNCHANGED <<mem_db, init_journaled_state, active, state_snapshots, writes, rounds,
                   base, shared>>

\* update_state: what is loaded of the ordinary account is read again.
Reloaded(state, db, block) ==
    IF state["ordinary"] = None THEN state
    ELSE [state EXCEPT !["ordinary"] = Over(db, Remote(block))["ordinary"]]

\* apply_state_changeset: both journaled states are updated from the fork's
\* database.
Applied(id, db) ==
    /\ forks' = [forks EXCEPT ![Index(id)] = Fork(db, @.block, Reloaded(@.state, db, @.block))]
    /\ journaled_state' = Reloaded(journaled_state, db, forks[Index(id)].block)

\* A journaled state holds what was written in the fork, its database does not.
Uncommitted(id) ==
    LET fork == forks[Index(id)]
    IN  View(id)["ordinary"] # Over(fork.db, Remote(fork.block))["ordinary"]

(* vm.transact of a mined transaction that does not touch the ordinary     *)
(* slot.  It is read again all the same: what was not committed is lost,   *)
(* and nothing is promised of the fork any more.                           *)
TransactOther(id) ==
    /\ "transact" \in plan
    /\ Applied(id, forks[Index(id)].db)
    /\ base' = IF active = None THEN None ELSE base
    /\ blurred' = IF active = None THEN 1 .. MaxForks
                  ELSE blurred \cup (IF IsActive(id) THEN {} ELSE {active.id})
                               \cup (IF Uncommitted(id) THEN {id} ELSE {})
    /\ UNCHANGED <<mem_db, init_journaled_state, active, maps, multi, state_snapshots,
                   env, writes, rounds, own, number, shared, sure>>

(* vm.transact of one that writes it in the fork's database. *)
Transact(id) ==
    /\ "transact" \in plan
    /\ writes < MaxWrites
    /\ writes' = writes + 1
    /\ Applied(id, [forks[Index(id)].db EXCEPT !["ordinary"] = Written(writes)])
    /\ own' = [own EXCEPT ![id] = Written(writes)]
    /\ base' = IF active = None THEN None ELSE base
    /\ blurred' = IF active = None THEN 1 .. MaxForks
                  ELSE IF IsActive(id) THEN blurred ELSE blurred \cup {active.id}
    /\ UNCHANGED <<mem_db, init_journaled_state, active, maps, multi, state_snapshots,
                   env, rounds, number, shared, sure>>

-----------------------------------------------------------------------------
(* Snapshots                                                               *)

\* What a test may expect now.
Promise ==
    [own |-> own, number |-> number, base |-> base, blurred |-> blurred, shared |-> shared,
     sure |-> sure]

SnapshotState ==
    /\ "snapshot" \in plan
    /\ Len(state_snapshots) < MaxSnapshots
    /\ state_snapshots' =
         Append(state_snapshots,
                [there |-> TRUE,
                 active |-> active,
                 fork_id |-> IF active = None THEN None ELSE issued_local_fork_ids[active.id],
                 fork |-> ActiveFork,
                 state |-> journaled_state,
                 env |-> env,
                 promise |-> Promise])
    /\ UNCHANGED <<mem_db, init_journaled_state, active, maps, forks, multi,
                   journaled_state, env, writes, rounds, ghost>>

(* revert_state of an in-memory snapshot restores the memory database.  If *)
(* a fork is active nothing is promised of it any more.                    *)
RevertMemory(was) ==
    /\ mem_db' = was.fork.db
    /\ IF active = None
       THEN /\ base' = was.promise.base
            /\ blurred' = blurred \cup was.promise.blurred
            /\ shared' = was.promise.shared
            /\ sure' = was.promise.sure
       ELSE /\ blurred' = blurred \cup {active.id}
            /\ sure' = "no"
            /\ UNCHANGED <<base, shared>>
    /\ UNCHANGED <<active, maps, forks, own, number>>

(* That of a snapshot of a fork restores the fork, which becomes active.   *)
(* Nothing is promised of the fork that it leaves.                         *)
RevertFork(was) ==
    /\ forks' = [forks EXCEPT ![was.active.idx] = was.fork]
    /\ issued_local_fork_ids' = [issued_local_fork_ids EXCEPT ![was.active.id] = was.fork_id]
    /\ created_forks' = [created_forks EXCEPT ![was.fork_id] = was.active.idx]
    /\ active' = was.active
    /\ LET id == was.active.id
       IN  /\ own' = [own EXCEPT ![id] = was.promise.own[id]]
           /\ number' = [number EXCEPT ![id] = was.promise.number[id]]
           /\ blurred' = (blurred \ {id}) \cup (was.promise.blurred \cap {id})
                         \cup (IF IsActive(id) THEN {} ELSE {active.id})
    /\ shared' = was.promise.shared
    /\ sure' = IF was.promise.sure = "yes" THEN "forgot" ELSE "no"
    /\ UNCHANGED <<mem_db, base>>

\* The snapshot n with or without its entry.
Marked(n, there) == [state_snapshots EXCEPT ![n] = [@ EXCEPT !.there = there]]

RevertState(n, keep) ==
    /\ state_snapshots[n].there
    /\ LET was == state_snapshots[n]
       IN  /\ IF was.active = None THEN RevertMemory(was) ELSE RevertFork(was)
           /\ journaled_state' = was.state
           /\ env' = was.env
    /\ state_snapshots' = Marked(n, keep)
    /\ UNCHANGED <<init_journaled_state, multi, writes, rounds>>

DeleteStateSnapshot(n) ==
    /\ state_snapshots[n].there
    /\ state_snapshots' = Marked(n, FALSE)
    /\ UNCHANGED <<mem_db, init_journaled_state, active, maps, forks, multi,
                   journaled_state, env, writes, rounds, ghost>>

-----------------------------------------------------------------------------
Next ==
    /\ \/ \E slot \in Slots : Store(slot)
       \/ \E slot \in Slots : Load(slot)
       \/ SetBlockNumber
       \/ EndTransaction
       \/ \E block \in Blocks : CreateFork(block)
       \/ \E id \in LocalIds : SelectFork(id)
       \/ \E id \in LocalIds, block \in Blocks : RollFork(id, block)
       \/ \E id \in LocalIds : TransactOther(id) \/ Transact(id)
       \/ SnapshotState
       \/ \E n \in DOMAIN state_snapshots, keep \in BOOLEAN : RevertState(n, keep)
       \/ \E n \in DOMAIN state_snapshots : DeleteStateSnapshot(n)
    /\ UNCHANGED plan

Spec == Init /\ [][Next]_vars

-----------------------------------------------------------------------------
(* "Each `Fork`, identified by a unique id, uses completely separate       *)
(* storage": in every fork an ordinary account has the value written there *)
(* last, by the test or by a mined transaction, whatever was written,      *)
(* rolled or reverted in the others; before any write that of the block.   *)
(* Excepted are the forks in `blurred', among them one whose uncommitted   *)
(* write a vm.transact has overwritten by what the database holds.         *)
OwnState ==
    \A id \in LocalIds \ blurred : View(id)["ordinary"] = own[id]

(* A persistent account has one state that all forks share: what was       *)
(* written last is seen in the fork that is active, across selections and  *)
(* rolls, and after a revert what was seen when the snapshot was taken.    *)
SharedState == sure # "no" => Visible["persistent"] = shared

(* Selecting another fork and coming back preserves the block number the   *)
(* test had set there.                                                     *)
BlockPreserved ==
    \A id \in LocalIds \ blurred : BlockNumber(id) = number[id]

(* Not kept by the code (README, Divergences).                             *)
(* OwnState without exceptions: backend/mod.rs:391-393, "completely        *)
(* separate storage, write operations are performed only in the fork's own *)
(* database".                                                              *)
SeparateStorage == \A id \in LocalIds : View(id)["ordinary"] = own[id]
=============================================================================
