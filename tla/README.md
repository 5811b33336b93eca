# Foundry: a TLA+ verification project

TLA+ modules for the parts of the repository whose correctness depends on the
order of events, TLC configurations that check them on small instances, and
TLAPS proofs of the results that hold for every instance. `PROJECT.json` lists
components, runs, mutants, the definition-to-source map, hazards and theorems.
Paths below are relative to `src/crates/`.

    tlc -workers 2 -config X.cfg M      # a run
    tlapm M.tla                         # the proofs of a module

## 1. The system

Foundry is a toolkit for Ethereum development: `forge` (build, test, script),
`cast` (RPC client), `anvil` (a local node) and `chisel` (a REPL). Most of it is
sequential: compile, run the EVM, print. The state machines are these.

| part | state | operations | hard behaviour | what makes it correct |
| --- | --- | --- | --- | --- |
| transaction pool (`anvil/src/eth/pool`) | ready and waiting transactions, marker maps, unlock links | add, promote, replace, prune, remove, drop, clear, notify | long sequences of replacements; early returns in loops | maps agree, nothing lost or twice, every ready transaction reachable |
| miner and service (`eth/miner.rs`, `service.rs`) | mining mode, listener, producer queue | poll, switch mode, start a block, apply an outcome | lost wake-ups, two producers | a ready transaction is mined |
| RPC handlers (`eth/api.rs`) | values read before an await | submit, mine, drop, set modes, rollback, snapshot | stale nonces, stale heads | nonce order; calls change all parts together |
| historic states (`eth/backend/mem/storage.rs`, `cache.rs`) | states in memory, on disk, two queues | insert, enforce limits, get, clear | spawned writes, limits of 0 and 1, a hash twice | bounded, oldest first, nothing lost, loops end |
| chain (`eth/backend/mem`) | blocks, hashes, transactions, database, snapshots, env | mine, rollback, reorg, snapshot, revert | five pieces of state under different locks | one linked chain; database and env at its head |
| time manager (`eth/backend/time.rs`) | offset, last timestamp, exact timestamp, interval | set, reset, next_timestamp | one lock per field | block time does not go back |
| filters, subscriptions, fee history (`filter.rs`, `pubsub.rs`, `eth/fees.rs`) | a channel each, historic logs, waker, cache | make, poll, expire, evict, remove; notify | blocks rolled back between notification and lookup; wakers | every block told once, in order; fees of the chain |
| multi fork handler (`evm/core/src/fork/multi.rs`) | pending creations, forks, handlers, channel | create, roll, get, update, close | several waiters for one fork, two names for one block | every request answered, ids unique, backends driven |
| EVM backend (`evm/core/src/backend`) | forks, active fork, snapshots, persistent accounts | create, select, roll, transact, snapshot, revert | journaled state copied between forks | forks isolated, persistent accounts shared |
| cheatcodes inspector (`cheatcodes/src/inspector.rs`) | one prank, one broadcast, one expected revert, depths | hooks around every call and creation | nesting, failing calls | each cheat reaches the call it was meant for |
| script broadcast (`script`, `script-sequence`) | receipts, pending hashes, a file | send, save, wait, resume | crash between send and save, lost answers, timeouts | executed once, in order, to the end |
| invariant tests (`evm/evm/src/executors/invariant`, `forge/src/runner.rs`) | inputs, failures, shrinker, a file | call, assert, discard, shrink, persist, replay | dropped calls, limits that end a loop half way | verdicts true, counterexamples fail |
| fork client, forked database, state dump | caches | get, reset | reset against readers | not modelled |

An RPC handler submits to the pool; the pool notifies the miner; the service polls
the miner, hands the transactions to the block producer, which calls
`Backend::do_mine_block`; that stores the state before the block in the historic
states, asks the time manager, executes, writes chain storage and env and notifies
the listeners; the service applies the outcome to the pool. `evm_mine` does the
last part from an RPC task of its own. In `forge`, an invariant test or script runs
the EVM with the inspector's hooks on a backend that asks the multi fork handler,
a thread shared by all test contracts, for forks; the transactions the inspector
collected are what a script broadcasts. Formatter, doc generator, compilers,
verification clients, wallets, configuration and command line translate input to
output without interleaving; `PROJECT.json` lists each with its reason.

## 2. The modules

| module | models | run |
| --- | --- | --- |
| `TxPool`, `MCTxPool` | `Pool`, `PoolInner`, `PendingTransactions`, `ReadyTransactions` | `pool` |
| `AnvilNode` (extends `TxPool`), `MCAnvilNode`, `TxPoolProofs` (of both) | handlers, miner, service, producer, executor's choice of transactions | `node_live`, `node_ops` |
| `BlockStates`, `MCBlockStates`, `BackendProofs` | `InMemoryBlockStates`, `DiskStateCache` | `states` |
| `Chain`, `MCChain`, `ChainProofs` | `BlockchainStorage`, `MemDb` snapshots, `Backend::{do_mine_block, rollback, reorg, create_state_snapshot, revert_state_snapshot}` | `chain` |
| `TimeManager`, `MCTimeManager`, `BackendProofs` | `TimeManager` | `time` |
| `Listeners`, `MCListeners`, `BackendProofs` | `Filters`, `LogsFilter`, `LogsSubscription`, its connection, `FeeHistoryService`, `notify_on_new_block` | `listeners` |
| `ForkIds`, `ForkRegistry`, `MultiFork`, `MCMultiFork`, `MultiForkProofs` | `MultiFork`, `MultiForkHandler`; `ForkRegistry` is the abstract specification | `multifork` |
| `ForkBackend`, `MCForkBackend`, `ForkBackendProofs` | `Backend` and `BackendInner` of the EVM | `forks` |
| `Cheatcodes`, `MCCheatcodes`, `CheatcodesProofs` | `Cheatcodes::{call, call_end, create, create_end}`, prank, broadcast, expectRevert | `cheats` |
| `ScriptBroadcast`, `MCScriptBroadcast`, `ScriptBroadcastProofs` | `BundledState::broadcast`, `wait_for_pending`, `check_tx_status`, `ScriptSequence` | `broadcast` |
| `InvariantCampaign`, `MCInvariantCampaign`, `InvariantCampaignProofs` | `InvariantExecutor`, `CallSequenceShrinker`, `run_invariant_test` | `campaign` |

A definition marked `Slip` is a plausible mistake in the code that the definition
after it translates. No specification uses it: `PROJECT.json` names, for every
checked property, the slip that breaks it.

**TxPool.** Variables have the names of the fields. A transaction is a record of
sender, nonce, price; its marker is the pair of nonce and sender. Each method runs
under the pool's lock; the loops of `add_ready_transaction` and `prune_markers`
are one step per turn, `op` says who holds the lock. `unlocks` is a bag (a `Vec`
searched by value); a batch taken from a `HashSet` leaves in any order.

**AnvilNode.** `request[c]` is what the handler of client `c` has read so far:
validation, nonce and insertion are separate steps. `stage` and `block` are the
two tasks that produce blocks. `rx` is the listener's channel (full or empty),
`has_pending_txs` the miner's flag. The executor includes, skips or rejects a
transaction by nonce and block gas. What else it may meet is a choice from `Fates`:
the validator may refuse it (funds, fees, chain id, blobs) and it may be skipped (an
error of the database, blob gas). `kept_out`, the transactions a block refused or
skipped, is history that the code does not keep.

**BlockStates.** A state is the number of the insert that brought it. `pc` is the
place of the holder of the write lock in `insert` or
`update_interval_mine_block_time`; each turn of the two loops of `enforce_limits`
is a step. A file write is a member of `writes` until it runs. `load_states` is a
sequence of inserts; `set_cache_limit` has no caller.

**Chain.** Accounts are the set of executed transactions; a block is number,
parent, timestamp, header root and body. A call is split where it awaits and
between writes under different locks; consecutive reads, and the accounts a
rollback inserts one by one, are one step. `workload` fixes which calls each
thread of an instance makes: one thread mines and rolls back or reorganises, one thread mines,
takes snapshots and reverts, or all threads mine and take snapshots. With
`"revert_stale"` a thread also reverts to ids whose database is gone; the runs leave
it out (section 4). Historic states are never evicted here
(`BlockStates` is about that) and time is what `TimeManager` promises.

**TimeManager.** One step per write of a field; `clock_pc` is the place of a request. `compute_next_timestamp` holds
the guard of `next_exact_timestamp` and of `interval` to the end of its `if let`
chain (edition 2021), so its second step is atomic. `as u64` and `+ 1` are modulo
`U64`: the release profile has no overflow checks.

**Listeners.** Storing a block and announcing it are two steps, since
`do_mine_block` notifies after it released the storage; a rollback comes between.
A filter is made in two steps (`historic` read, channel registered). A block has an
id in place of its hash, so that a block mined again at a number differs. The
subscription keeps whether its waker is registered, the connection whether it was
woken and whether it made progress in this poll.

**MultiFork.** One step per request handled, per creation that ends and per client
answered by `insert_new_fork`. A `ForkId` is url, block number and the suffix that
`inc_senders` adds; `num_senders` is shared by the copies of a fork as its `Arc` is.
A backend is named by the creation that made it. `ForkRegistry` says what clients
may rely on; `Registry` maps the identifiers given out to `DOMAIN forks`.

**ForkBackend.** Two slots stand for the storage of ordinary and of persistent
accounts. The journaled state of the EVM, those recorded in the forks, the one
recorded before the first fork and the databases are separate variables with the
values they hold, so that reading means looking through them in order. What a test
may expect is kept apart from the code, in the variables of `ghost`: the ordinary slot
(`own`) and block number (`number`) of every fork, the value written before a fork was
selected (`base`) and the persistent slot (`shared`). The transaction of `vm.transact`
writes the ordinary slot or leaves it alone. `blurred` names the forks and
`sure` the moments at which section 4 says the code departs from it.

**Cheatcodes.** Contracts are arbitrary: a frame calls, delegates, creates, cheats,
returns and reverts as it likes. Each hook is one step, with the conditions on depth
and caller of the code; a delegate call has none, and runs at the pranked address if
the prank asks for that. What a frame asked for is kept in the frame (`next`,
`expects`). Of `expectRevert`, a count of zero, `expectCheatcodeRevert` and
`internal_expect_revert` are left out.

**ScriptBroadcast.** The process is a program counter with the sends, answers,
checkpoints and receipts of a batch as separate steps; `Crash` is enabled at all of
them and loses all but `file`. A script says which transactions are signed already
(`vm.broadcastRawTransaction`) and whether `--slow` is given. A signed one has the
same hash in every run, its nonce is not checked before it is sent, and its sender does not
count when the code decides whether to send one by one. The node is external and does
what nodes do: mine in nonce order, replace, revert, forget.

**InvariantCampaign.** The contract is a record with a transition table, chosen
among all of `Contracts`; calls are chosen freely. `left` says what a call that
reverts or is discarded leaves behind all the same, its block environment and its
cheatcodes. One step per call, per turn of the
shrinker and per replay. Saving the failure belongs to the step that reports it.

## 3. Runs

All runs pass.

| run | states | shows |
| --- | --- | --- |
| `pool` | 188 thousand | any sequence of submissions, replacements, promotions, prunings and removals keeps the maps consistent (`MarkersMatchReady`, `InOnePlace`, `NoSatisfiedWaiter`), every ready transaction is yielded, nothing is lost while promoting, the lock is released |
| `node_live` | 63 thousand | auto mining, one transaction per block, both ways to submit: every ready transaction is mined |
| `node_ops` | 425 thousand | mode switches, the three ways to drop, `evm_mine` beside the service, transactions refused or skipped: what is independent is executable, a block rejects a transaction only for a used nonce, for itself or for one before it that it kept out; `AnvilNode` implements `TxPool` (`PoolBehaviour`) |
| `states` | 588 thousand | eviction to disk with delayed and failing writes: `Bounded`, `OldestRemovedFirst`, `NothingLostOnDisk`, the loops end |
| `chain` | 1.7 million | rollbacks and reorgs, two snapshots and reverts, or two threads that mine and take snapshots: `ChainLinked`, `DbMatchesChain`, `HistoryTrue`, `TransactionsMatchBlocks`, `SnapshotsTrue` |
| `time` | 5.5 million | two requests interleaved with every step of `next_timestamp`: block time never goes back without a reset |
| `listeners` | 648 thousand | filters tell each block once and in order, the fee history is that of the chain, subscribed logs arrive |
| `multifork` | 98 thousand | the handler implements `ForkRegistry`, its liveness included; forks of one block share one driven backend |
| `forks` | 5.7 million | ordinary state and block number belong to their fork, persistent state is shared, over selection, rolling, transactions, snapshots |
| `cheats` | 2.7 million | senders, origins, nonces and expected reverts as the frames asked, over calls, delegate calls and creations |
| `broadcast` | 700 thousand | success means that all transactions were mined once and successfully, in order unless signed ones of another sender are in the same batches; every run ends |
| `campaign` | 1.2 million | 1440 contracts: verdicts are honest, the reported sequence is minimal if failing is monotone, it fails and the persisted one fails again unless a dropped call left something behind, every test ends |

**Refinement.** `PoolBehaviour`: hiding the node, `AnvilNode` behaves like `TxPool`.
`KeepsPromise`: `MultiFork` with `issued <- DOMAIN forks` implements
`ForkRegistry!Spec`, safety and the promise that every waiting client is answered.

**Bounds.** `MaxId`, `MaxMarkers`: transactions accepted and pruned per block;
four transactions, one of them a replacement, with three nonces give a chain of
dependents with its middle replaced, the shortest case in which unlock links can
go wrong. `node_ops` has two transactions of one sender because seven RPC methods
interleave and each transaction may be executed, refused or skipped, the least with which one is
kept out of a block ahead of its successor; replacement is in the other runs. `MaxQueued` bounds the producer
queue at one block in progress and one or two waiting, enough for two outcomes
applied out of order. `states`: limits of 2 in memory and 2 on disk and five
hashes make a state pass through memory, disk and purge while the limit shrinks
from 2 to 1 and grows to `FAST_LIMIT` 3. `Chain`: five blocks allow two to be mined,
one rolled back, one mined and a reorg of depth two; two snapshots, so that
a revert to one drops the other. `Time`: `U64` is 6, so an interval saturates, while `MaxLast` is 4, so
that the increment does not wrap. `listeners`: five blocks, one rollback and two
filters of one client allow a filter to be evicted with blocks queued and made
again while another block is announced; the kinds of listener share only the node,
so each has its own instance. `multifork`: three requests and two blocks: two
creations of one block under different names and a third that joins either.
`forks`: two forks, one roll, one snapshot, two written values, and in each
behaviour the calls of one of the sets `Pairs`, which together hold every pair whose
effects meet. `cheats`: four frames deep and six cheats or calls, enough to set,
use, nest and outlive a prank. `broadcast`: four transactions in batches of three
make a batch that is cut short and one that follows; three with a signed one in the
middle, of the same or another sender; three runs, two faults.
`campaign`: sequences of three calls with a shrink limit of four, one more than
the longest sequence.

`CHECK_DEADLOCK FALSE` is set where clients may stop or a bound ends the behaviour.
**Symmetry**: threads and requests are permuted where no action orders them, never
in runs with liveness.

**Fairness.** `TxPool`, `BlockStates`: weak fairness of the thread inside a locked
section, which waits for nobody. `AnvilNode`: weak fairness of the service's own
steps, since tokio polls a woken task; strong fairness of the service's steps that
need the pool's lock, because parking_lot's locks are eventually fair to a waiting
thread. `Listeners`: weak fairness of announcing a stored block (the same thread goes
on) and of polling a connection that was woken. `MultiFork`: weak fairness of the
handler's thread, which loops in `poll`; strong fairness of a pending creation's end
(it answers or fails, and each poll visits all tasks). `ScriptBroadcast`: the
process goes on, the node mines something it can mine. `InvariantCampaign`: the test
is sequential code. No fairness is assumed of clients, of a user who resumes a
script, or of faults.

## 4. Divergences

What a comment, a document or a stronger reading of the code suggests and the code
does not do, each seen with TLC on the instance given (constants of the nearest run
unless said). The named formulas are in the modules, unchecked by the runs.

Pool and node
* `NoForgottenReady` fails with two clients and `evm_mine`: `prune_markers` promotes
  waiting transactions (`pool/mod.rs:338`) and announces none, although listeners
  are told of "ready" transactions (`:125`); the auto miner sleeps on one.
* With `evm_mine` beside the service the loser of two producers reports a mined
  transaction as invalid and `remove_invalid` takes its ready successors with it.
* `PendingMeansUnmined` fails with two nonces: a nonce read before a block is stale
  when the pool is locked; the transaction waits for ever.
* `RejectedForCause` fails with `eth_sendTransaction`, `evm_mine` and
  `anvil_dropTransaction` under `InitMode = "None"`, and `IndependentExecutable` once `eth_sendTransaction` joins
  `node_ops`: the highest pooled nonce is taken for the on-chain one.
* `NoNonceTooHigh` fails in `node_ops`: if the validator refuses a transaction for its
  fees or funds, or the executor skips it (a database error, block or blob gas;
  `executor.rs:272-372`), its successor in the same block is too high, counts as
  invalid and is dropped from the pool. `RejectedForCause` excepts just that.
* `ReadyIsMined` fails if `"refused"` joins `Fates` of `node_live`: what
  `prune_markers` promotes is not announced (first item).

Historic states
* `LimitsAreEnforced` fails with `IN_MEMORY_LIMIT = 0`: `--prune-history 0`
  (`cmd.rs:171`) makes the loop at `storage.rs:149` run for ever.
* `OldestRemovedFirst` fails with `Reinsert = TRUE`, `ON_DISK_LIMIT = 0`: a hash
  listed twice loses its new state with the first entry.
* `ServesLatest` fails with `Reinsert = TRUE`, limits 1 and 3: two writes of one
  file in the wrong order.
* `FilesBounded` fails with limits 1 and 1: a purge comes before the spawned write
  it should undo.
* `ConfiguredLimit` fails with `IN_MEMORY_LIMIT = 1`, `FAST_LIMIT = 3`: interval
  mining overrides `--prune-history`.

Chain and time
* `unwind_to` removes a block's hash and body (`storage.rs:337-339`) before it looks
  its transactions up by number (`:360`), so they all stay stored;
  `TransactionsMatchBlocks` excepts chains that were rolled back.
* `BothRemove` fails in workload `Snapshotting`: reverting drops later snapshots from
  the database (`state_snapshot.rs:27-28`), not from `active_state_snapshots`
  (`mem/mod.rs:818`). With `"revert_stale"` in the workload `ChainLinked` fails too:
  reverting to such an id cuts the chain without a database to go with it.
* A snapshot taken while a block is mined may be ahead of the block it names: number
  and hash are read before the database is awaited. `SnapshotsTrue` asks for equality
  only if one thread makes all calls. Reverting while another thread mines is in no
  workload.
* `DbKnowsHashes` fails in workload `Rewinding`: a rollback clears block hashes.
* `ChainLinked` fails if one thread mixes rollback, snapshot and revert (reverting
  to a snapshot of an unwound block), or if one thread mines while the other rolls
  back (rollback does not take the mining lock).
* `NoLostRequest` fails in `Time`: an exact timestamp accepted between
  `compute_next_timestamp` and `take` is dropped.
* `NeverBackwards` fails with `U64 = 8`, `MaxLast = 7` and timestamp 7:
  `last_timestamp + 1` wraps.
* `set_next_block_timestamp` accepts a timestamp equal to the last one; its comment
  says that it fails.

Listeners
* `AlwaysWoken` fails: if the block of a notification is gone, `pubsub.rs:55-57`
  returns `Pending` with notifications queued and no waker registered, which the
  comment at `:44-46` rules out; the logs come with the next request.
* A block stored between reading `historic` and registering the channel, or announced
  after both, is missed or told twice by `eth_newFilter` with `fromBlock`.
* After a rollback `pop_next - num` (`fees.rs:344`) wraps if more entries than blocks
  are left, and `eth_feeHistory` skips the entries that are missing.

Forks
* `OwnEnv` fails: clients that fork the same block share `fork.opts.env`, and
  `UpdateBlock` of one is what the other is given, against "each contract uses its
  own encapsulated evm state" (`backend/mod.rs:388-390`). `createFork` of a block
  that another fork has warped starts with the warped env.
* `SeparateStorage` fails, against "completely separate storage"
  (`backend/mod.rs:391-393`): `vm.transact` on a fork that is not active writes the
  active journaled state into it; `rollFork` of a fork that is not active keeps what
  it had loaded of the old block; a slot loaded before the first `selectFork` stays 0
  in the fork; reverting a snapshot taken without a fork while a fork is active
  leaves the fork's state in place.
* `vm.transact` of a transaction that has nothing to do with a slot loses what the test
  has written there: `update_state` (`backend/mod.rs:1962-1977`) reads every slot of
  the journaled state again from the fork's database, which does not have
  the write yet. `OwnState` excepts a fork from then on (`Uncommitted`).
* A persistent slot that was loaded but not written since the transaction ended may
  be stale in a fork selected later.

Cheatcodes
* `OwnDelegateCalls` fails: `startPrank(addr, true)` reaches the delegate calls of any
  nested frame, because `inspector.rs:988-999` looks at neither depth nor caller.
  `cheatcodes/spec/src/vm.rs:639-653` speaks of subsequent calls. A plain prank
  leaves a delegate call's sender and origin alone, but calls made inside it may be
  given the pranked origin.
* `OnlyCallsCount` fails: after `expectRevert` with a count of two or more the test's
  own revert is taken for one of the reverts "from the upcoming calls"
  (`cheatcodes/spec/src/vm.rs:1075`).
* A mocked call that reverts never satisfies `expectRevert`.
* `stopPrank` and `startPrank` in a nested call leave `tx.origin` of the outer prank;
  a prank that its frame never used applies to a later call at that depth.
* The transaction of a creation undone by a revert stays in the list, and the next
  one has the same nonce.

Scripts and invariant tests
* `AlwaysInOrder` fails: whether to send one by one depends on the number of senders of
  unsigned transactions (`broadcast.rs:213-223`), so a transaction of another sender
  that was signed with `vm.broadcastRawTransaction` goes out in one concurrent batch
  with the others. The test of that cheat passes `--slow`
  (`forge/tests/cli/script.rs:2195-2211`).
* `AlwaysReportedFails` fails, and `FailsAgain` without `NothingLost`: the environment
  and cheatcodes of a reverted call are persisted (`executors/mod.rs:471-486`), so
  that a `vm.warp` before the revert stays, while the call is dropped from the inputs
  (`invariant/result.rs:152-156`); what is left need not fail.
* `ForgottenRemoved` fails: `wait_for_pending` (`progress.rs:174-183`) says that a
  transaction that cannot be found in the mempool is removed from pending and sent
  again; `get_transaction_by_hash` answers `Ok(None)` for it, so `receipts.rs:41-49`
  takes it for known and waits for ever.
* `ReportedFails` fails with `ShrinkRunLimit` equal to the length of the sequence: the
  last turn removed a call that is not restored; `shrink.rs:83-84` guarantees
  shrinkage unless the limit is lower.
* `FailsAgain` fails for a contract whose `afterInvariant` fails after `setUp` (let
  `broken_after` be `{"s0"}`): a broken invariant is shrunk to no call at all, because
  `check_sequence` takes the failing `afterInvariant` for the failure, and
  an empty sequence is not persisted (`runner.rs:693`).
* `CaseWasExecuted` fails: the case of a failing `afterInvariant` includes a call that
  was generated and never executed.
* `ErrorsKept` fails: a later revert or too many rejects replace the error of
  `afterInvariant` of an earlier run.
* Without `fail_on_revert`, a handler that set the global failure flag keeps the
  invariant from being asserted (`result.rs:118`) for the rest of the run.

## 5. Proofs

Assumptions are those the modules name (`TxsAssumption`, `BoundsAssumption`,
`NodeAssumption`, `LimitAssumption`, `TimeAssumption`, `ChainAssumption`,
`ListenersAssumption`, `BlocksAssumption`, `MultiForkAssumption`, `ForkBackendAssumption`,
`CheatsAssumption`, `ScriptAssumption`, `CampaignAssumption`): types of the constants,
that `NoTx`, `NoThread`, `Nobody`, `None` and the like are apart, that a batch and
the fee history hold something, that a fork can be created, that accounts are not
contracts and some contract is not mocked, that a script names the senders of a nonempty
sequence, which of its transactions are signed and whether it is slow, and
that the contract under test is a record of seven fields. TLC evaluates them in the runs.
Some theorems have a hypothesis more, in their statement: `MaxLast + 1 < U64`,
`~Reinsert`, `Tame`, `ShrinkRunLimit >= Depth + 1`, that `afterInvariant` does not
fail after `setUp`, and for the node `BlockGas <= MaxMarkers` (the pool's bound admits
the largest block) and no `eth_sendTransaction`. The instances of the runs that check the
property satisfy them, and section 4 says what happens otherwise.

Each module has a preservation lemma per action of its inductive invariant.

**TxPoolProofs.** `Invariance` proves `IInv`, of which `TypeCorrect`,
`MarkersAgree`, `WaitersUnsatisfied`, `OnePlace`, `WaitingIndex`, `NoCycle` and
`AllReadyYielded` are consequences. The checked invariants are not inductive:
while the lock is held the batches in flight must be tied to the maps, and that
every ready transaction is reachable needs `Linked` (the ready provider of a
required marker lists the transaction among its unlocks). There is a lemma of facts per
operator (`ReadyAddFacts`, `PruneTagsFacts`, ...).
`AllReadyYielded` takes a ready transaction that is not yielded with minimal nonce.
`NothingLost` is the action property: every step of `add_ready_transaction` keeps
what is known, in the maps or in flight, or leaves it `Outbid`. The case to argue is
a submission that is too cheap, which drops the queue with what it has just unlocked:
its marker was provided already, so by `IInv` nothing waited for it.

The node, in the same module. `NodeImplementsPool` proves `PoolBehaviour`: what
handlers submit is a submission and what a producer prunes is a batch of the pool,
because the requests, the queue and the blocks hold transactions and a block no more
than its gas limit allows (`NodeInv`). For this the recursive functions of the model
are shown to exist and to keep what one step keeps (`StepByStep`, `KeptByAll`, both from
the least number that fails): `YieldsKeeps` for the iterator, which always finds a best
transaction because finitely many are ready (`HasBest`, `FiniteStays`), `CombinedSteps`
for mixed mining and `ExecutedSteps` for the executor. `NodeTypes` is the type invariant.
`IndependentAreExecutable` proves `IndependentExecutable` from `ExecInv`: a nonce a
handler holds is not ahead of the account's, what is in the queue of
`add_ready_transaction` has a ready provider or is executable, what is to be pruned or
imported is mined or follows what is mined. `AllRejectedForCause` proves `RejectedForCause` from
`OrderInv`: every set of transactions that waits in the queue or is mined is `InOrder`,
each one executable or preceded by its predecessor. The iterator makes it so
(`YieldsInOrder`), cutting off and combining keep it so, nonces only grow while it
waits (`NoncesGrow`), and `ExecutedInOrder` follows the executor through it: what is
behind has its nonce used up, was kept out, or comes after one that was (`Passed`), so
that what is rejected next has one of these causes, whatever the `Fates` are.

**ChainProofs.** `StorageIsOneChain`, `DbFollowsChain`, `HistoryIsTrue`,
`StoredIffListed` and `SnapshotsAreTrue`, for any number of threads, transactions,
blocks and snapshots and any `Keeper`, under `Tame`: any number of threads mine and
take snapshots, or one thread makes all calls and either rolls back and reorganises or
takes snapshots and reverts. Section 4 has the counterexamples to wider workloads.
The checked invariants speak of the moments between calls; `KInv` says what holds
within one. `Solo` shows that a thread that moves is the only one under way, either
because nobody else calls or because it holds the mutex; a thread that takes a
snapshot is `Aside`, as it disturbs nobody. `Snapshots` says of those that are `Live`,
which remain when the revert under way is over, and of those being taken, that the
block they name is in the chain and their database not behind it (`Taken`). If one
thread makes all calls they are in the order of their ids, so that a revert, which cuts
the chain at its block, keeps the blocks of the earlier ones. `Linked` and `History`
hold at every moment: blocks share no transactions, and a hash is below the next
one, so that a block stored by its hash replaces none. `Phase` says what is left to
do at each place of a call, for instance that at `"load"` the database is empty and
the locals hold the accounts of a block that is still in the chain. `AppendLinked`
and `TruncateLinked` are the two ways the chain changes. `ExecutedUpto` returns from
block numbers to the hashes of the checked formulas.

**MultiForkProofs.** `AlwaysDriven` and `RefinesRegistry`, from `MInv`. A client
waits in one place, the channel, a pending task or the insertion under way
(`Apart`), and what is there is what it asked for (`Asking`): without this an
answer could reach a client that did not ask for it, which `ForkRegistry` does not
allow. `ForksShare` ties every id to the first id of its block and to its backend,
whose counter is above every suffix given out, so that the next id is new. The
refinement is proved step by step: requests, failures and updates stutter, each
answer is a `Registry` answer. Fairness is left to TLC.

**ScriptBroadcastProofs.** `CompleteIsAll` from `SInv`, for every script, signed
transactions included, and any number of crashes; `MinedInOrder` from `OInv` for the
scripts that are `Ordered`, which are all but those that mix the transactions of one
signer with signed ones of others. A receipt, in memory or in the file, is that of a
transaction mined (`ReceiptsTrue`); in a sequential broadcast the node holds no more
than the next transaction, whatever an earlier run left there (`OneAhead`); and
of every transaction before the next one the process knows that it was mined or has it
pending, unless the run is bound to fail (`Accounted`): it is `Doomed` by a transaction
that is mined already, which the node refuses, or saw an error.

**InvariantCampaignProofs.** `VerdictIsHonest` from `CInv`: an invariant was broken
only if the campaign has an error to show for it (`ErrorShown`), and a run has an
input for every call it made and one under way, so that no error has more than
`Depth + 1`. `ShrunkToSmallest`, where the limit leaves the
shrinker a turn for every call (the defaults are 5000 turns and 500 calls), from
`ShrinkInv`: the calls before the cursor that are still included were needed when they
were tried, and with fewer calls they still are.
`ReportsFail` and `FailureReplayed` speak of what a replay computes, for contracts
of which no dropped call leaves anything behind (`NothingLost`, a condition of the checked
formulas; that a contract stays one of these is `SameLoss`). They rest on
`ReproInv`: the executor of a run is where a replay of its inputs leads, although
reverted and discarded inputs were dropped (`RunInv`); the case that was found fails
(`FoundInv`); the last candidate of the shrinker that was not put back fails
(`StillFailing`); and what is reported and persisted fails (`ToldInv`). Lemmas say that
a replay of one call more is the replay and that call (`ReplayAppend`), that calls
which are not replayed change nothing (`Skipped`), and that the calls that are kept,
moved together, lead where they led in their old places (`KeptCheck`). Each is shown
by taking the first place at which it would fail (`LeastIndex`), which stands in for
induction.

**ForkBackendProofs.** `OwnStateTrue`, `SharedStateTrue`, `BlockPreservedTrue` and
`ForkMaps`, for any number of forks, blocks, writes, rolls and snapshots and any plan.
None of the three invariants is inductive. `FInv` adds: the maps lead from a local id
through a `ForkId` of its own to the index of its fork (`Maps`), without which
`update_block` of the fork that is left could change another; before the first
selection no fork has a journaled state (`NotSelected`), and the state all forks start
with is that of the first selection and stays so (`Base`); until a transaction
ends no database has the persistent slot and a journaled state without it was never
written (`Remembered`), so that merging journaled states is enough; and a snapshot
holds a fork that still fits the maps and shows what was promised when it was taken
(`MemorySnapshot`, `ForkSnapshot`). There is a lemma of effects per action
(`SelectEffect`, `RollEffect`, ...); `SnapshotsStay` says why no action spoils a snapshot:
once a fork is active one always is, and what forks start with is fixed from then on.
After `vm.transact` of an unrelated transaction a fork that had nothing `Uncommitted`
reads the same slot from its database.

**CheatcodesProofs.** `SendersTrue`, `OriginTrue`, `NoncesTrue`, `RevertsTrue` and
`CheatTypes`, for any contracts, accounts, depth and number of steps. The inspector
knows one prank, one broadcast, one expected revert and a depth; the frames know
what they asked for. `CInv` ties the two: `CallersInv` (the prank or broadcast is the
request of the frame at its depth, no other frame has a request, `tx.origin` is
theirs above that frame, unless that frame has made a delegate call the request does
not cover, and the test's below it), `NonceInv` (a nonce counts the
transactions collected for its account) and `RevertInv` (the expected revert is that
of the frame at its depth, and `max_depth` says whether that frame has called
anything since). Each part holds until the history says that the promise was given up
(`meddled`, `skewed`, `leaked`; section 4).

**BackendProofs.** Three parts of anvil's backend. Historic states: `HistoryBounded`
and `StatesTypeCorrect` from `BInv` (while `pc` is `"disk"` memory is already below its
limit). For chains that do not mine on a block twice: `RemovalInOrder` from `OInv`
(both queues are sorted by insertion number, everything on disk is older than
everything in memory, and what is held is newer than what is gone), and `DiskHolds`
from `DInv`: every copy of a hash's state, in memory or in a task, is the one last
inserted, and a hash that is inserted is new, so it is on no way to the disk.
The clock: `TimeTypeCorrect`, and `TimeMonotone` if the largest `u64` is not reached;
`Linked` ties the timestamp read by `compute_next_timestamp` to the last block across
the steps up to the write: either it is that of the last block or the time was reset.
Listeners: `FeesAreTrue` from `FeesInv`: the checked invariant with the types, blocks
stored under their number, at most one block that waits to be announced, and a service
that is always registered. `TrimKeeps` says that evicting for a block removes none
within the limit of it. `EachOnceTrue` from `FiltersInv`: of a filter, what it has told,
its historic blocks and those in its channel follow each other as they were mined, none is
beyond the last block announced (`InOrder`), every block it must tell is
told or in one of them (`Covered`), and its channel is registered. What a poll selects
of the channel is described by position (`Nth`), so that `SelectedBlocks` can show that
nothing is lost, repeated or out of order.

**Model-checked only.**
* Liveness is out of the prover's reach: `LockIsReleased`, `ReadyIsMined`,
  `LimitsAreEnforced`, `LogsArrive`, `Ends`, `Finishes`, the answers in `KeepsPromise`.
* That the bounded number of `next()` calls in `Yields` drains the iterator (the
  theorems hold of what it yields within them; TLC evaluates it in the node's runs).

## 6. Not modelled

EVM execution, signatures, fees and gas prices beyond the order of two prices,
receipts, logs and RPC encoding: data no property here tells apart. anvil's fork
mode, state dump and load, the cheats that set env fields or account data, and the
miner's forced transactions. Of the forks: creating and rolling at a transaction,
allocs, making accounts persistent at run time. Of the cheatcodes: `expectEmit`,
`expectCall`, `expectRevert` with a count of zero and its internal and cheatcode
variants, recorded state diffs, and those that read or write one value. Of
scripts: simulation, several chains, verification. Of invariant tests: the
generation of inputs. The formatter, configuration, `cast`, `chisel`, `verify`,
wallets and the compiler driver are sequential translations of input to output.

## 7. Plan

`expectEmit`, `expectCall` and `expectRevert` with a count of zero in `Cheatcodes`;
forks at a transaction in `ForkBackend`; the cheats that write env while a block is mined in `Chain`.
