------------------------------- MODULE Chain -------------------------------
(***************************************************************************)
(* anvil's in-memory chain: BlockchainStorage, the state database with its *)
(* snapshots, the historic states and the block environment of Backend     *)
(* (crates/anvil/src/eth/backend/mem), under mining, anvil_rollback,       *)
(* anvil_reorg, evm_snapshot and evm_revert.                               *)
(*                                                                         *)
(* A call is split where it awaits, and where what it wrote under one lock *)
(* is visible before it takes the next; reads that follow each other are   *)
(* one step.  Only do_mine_block takes the `mining' mutex.                 *)
(*                                                                         *)
(* prevrandao is random, so every block has a hash of its own: the n-th    *)
(* block mined has hash n, the genesis block hash 0.  The accounts of a    *)
(* database are given by the set of transactions executed on them, the     *)
(* transactions root of a header by the set of its transactions.  Time is  *)
(* what TimeManager promises: not before the last timestamp.  There are    *)
(* fewer blocks than InMemoryBlockStates keeps, so no state is evicted.    *)
(***************************************************************************)
EXTENDS Naturals, FiniteSets

CONSTANTS
    Threads,        \* callers that run concurrently
    NoThread,       \* nobody holds the mining mutex
    Txs,            \* transactions that may be mined
    Workloads,      \* what the threads may call, each a function from Threads
                    \* to subsets of CallNames
    Keeper,         \* transaction_block_keeper; large for None
    MaxBlocks,      \* bound on the blocks mined
    MaxSnapshots    \* bound on the snapshots taken

CallNames == {"mine", "rollback", "reorg", "snapshot", "revert", "revert_stale"}

ASSUME ChainAssumption ==
    /\ Workloads \subseteq [Threads -> SUBSET CallNames]
    /\ NoThread \notin Threads
    /\ Keeper \in Nat
    /\ MaxBlocks \in Nat
    /\ MaxSnapshots \in Nat

VARIABLES
    blocks,                 \* hash -> block
    hashes,                 \* block number -> hash
    best_hash,
    best_number,
    transactions,           \* transaction -> hash of its block
    db,                     \* accounts and block hashes of the state
    states,                 \* hash -> historic state
    state_snapshots,        \* id -> database, StateSnapshots of the db
    snapshot_id,            \* the next id
    active_state_snapshots, \* id -> number and hash
    env,                    \* env.block.number
    last_timestamp,
    workload,               \* the calls the threads of this run make
    mining,                 \* holder of the mining mutex
    mined,                  \* number of blocks executed so far
    pc,                     \* where a thread is in its call
    call                    \* the locals of that call

storage == <<blocks, hashes, best_hash, best_number, transactions>>
snapshots == <<state_snapshots, snapshot_id, active_state_snapshots>>
head == <<env, last_timestamp>>
vars == <<storage, db, states, snapshots, head, workload, mining, mined, pc, call>>

Hashes == 0 .. MaxBlocks

With(f, x, v) == [y \in DOMAIN f \cup {x} |-> IF y = x THEN v ELSE f[y]]

Without(f, S) == [y \in DOMAIN f \ S |-> f[y]]

Empty == [x \in {} |-> 0]

Block(number, parent, timestamp, txs) ==
    [number |-> number, parent |-> parent, timestamp |-> timestamp,
     root |-> txs, transactions |-> txs]

NoBlock == Block(0, 0, 0, {})

\* The locals of a call; a call uses those it needs.
Locals(number, block_number, hash, txs, block, left) ==
    [number |-> number, env |-> block_number, hash |-> hash, txs |-> txs, block |-> block,
     left |-> left, id |-> 0]

NoCall == Locals(0, 0, 0, {}, NoBlock, 0)

Init ==
    /\ blocks = [h \in {0} |-> Block(0, 0, 0, {})]
    /\ hashes = [n \in {0} |-> 0]
    /\ best_hash = 0
    /\ best_number = 0
    /\ transactions = Empty
    /\ db = [accounts |-> {}, block_hashes |-> Empty]
    /\ states = Empty
    /\ state_snapshots = Empty
    /\ snapshot_id = 0
    /\ active_state_snapshots = Empty
    /\ env = 0
    /\ last_timestamp = 0
    /\ workload \in Workloads
    /\ mining = NoThread
    /\ mined = 0
    /\ pc = [t \in Threads |-> "idle"]
    /\ call = [t \in Threads |-> NoCall]

Goto(t, place, locals) ==
    /\ pc' = [pc EXCEPT ![t] = place]
    /\ call' = [call EXCEPT ![t] = locals]

-----------------------------------------------------------------------------
(* do_mine_block                                                           *)

\* saturating_add(1) on best_number and env.block.number
NextNumber(n) == n + 1

\* Slip: the mutex is not taken.
Unlocked(t) == mining

\* self.mining.lock().await
Lock(t) == t

(* Takes the mutex and reads env, best_number and best_hash; `reorg' is    *)
(* the loop of Backend::reorg over its new blocks.                         *)
MineStart(t, txs) ==
    /\ \/ pc[t] = "idle" /\ "mine" \in workload[t]
       \/ pc[t] = "reorg" /\ call[t].left > 0
    /\ mining = NoThread
    /\ mined + Cardinality({u \in Threads : pc[u] \in {"state", "execute"}}) < MaxBlocks
    /\ mining' = Lock(t)
    /\ Goto(t, "state", Locals(NextNumber(best_number), NextNumber(env), best_hash, txs,
                               call[t].block, call[t].left))
    /\ UNCHANGED <<storage, db, states, snapshots, head, mined>>

\* Slip: the state is stored under the hash of the block to be mined.
StateKeyNext(t) == mined + 1

StateKey(t) == call[t].hash

(* "store current state before executing all transactions" *)
MineState(t) ==
    /\ pc[t] = "state"
    /\ states' = With(states, StateKey(t), db)
    /\ pc' = [pc EXCEPT ![t] = "execute"]
    /\ UNCHANGED <<storage, db, snapshots, head, mining, mined, call>>

InsertBlockHash(number, hash) == With(db.block_hashes, number, hash)

(* Under the database's write lock: next_timestamp, execute, block hash.  A *)
(* transaction that was executed before has a nonce that is too low.        *)
MineExecute(t) ==
    /\ pc[t] = "execute"
    /\ \E timestamp \in last_timestamp .. last_timestamp + 1 :
         LET hash == mined + 1
             included == call[t].txs \ db.accounts
             block == Block(call[t].env, call[t].hash, timestamp, included)
         IN  /\ mined' = hash
             /\ last_timestamp' = timestamp
             /\ db' = [accounts |-> db.accounts \cup included,
                       block_hashes |-> InsertBlockHash(block.number, hash)]
             /\ Goto(t, "store", Locals(call[t].number, call[t].env, hash, call[t].txs,
                                        block, call[t].left))
    /\ UNCHANGED <<storage, states, snapshots, env, mining>>

\* remove_block_transactions: the blocks and transactions that are left.
ClearBody(bs, hash) ==
    IF hash \in DOMAIN bs THEN [bs EXCEPT ![hash].transactions = {}] ELSE bs

\* Slip: the transactions of a block are forgotten.
BodyOfNone(bs, hash) == {}

BodyOf(bs, hash) ==
    IF hash \in DOMAIN bs THEN bs[hash].transactions ELSE {}

\* block_number.saturating_sub(transaction_block_keeper)
ToClear(number) == IF number > Keeper THEN number - Keeper ELSE 0

(* Under the storage's write lock. *)
MineStore(t) ==
    /\ pc[t] = "store"
    /\ LET c == call[t]
           stored == With(blocks, c.hash, c.block)
           indexed == With(hashes, c.number, c.hash)
           known == [tx \in DOMAIN transactions \cup c.block.transactions |->
                        IF tx \in c.block.transactions THEN c.hash ELSE transactions[tx]]
           clear == Cardinality(DOMAIN stored) > Keeper
                    /\ ToClear(c.number) \in DOMAIN indexed
           old == IF clear THEN indexed[ToClear(c.number)] ELSE 0
       IN  /\ best_number' = c.number
           /\ best_hash' = c.hash
           /\ hashes' = indexed
           /\ blocks' = IF clear THEN ClearBody(stored, old) ELSE stored
           /\ transactions' = IF clear THEN Without(known, BodyOf(stored, old)) ELSE known
    /\ pc' = [pc EXCEPT ![t] = "env"]
    /\ UNCHANGED <<db, states, snapshots, head, mining, mined, call>>

(* Writes back its copy of env, sets the fees, notifies and unlocks. *)
MineFinish(t) ==
    /\ pc[t] = "env"
    /\ env' = call[t].env
    /\ mining' = NoThread
    /\ IF call[t].left > 1
       THEN Goto(t, "reorg", [NoCall EXCEPT !.left = call[t].left - 1])
       ELSE Goto(t, "idle", NoCall)
    /\ UNCHANGED <<storage, db, states, snapshots, last_timestamp, mined>>

-----------------------------------------------------------------------------
(* anvil_rollback and anvil_reorg                                          *)

(* Both find the common block `depth' below the best one; a call with a    *)
(* depth that is too large or a block that is missing is an error.         *)
CommonBlock(t, depth, left) ==
    /\ pc[t] = "idle"
    /\ depth <= best_number
    /\ best_number - depth \in DOMAIN hashes
    /\ hashes[best_number - depth] \in DOMAIN blocks
    /\ LET hash == hashes[best_number - depth]
       IN  Goto(t, "rollback", Locals(0, 0, hash, {}, blocks[hash], left))
    /\ UNCHANGED <<storage, db, states, snapshots, head, mining, mined>>

AnvilRollback(t, depth) ==
    /\ "rollback" \in workload[t]
    /\ CommonBlock(t, depth, 0)

AnvilReorg(t, depth) ==
    /\ "reorg" \in workload[t]
    /\ mined + depth <= MaxBlocks
    /\ CommonBlock(t, depth, depth)

(* states.get(common_block), or the error DataUnavailable. *)
RollbackState(t) ==
    /\ pc[t] = "rollback"
    /\ IF call[t].hash \in DOMAIN states
       THEN Goto(t, "clear", [call[t] EXCEPT !.txs = states[call[t].hash].accounts])
       ELSE Goto(t, "idle", NoCall)
    /\ UNCHANGED <<storage, db, states, snapshots, head, mining, mined>>

(* db.clear(): accounts and block hashes go, snapshots stay. *)
RollbackClear(t) ==
    /\ pc[t] = "clear"
    /\ db' = [accounts |-> {}, block_hashes |-> Empty]
    /\ pc' = [pc EXCEPT ![t] = "load"]
    /\ UNCHANGED <<storage, states, snapshots, head, mining, mined, call>>

\* Slip: the accounts are not loaded.
LoadedNothing(t) == db.accounts

Loaded(t) == db.accounts \cup call[t].txs

(* The accounts of the common state are inserted one by one. *)
RollbackLoad(t) ==
    /\ pc[t] = "load"
    /\ db' = [db EXCEPT !.accounts = Loaded(t)]
    /\ pc' = [pc EXCEPT ![t] = "unwind"]
    /\ UNCHANGED <<storage, states, snapshots, head, mining, mined, call>>

\* The numbers unwind_to and revert_state_snapshot remove.
Unwound(number) == {n \in DOMAIN hashes : number < n /\ n <= best_number}

(* unwind_to.  The hash of an unwound block is removed before its           *)
(* transactions are looked up by number, so none of them is found.          *)
RollbackUnwind(t) ==
    /\ pc[t] = "unwind"
    /\ LET block == call[t].block
           gone == Unwound(block.number)
       IN  /\ hashes' = Without(hashes, gone)
           /\ blocks' = Without(blocks, {hashes[n] : n \in gone})
           /\ best_hash' = call[t].hash
           /\ best_number' = block.number
           /\ env' = block.number
           /\ last_timestamp' = block.timestamp
    /\ IF call[t].left > 0
       THEN Goto(t, "reorg", [NoCall EXCEPT !.left = call[t].left])
       ELSE Goto(t, "idle", NoCall)
    /\ UNCHANGED <<transactions, db, states, snapshots, mining, mined>>

-----------------------------------------------------------------------------
(* evm_snapshot and evm_revert                                             *)

(* create_state_snapshot reads number and hash, then awaits the database.  *)
EvmSnapshot(t) ==
    /\ "snapshot" \in workload[t]
    /\ pc[t] = "idle"
    /\ snapshot_id + Cardinality({u \in Threads : pc[u] = "snapshot"}) < MaxSnapshots
    /\ Goto(t, "snapshot", Locals(best_number, 0, best_hash, {}, NoBlock, 0))
    /\ UNCHANGED <<storage, db, states, snapshots, head, mining, mined>>

SnapshotDb(t) ==
    /\ pc[t] = "snapshot"
    /\ snapshot_id' = snapshot_id + 1
    /\ state_snapshots' = With(state_snapshots, snapshot_id, db)
    /\ active_state_snapshots' =
         With(active_state_snapshots, snapshot_id,
              [number |-> call[t].number, hash |-> call[t].hash])
    /\ Goto(t, "idle", NoCall)
    /\ UNCHANGED <<storage, db, states, head, mining, mined>>

(* revert_state_snapshot for an id that is active: the storage goes back;  *)
(* if the snapshot's block is not stored any more the call ends here.  The *)
(* id stays active when a revert to an earlier snapshot drops its          *)
(* database: clients that then ask for it are those of "revert_stale".     *)
EvmRevert(t, id) ==
    /\ workload[t] \cap {"revert", "revert_stale"} # {}
    /\ "revert_stale" \notin workload[t] => id \in DOMAIN state_snapshots
    /\ pc[t] = "idle"
    /\ id \in DOMAIN active_state_snapshots
    /\ active_state_snapshots' = Without(active_state_snapshots, {id})
    /\ LET at == active_state_snapshots[id]
           gone == Unwound(at.number)
           bodies == UNION {BodyOf(blocks, hashes[n]) : n \in gone}
       IN  /\ hashes' = Without(hashes, gone)
           /\ blocks' = Without(blocks, {hashes[n] : n \in gone})
           /\ transactions' = Without(transactions, bodies)
           /\ best_number' = at.number
           /\ best_hash' = at.hash
           /\ IF at.hash \in DOMAIN blocks'
              THEN /\ env' = at.number
                   /\ last_timestamp' = blocks'[at.hash].timestamp
                   /\ Goto(t, "revert", [NoCall EXCEPT !.id = id])
              ELSE /\ UNCHANGED head
                   /\ Goto(t, "idle", NoCall)
    /\ UNCHANGED <<db, states, state_snapshots, snapshot_id, mining, mined>>

(* For an id that is not active only the database is asked. *)
EvmRevertUnknown(t, id) ==
    /\ "revert" \in workload[t]
    /\ pc[t] = "idle"
    /\ id \notin DOMAIN active_state_snapshots
    /\ Goto(t, "revert", [NoCall EXCEPT !.id = id])
    /\ UNCHANGED <<storage, db, states, snapshots, head, mining, mined>>

RevertedDb(id) == IF id \in DOMAIN state_snapshots THEN state_snapshots[id] ELSE db

\* Slip: the snapshots taken later stay.
RemovedOnly(id) == {i \in DOMAIN state_snapshots : i = id}

RemovedIds(id) == {i \in DOMAIN state_snapshots : i >= id}

(* db.revert_state: StateSnapshots::remove drops the id and all later ones, *)
(* whether or not it holds the id.                                          *)
RevertDb(t) ==
    /\ pc[t] = "revert"
    /\ db' = RevertedDb(call[t].id)
    /\ state_snapshots' = Without(state_snapshots, RemovedIds(call[t].id))
    /\ Goto(t, "idle", NoCall)
    /\ UNCHANGED <<storage, states, snapshot_id, active_state_snapshots, head, mining, mined>>

-----------------------------------------------------------------------------
Step(t) ==
    \/ \E txs \in {{}} \cup {{tx} : tx \in Txs} : MineStart(t, txs)
    \/ MineState(t)
    \/ MineExecute(t)
    \/ MineStore(t)
    \/ MineFinish(t)
    \/ \E depth \in 0 .. MaxBlocks : AnvilRollback(t, depth)
    \/ \E depth \in 1 .. MaxBlocks : AnvilReorg(t, depth)
    \/ RollbackState(t)
    \/ RollbackClear(t)
    \/ RollbackLoad(t)
    \/ RollbackUnwind(t)
    \/ EvmSnapshot(t)
    \/ SnapshotDb(t)
    \/ \E id \in 0 .. MaxSnapshots : EvmRevert(t, id)
    \/ \E id \in 0 .. MaxSnapshots : EvmRevertUnknown(t, id)
    \/ RevertDb(t)

Next ==
    /\ \E t \in Threads : Step(t)
    /\ UNCHANGED workload

Spec == Init /\ [][Next]_vars

-----------------------------------------------------------------------------
Quiet == \A t \in Threads : pc[t] = "idle"

Ids == 0 .. MaxSnapshots

Numbers == 0 .. MaxBlocks

BlockType ==
    [number : Numbers, parent : Hashes, timestamp : Hashes,
     root : SUBSET Txs, transactions : SUBSET Txs]

(* Every variable has its type; the maps are partial functions. *)
TypeOK ==
    /\ DOMAIN blocks \subseteq Hashes
    /\ \A h \in DOMAIN blocks : blocks[h] \in BlockType
    /\ DOMAIN hashes \subseteq Numbers
    /\ \A n \in DOMAIN hashes : hashes[n] \in Hashes
    /\ best_hash \in Hashes /\ best_number \in Numbers
    /\ DOMAIN transactions \subseteq Txs
    /\ \A tx \in DOMAIN transactions : transactions[tx] \in Hashes
    /\ db.accounts \subseteq Txs /\ DOMAIN db.block_hashes \subseteq Numbers
    /\ DOMAIN states \subseteq Hashes
    /\ DOMAIN state_snapshots \subseteq Ids
    /\ DOMAIN active_state_snapshots \subseteq Ids
    /\ mining \in Threads \cup {NoThread}
    /\ mined \in Hashes

(* Between calls the storage holds one chain and nothing else: numbers     *)
(* without a gap up to best_number, every block the child of the one below *)
(* it and not older, the best hash at its end.                             *)
ChainLinked ==
    Quiet =>
        /\ DOMAIN hashes = 0 .. best_number
        /\ best_hash = hashes[best_number]
        /\ DOMAIN blocks = {hashes[n] : n \in DOMAIN hashes}
        /\ \A n \in 1 .. best_number :
             LET block == blocks[hashes[n]]
             IN  /\ block.number = n
                 /\ block.parent = hashes[n - 1]
                 /\ block.timestamp >= blocks[hashes[n - 1]].timestamp

\* The blocks of the chain up to a hash, by their parents.
Ancestors(h) ==
    LET n == CHOOSE n \in DOMAIN hashes : hashes[n] = h
    IN  {hashes[m] : m \in {m \in DOMAIN hashes : m <= n}}

Executed(h) == UNION {blocks[g].root : g \in Ancestors(h)}

(* Between calls the accounts are those the transactions of the chain      *)
(* lead to, no more and no less, and environment and clock are at the best *)
(* block, although all of these are rewound one after the other.           *)
DbMatchesChain ==
    Quiet => /\ db.accounts = Executed(best_hash)
             /\ env = best_number
             /\ last_timestamp = blocks[best_hash].timestamp

(* The historic state of a block that is still in the chain is the state   *)
(* after that block, so a rollback to it restores the right accounts.      *)
HistoryTrue ==
    Quiet => \A h \in DOMAIN states :
                 h \in DOMAIN blocks => states[h].accounts = Executed(h)

\* The calls of this run do not unwind the chain to an older block's state.
NeverRolledBack == \A t \in Threads : workload[t] \cap {"rollback", "reorg"} = {}

(* A transaction is stored iff a block of the chain lists it, with that    *)
(* block's hash: reverting to a snapshot removes the transactions with the *)
(* blocks (a rollback does not: README, Divergences).                      *)
TransactionsMatchBlocks ==
    Quiet /\ NeverRolledBack =>
             /\ DOMAIN transactions = UNION {blocks[h].transactions : h \in DOMAIN blocks}
             /\ \A tx \in DOMAIN transactions :
                  /\ transactions[tx] \in DOMAIN blocks
                  /\ tx \in blocks[transactions[tx]].transactions

OneCaller == \A t, u \in Threads : workload[t] # {} /\ workload[u] # {} => t = u

(* A snapshot whose database is there is active, and at a block that is    *)
(* still in the chain, whatever was mined, taken and reverted to since.    *)
(* Its database is the state after that block, with nothing missing; if it *)
(* was taken while another thread mined it may be ahead of the block, as   *)
(* number and hash are read first.                                         *)
SnapshotsTrue ==
    Quiet => \A id \in DOMAIN state_snapshots :
                 LET at == active_state_snapshots[id]
                 IN  /\ id \in DOMAIN active_state_snapshots
                     /\ at.hash \in DOMAIN blocks
                     /\ Executed(at.hash) \subseteq state_snapshots[id].accounts
                     /\ OneCaller => state_snapshots[id].accounts = Executed(at.hash)

(* Not kept by the code (README, Divergences): a revert "will also remove   *)
(* any state snapshots taken after" the one it goes back to.                *)
BothRemove == Quiet => DOMAIN active_state_snapshots = DOMAIN state_snapshots

(* Not kept by the code after a rollback (README, Divergences).             *)
(* "including the db": the database knows the hash of every block of the   *)
(* chain, which BLOCKHASH reads.                                           *)
DbKnowsHashes ==
    Quiet => \A n \in 1 .. best_number :
                 /\ n \in DOMAIN db.block_hashes
                 /\ db.block_hashes[n] = hashes[n]
=============================================================================
