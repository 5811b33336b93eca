----------------------------- MODULE AnvilNode ------------------------------
(***************************************************************************)
(* The anvil node around the pool: RPC handlers that submit transactions   *)
(* (eth/api.rs), the miner that selects them (eth/miner.rs), the service   *)
(* that feeds the block producer and prunes the pool (service.rs), and the *)
(* part of the backend that executes a block (eth/backend/executor.rs).    *)
(*                                                                         *)
(* An RPC handler reads the chain and the pool at different await points,  *)
(* so each read is an action of its own.  Two tasks produce blocks: the    *)
(* NodeService and an RPC call to evm_mine.                                *)
(***************************************************************************)
EXTENDS TxPool

CONSTANTS
    Clients,          \* concurrent RPC connections
    Rpcs,             \* the RPC methods the clients of this instance call
    InitMode,         \* mining mode the node starts with
    Order,            \* TransactionOrder: "Fees" or "Fifo"
    MaxTransactions,  \* ReadyTransactionMiner::max_transactions
    BlockGas,         \* block gas limit; a transaction uses up its own limit
    Fates,            \* what executing a transaction of this instance may meet
    MaxQueued         \* bound on BlockProducer::queued

ASSUME NodeAssumption ==
    /\ Order \in {"Fees", "Fifo"}
    /\ InitMode \in {"None", "Auto", "FixedBlockTime", "Mixed"}
    /\ MaxTransactions \in Nat \ {0}
    /\ BlockGas \in Nat
    /\ \A t \in Txs : t.gas \in 1 .. BlockGas
    /\ "run" \in Fates /\ Fates \subseteq {"run", "refused", "skipped"}
    /\ MaxQueued \in Nat \ {0}

VARIABLES
    nonces,           \* account nonces of the backend's database
    request,          \* per client, the submission it is processing
    mode,             \* MiningMode
    rx,               \* the miner's channel holds a notification
    has_pending_txs,  \* Option<bool> of the ReadyTransactionMiner
    queued,           \* BlockProducer::queued
    stage,            \* per block producing task, what it is doing
    block             \* per block producing task, its transactions and outcome

chainVars == <<nonces>>
minerVars == <<mode, rx, has_pending_txs>>
producerVars == <<queued, stage, block>>
nodeVars == <<poolVars, nonces, request, minerVars, producerVars>>

Producers == {"service", "evm_mine"}

\* What a block is to hold, and what came of it: included and invalid, and as a
\* history variable what was kept out for another reason than its nonce.
NewBlock(txs) == [txs |-> txs, included |-> <<>>, invalid |-> {}, kept_out |-> {}]

NoBlock == NewBlock(<<>>)

NoRequest == [at |-> "idle", tx |-> NoTx, on_chain_nonce |-> 0]

NodeTypeOK ==
    /\ TypeOK
    /\ nonces \in [Senders -> Nat]
    /\ request \in [Clients -> [at : {"idle", "validate", "nonce", "add"},
                                tx : Txs \cup {NoTx}, on_chain_nonce : Nat]]
    /\ mode \in {"None", "Auto", "FixedBlockTime", "Mixed"}
    /\ rx \in BOOLEAN
    /\ has_pending_txs \in {"unknown", "yes", "no"}
    /\ queued \in Seq(Seq(Txs))
    /\ stage \in [Producers -> {"idle", "mining", "mined", "pruning"}]
    /\ block \in [Producers -> [txs : Seq(Txs), included : Seq(Txs),
                                invalid : SUBSET Txs, kept_out : SUBSET Txs]]

NodeInit ==
    /\ Init
    /\ nonces = [s \in Senders |-> 0]
    /\ request = [c \in Clients |-> NoRequest]
    /\ mode = InitMode
    /\ rx = FALSE
    /\ has_pending_txs = "unknown"
    /\ queued = <<>>
    /\ stage = [a \in Producers |-> "idle"]
    /\ block = [a \in Producers |-> NoBlock]

-----------------------------------------------------------------------------
(* TransactionsIterator: a snapshot of the ready transactions, best first.  *)

Priority(t) == IF Order = "Fees" THEN t.price ELSE 0

\* Ord for PoolTransactionRef: higher priority, then lower id.
Best(S) ==
    CHOOSE h \in S : \A g \in S :
        \/ Priority(h) > Priority(g)
        \/ Priority(h) = Priority(g) /\ ready_tx[h].id <= ready_tx[g].id

\* TransactionsIterator::next on the iterator state `it'.  A transaction
\* requires one marker at most, so yielding its provider makes it independent.
IteratorNext(it) ==
    IF it.independent = {} THEN it
    ELSE LET best == Best(it.independent)
         IN  [independent |-> (it.independent \ {best})
                                \cup {h \in DOMAIN ready_tx :
                                         ready_tx[best].unlocks[h] > 0},
              out |-> Append(it.out, best)]

\* Everything ready_transactions() yields.  after[n] is the set that holds the
\* iterator after n calls; a transaction is yielded once per ready ancestor
\* or itself at most, which bounds the calls.
Yields ==
    LET size == Cardinality(DOMAIN ready_tx)
        after[n \in 0 .. size * size] ==
            IF n = 0
            THEN {[independent |-> independent_transactions, out |-> <<>>]}
            ELSE {IteratorNext(it) : it \in after[n - 1]}
    IN  (CHOOSE it \in after[size * size] : TRUE).out

Members(q) == {q[i] : i \in DOMAIN q}

-----------------------------------------------------------------------------
(* RPC handlers that submit.                                                *)

\* Slip: the transaction after the next one counts as next.
RequiredMarkerLate(t, on_chain_nonce) ==
    IF on_chain_nonce < t.nonce - 1 THEN {PrevMarker(t)} ELSE {}

\* required_marker(nonce, on_chain_nonce, from)
RequiredMarker(t, on_chain_nonce) ==
    IF on_chain_nonce < t.nonce THEN {PrevMarker(t)} ELSE {}

\* get_transaction_count(from, Pending): one past the ready transactions.
HighestNonce(s) ==
    LET mine == {t \in Members(Yields) : t.from = s}
    IN  IF mine = {} THEN nonces[s]
        ELSE (CHOOSE n \in {t.nonce : t \in mine} :
                 \A t \in mine : t.nonce <= n) + 1

Idle(c) == request[c].at = "idle"

\* Room for one more submission under the bound MaxId.
Pending == {c \in Clients : ~Idle(c)}
Room == id + Cardinality(waiting_queue) + Cardinality(InFlight)
          + Cardinality(Pending) < MaxId

\* send_raw_transaction: pre-validation refuses a nonce that is too low.
SendRawTransaction(c, t) ==
    /\ "eth_sendRawTransaction" \in Rpcs
    /\ Idle(c) /\ Room
    /\ t.nonce >= nonces[t.from]
    /\ request' = [request EXCEPT ![c] = [at |-> "nonce", tx |-> t,
                                          on_chain_nonce |-> 0]]
    /\ UNCHANGED <<poolVars, nonces, minerVars, producerVars>>

\* ... then reads the account's nonce.
CurrentNonce(c) ==
    /\ request[c].at = "nonce"
    /\ request' = [request EXCEPT ![c] = [at |-> "add", tx |-> @.tx,
                                          on_chain_nonce |-> nonces[@.tx.from]]]
    /\ UNCHANGED <<poolVars, nonces, minerVars, producerVars>>

\* send_transaction: request_nonce asks for the highest pending nonce, which
\* is also the nonce of a request that names none.
SendTransaction(c, t) ==
    /\ "eth_sendTransaction" \in Rpcs
    /\ Idle(c) /\ Room
    /\ op = "idle"
    /\ request' = [request EXCEPT ![c] = [at |-> "validate", tx |-> t,
                                   on_chain_nonce |-> HighestNonce(t.from)]]
    /\ UNCHANGED <<poolVars, nonces, minerVars, producerVars>>

\* ... then pre-validates.
ValidatePoolTransaction(c) ==
    /\ request[c].at = "validate"
    /\ request' = [request EXCEPT ![c] =
                     IF @.tx.nonce >= nonces[@.tx.from]
                     THEN [@ EXCEPT !.at = "add"] ELSE NoRequest]
    /\ UNCHANGED <<poolVars, nonces, minerVars, producerVars>>

\* Both end in pool.add_transaction ...
AddPendingTransaction(c) ==
    /\ request[c].at = "add"
    /\ AddTransaction([tx |-> request[c].tx,
                       requires |-> RequiredMarker(request[c].tx,
                                                   request[c].on_chain_nonce)])
    /\ request' = [request EXCEPT ![c] = NoRequest]
    /\ UNCHANGED <<nonces, minerVars, producerVars>>

\* ... which may answer AlreadyImported or ReplacementUnderpriced.
AddRejected(c) ==
    /\ request[c].at = "add"
    /\ op = "idle"
    /\ LET t == request[c].tx
           holder == waiting_markers[Marker(t)]
       IN  \/ Contains(t)
           \/ /\ \E m \in RequiredMarker(t, request[c].on_chain_nonce) :
                    provided_markers[m] = NoTx
              /\ holder \in waiting_queue /\ t.price < holder.price
    /\ request' = [request EXCEPT ![c] = NoRequest]
    /\ UNCHANGED <<poolVars, nonces, minerVars, producerVars>>

-----------------------------------------------------------------------------
(* RPC handlers that change the pool or the miner.                          *)

\* Slip: the pool changes without its lock.
DropUnlocked(t) ==
    /\ "anvil_dropTransaction" \in Rpcs
    /\ InReady(t)
    /\ RemoveWithMarkers({t})
    /\ UNCHANGED <<pendingVars, lockVars, to_notify>>
    /\ UNCHANGED <<nonces, request, minerVars, producerVars>>

AnvilDropTransaction(t) ==
    /\ "anvil_dropTransaction" \in Rpcs
    /\ InReady(t)
    /\ DropTransaction(t)
    /\ UNCHANGED <<nonces, request, minerVars, producerVars>>

AnvilRemovePoolTransactions(s) ==
    /\ "anvil_removePoolTransactions" \in Rpcs
    /\ RemoveTransactionsByAddress(s)
    /\ UNCHANGED <<nonces, request, minerVars, producerVars>>

AnvilDropAllTransactions ==
    /\ "anvil_dropAllTransactions" \in Rpcs
    /\ Clear
    /\ UNCHANGED <<nonces, request, minerVars, producerVars>>

\* anvil_set_auto_mine(enable): a fresh listener, nothing known yet.
AnvilSetAutoMine(enable) ==
    /\ "evm_setAutomine" \in Rpcs
    /\ enable # (mode = "Auto")
    /\ \/ enable /\ mode' = "Auto" /\ rx' = FALSE /\ has_pending_txs' = "unknown"
       \/ ~enable /\ mode' = "None" /\ rx' = FALSE /\ has_pending_txs' = "unknown"
    /\ UNCHANGED <<poolVars, nonces, request, producerVars>>

AnvilSetIntervalMining(secs) ==
    /\ "evm_setIntervalMining" \in Rpcs
    /\ mode' = IF secs = 0 THEN "None" ELSE "FixedBlockTime"
    /\ rx' = FALSE /\ has_pending_txs' = "unknown"
    /\ UNCHANGED <<poolVars, nonces, request, producerVars>>

-----------------------------------------------------------------------------
(* Miner::poll and NodeService::poll.                                       *)

\* The service polls the miner unless it is applying an outcome to the pool.
Polling == stage["service"] \in {"idle", "mining"} /\ op = "idle"

Listening == mode \in {"Auto", "Mixed"}

\* Slip: once nothing was pending the channel is not read again.
HasPendingStale ==
    IF rx /\ has_pending_txs # "no" THEN "yes" ELSE has_pending_txs

HasPending == IF rx THEN "yes" ELSE has_pending_txs

\* ReadyTransactionMiner::poll gets past its early return.
AutoPolls == Listening /\ HasPending # "no"

Take(q, n) == SubSeq(q, 1, IF Len(q) < n THEN Len(q) ELSE n)

\* Mixed mining: the transactions of the interval that are not there yet are
\* pushed to those of the auto miner.
Combined(auto_txs, fixed_txs) ==
    LET after[n \in 0 .. Len(fixed_txs)] ==
            IF n = 0 THEN auto_txs
            ELSE LET txs == after[n - 1]
                 IN  IF fixed_txs[n] \in Members(txs) THEN txs
                     ELSE Append(txs, fixed_txs[n])
    IN  after[Len(fixed_txs)]

\* One poll; `tick' says whether the interval elapsed.
MinerPoll(tick) ==
    LET fixed == tick /\ mode \in {"FixedBlockTime", "Mixed"}
        auto_txs == IF AutoPolls THEN Take(Yields, MaxTransactions) ELSE <<>>
        fixed_txs == IF fixed THEN Yields ELSE <<>>
        txs == IF auto_txs = <<>> THEN fixed_txs ELSE Combined(auto_txs, fixed_txs)
    IN  /\ Polling
        /\ AutoPolls \/ fixed
        /\ Len(queued) < MaxQueued
        /\ queued' = IF auto_txs # <<>> \/ fixed THEN Append(queued, txs)
                     ELSE queued
        /\ has_pending_txs' =
             IF ~AutoPolls THEN HasPending
             ELSE IF Len(auto_txs) >= MaxTransactions THEN "yes" ELSE "no"
        /\ rx' = FALSE
        /\ UNCHANGED <<poolVars, nonces, request, mode, stage, block>>

\* BlockProducer::poll_next starts on the next queued set.
StartMining ==
    /\ stage["service"] = "idle"
    /\ queued # <<>>
    /\ stage' = [stage EXCEPT !["service"] = "mining"]
    /\ block' = [block EXCEPT !["service"] = NewBlock(Head(queued))]
    /\ queued' = Tail(queued)
    /\ UNCHANGED <<poolVars, nonces, request, minerVars>>

\* mine_one of evm_mine takes everything that is ready.
EvmMine ==
    /\ "evm_mine" \in Rpcs
    /\ stage["evm_mine"] = "idle"
    /\ op = "idle"
    /\ stage' = [stage EXCEPT !["evm_mine"] = "mining"]
    /\ block' = [block EXCEPT !["evm_mine"] = NewBlock(Yields)]
    /\ UNCHANGED <<poolVars, nonces, request, minerVars, queued>>

\* The executor's next() on t: skip what exceeds the gas limit, reject a nonce
\* that is too low or too high, execute the rest.  `fate' is what else there may
\* be: the transaction is refused, by validate_pool_transaction_for or by the
\* EVM, over its fees, funds, chain id or blobs; or it is skipped, as the
\* database fails or the blobs do not fit into the block.
Execute(s, t, fate) ==
    LET skipped == fate = "skipped" \/ s.gas_used + t.gas > BlockGas
        refused == fate = "refused"
    IN  CASE skipped -> [s EXCEPT !.kept_out = @ \cup {t}]
          [] ~skipped /\ refused ->
               [s EXCEPT !.invalid = @ \cup {t}, !.kept_out = @ \cup {t}]
          [] ~skipped /\ ~refused /\ t.nonce # s.nonces[t.from] ->
               [s EXCEPT !.invalid = @ \cup {t}]
          [] OTHER -> [s EXCEPT !.nonces[t.from] = @ + 1,
                                !.included = Append(@, t),
                                !.gas_used = @ + t.gas]

\* TransactionExecutor::execute; after[n] is the result of the first n.
Executed(txs, fate) ==
    LET after[n \in 0 .. Len(txs)] ==
            IF n = 0
            THEN [nonces |-> nonces, included |-> <<>>, invalid |-> {}, kept_out |-> {},
                  gas_used |-> 0]
            ELSE Execute(after[n - 1], txs[n], fate[n])
    IN  after[Len(txs)]

\* do_mine_block, under the mining and database locks.
MineBlock(a) ==
    /\ stage[a] = "mining"
    /\ \E fate \in [DOMAIN block[a].txs -> Fates] :
          LET result == Executed(block[a].txs, fate)
          IN  /\ nonces' = result.nonces
              /\ block' = [block EXCEPT ![a] = [txs |-> <<>>,
                                                included |-> result.included,
                                                invalid |-> result.invalid,
                                                kept_out |-> result.kept_out]]
    /\ stage' = [stage EXCEPT ![a] = "mined"]
    /\ UNCHANGED <<poolVars, request, minerVars, queued>>

\* on_mined_block: first remove_invalid ...
RemoveInvalidTxs(a) ==
    /\ stage[a] = "mined"
    /\ block[a].invalid # {}
    /\ RemoveInvalid(block[a].invalid)
    /\ block' = [block EXCEPT ![a].invalid = {}]
    /\ UNCHANGED <<nonces, request, minerVars, queued, stage>>

\* ... then, under the lock again, prune_markers.
PruneIncluded(a) ==
    /\ stage[a] = "mined"
    /\ block[a].invalid = {}
    /\ LET included == block[a].included
       IN  IF included = <<>>
           THEN /\ stage' = [stage EXCEPT ![a] = "idle"]
                /\ UNCHANGED poolVars
           ELSE /\ PruneMarkers([i \in DOMAIN included |-> Marker(included[i])])
                /\ stage' = [stage EXCEPT ![a] = "pruning"]
    /\ block' = [block EXCEPT ![a] = NoBlock]
    /\ UNCHANGED <<nonces, request, minerVars, queued>>

\* The pool's own steps; ending prune_markers ends on_mined_block.
PoolStep ==
    /\ HoldingLock
    /\ stage' = [a \in Producers |-> IF stage[a] = "pruning" /\ op' = "idle"
                                     THEN "idle" ELSE stage[a]]
    /\ UNCHANGED <<nonces, request, minerVars, queued, block>>

\* A notification reaches the miner if it listens.
Notify ==
    /\ \E t \in Txs : NotifyListener(t)
    /\ rx' = (rx \/ Listening)
    /\ UNCHANGED <<nonces, request, mode, has_pending_txs, producerVars>>

NodeNext ==
    \/ \E c \in Clients, t \in Txs : SendRawTransaction(c, t)
    \/ \E c \in Clients, t \in Txs : SendTransaction(c, t)
    \/ \E c \in Clients : CurrentNonce(c)
    \/ \E c \in Clients : ValidatePoolTransaction(c)
    \/ \E c \in Clients : AddPendingTransaction(c)
    \/ \E c \in Clients : AddRejected(c)
    \/ \E t \in Txs : AnvilDropTransaction(t)
    \/ \E s \in Senders : AnvilRemovePoolTransactions(s)
    \/ AnvilDropAllTransactions
    \/ \E enable \in BOOLEAN : AnvilSetAutoMine(enable)
    \/ \E secs \in {0, 1} : AnvilSetIntervalMining(secs)
    \/ \E tick \in BOOLEAN : MinerPoll(tick)
    \/ StartMining
    \/ EvmMine
    \/ \E a \in Producers : MineBlock(a)
    \/ \E a \in Producers : RemoveInvalidTxs(a)
    \/ \E a \in Producers : PruneIncluded(a)
    \/ PoolStep
    \/ Notify

NodeSpec == NodeInit /\ [][NodeNext]_nodeVars

\* The tokio runtime keeps polling the service and its blocking mining task,
\* and a handler that holds the pool's lock runs on; nothing forces a client
\* to call.  What needs the lock gets it in the end even if clients keep
\* taking it: parking_lot's RwLock is eventually fair, hence SF.
NodeFairness ==
    /\ WF_nodeVars(PoolStep)
    /\ WF_nodeVars(Notify)
    /\ WF_nodeVars(StartMining)
    /\ WF_nodeVars(MineBlock("service"))
    /\ SF_nodeVars(MinerPoll(FALSE))
    /\ SF_nodeVars(RemoveInvalidTxs("service"))
    /\ SF_nodeVars(PruneIncluded("service"))

FairNodeSpec == NodeSpec /\ NodeFairness

-----------------------------------------------------------------------------
(* Properties.                                                             *)

(* The pool drives through exactly the steps its own specification allows:  *)
(* whatever the handlers and producers interleave, AnvilNode implements     *)
(* TxPool, so what holds of TxPool holds here.                              *)
PoolBehaviour == Spec

(* A transaction the miner may pick first is executable: one that needs no  *)
(* other ready transaction has no unmined predecessor, although its         *)
(* requirement was computed from a nonce read before it entered the pool.   *)
IndependentExecutable ==
    \A t \in independent_transactions : t.nonce <= nonces[t.from]

(* A block rejects a transaction because its nonce is used up, because it   *)
(* is refused itself, or because a transaction of the same sender before it *)
(* was kept out of this very block.  Else none comes too early: a sender's  *)
(* transactions reach the executor in nonce order, whatever they pay, cut   *)
(* off by max_transactions, combined by mixed mining, delayed in the queue  *)
(* or mined by two producers at once.  (executor.rs turns NonceTooHigh into *)
(* Invalid, and on_mined_block then drops the transaction.)                 *)
RejectedForCause ==
    \A a \in Producers : \A t \in block[a].invalid :
        \/ t.nonce < nonces[t.from]
        \/ \E u \in block[a].kept_out : u.from = t.from /\ u.nonce <= t.nonce

(* Nobody is about to touch the pool.                                       *)
Quiescent ==
    /\ op = "idle" /\ to_notify = {} /\ queued = <<>>
    /\ \A a \in Producers : stage[a] = "idle"

(* Under auto mining a ready transaction is eventually mined or replaced.   *)
ReadyIsMined == \A t \in Txs : InReady(t) ~> ~InReady(t)

(* Not kept by the code (README, Divergences).                              *)
(* A listener "gets notified about every new ready transaction"             *)
(* (pool/mod.rs:125): the auto miner never goes to sleep on a ready         *)
(* transaction, so once it has recorded Some(false) and nothing is under    *)
(* way, nothing is ready.                                                   *)
NoForgottenReady ==
    Quiescent /\ mode = "Auto" /\ HasPending = "no" => DOMAIN ready_tx = {}

(* A ready transaction is rejected only if its nonce is used up or the      *)
(* validator refuses it.                                                    *)
NoNonceTooHigh ==
    \A a \in Producers : \A t \in block[a].invalid \ block[a].kept_out :
        t.nonce < nonces[t.from]

(* A waiting transaction still "requires other transactions to be mined     *)
(* first" (pool/mod.rs:19-21): once all blocks are applied to the pool, no  *)
(* transaction whose predecessor is mined is left waiting.                  *)
PendingMeansUnmined ==
    Quiescent => \A t \in waiting_queue : nonces[t.from] < t.nonce
=============================================================================
