------------------------------- MODULE TxPool -------------------------------
(***************************************************************************)
(* anvil's transaction pool: PoolInner with its ReadyTransactions and      *)
(* PendingTransactions (crates/anvil/src/eth/pool).                        *)
(*                                                                         *)
(* Every transaction that reaches the pool provides exactly one marker,    *)
(* its (nonce, sender) pair, and requires at most one, the marker of its   *)
(* predecessor.  A hash identifies a transaction, so HashMap<TxHash, _> is *)
(* a function whose domain is a set of transactions.                       *)
(*                                                                         *)
(* Handlers that loop (add_ready_transaction, prune_markers) hold the      *)
(* pool's write lock over the whole loop: one action is one iteration, the *)
(* locals of the handler are variables, and every other handler waits      *)
(* until `op' is "idle".                                                   *)
(***************************************************************************)
EXTENDS Integers, Sequences, FiniteSets

CONSTANTS
    Senders,    \* account addresses
    Txs,        \* the signed transactions that may be submitted
    NoTx,       \* absence of a transaction in a marker map
    MaxId,      \* bound on the transactions accepted into the pool
    MaxMarkers  \* bound on the transactions included in one block

ASSUME TxsAssumption ==
    /\ \A t \in Txs : t.from \in Senders /\ t.nonce \in Nat /\ t.price \in Nat
    /\ NoTx \notin Txs

ASSUME BoundsAssumption == MaxId \in Nat /\ MaxMarkers \in Nat

VARIABLES
    id,                       \* ReadyTransactions::id, the next insertion id
    provided_markers,         \* marker -> ready transaction providing it
    ready_tx,                 \* ready transactions and their bookkeeping
    independent_transactions, \* ready transactions without a ready provider
    required_markers,         \* marker -> transactions waiting for it
    waiting_markers,          \* marker -> waiting transaction providing it
    waiting_queue,            \* the waiting transactions
    op,                       \* which handler holds the write lock
    tx_queue,                 \* add_ready_transaction: batches to import
    is_new_tx,                \* add_ready_transaction: first iteration?
    ready,                    \* add_ready_transaction: its result so far
    markers,                  \* prune_markers: markers left to prune
    imports,                  \* prune_markers: unlocked batches to import
    to_notify                 \* ready transactions not yet announced

readyVars == <<id, provided_markers, ready_tx, independent_transactions>>
pendingVars == <<required_markers, waiting_markers, waiting_queue>>
lockVars == <<op, tx_queue, is_new_tx, ready, markers, imports>>
poolVars == <<readyVars, pendingVars, lockVars, to_notify>>

-----------------------------------------------------------------------------
(* Markers and pool transactions.                                          *)

\* to_marker(nonce, from)
Marker(t) == <<t.nonce, t.from>>

\* The marker of the transaction that precedes t in its sender's order.
PrevMarker(t) == <<t.nonce - 1, t.from>>

Markers == {Marker(t) : t \in Txs}
             \cup {PrevMarker(t) : t \in {u \in Txs : u.nonce > 0}}

\* PoolTransaction: the transaction and the markers its submitter computed.
PoolTransaction == [tx : Txs, requires : SUBSET Markers]

\* ReadyTransaction: what the pool keeps of a ready transaction.
ReadyTransaction ==
    [id : Nat, requires : SUBSET Markers, unlocks : [Txs -> Nat],
     requires_offset : Nat]

\* A waiting transaction was submitted with its predecessor's marker.
Waiting(t) == [tx |-> t, requires |-> {PrevMarker(t)}]

NoUnlocks == [t \in Txs |-> 0]

\* swap_remove of the first occurrence of each member of S, the Vec as a bag.
RemoveOne(unlocks, S) ==
    [t \in Txs |-> IF t \in S /\ unlocks[t] > 0 THEN unlocks[t] - 1
                   ELSE unlocks[t]]

NoReady == [hash |-> NoTx, promoted |-> {}, removed |-> {}]

\* Queues of batches.  A batch stems from a HashSet, so its members leave in
\* any order; batches leave first in, first out.
Items(q) == UNION {q[i] : i \in DOMAIN q}

Push(q, batch) == IF batch = {} THEN q ELSE Append(q, batch)

\* Slip: front() for pop_front().
PopFront(q, p) == q

Pop(q, p) == IF Head(q) = {p} THEN Tail(q) ELSE <<Head(q) \ {p}>> \o Tail(q)

InReady(t) == t \in DOMAIN ready_tx

\* Slip: only the ready transactions are searched.
ContainsReady(t) == InReady(t)

Contains(t) == t \in waiting_queue \/ InReady(t)

ReadyTypeOK ==
    /\ id \in Nat
    /\ provided_markers \in [Markers -> Txs \cup {NoTx}]
    /\ DOMAIN ready_tx \subseteq Txs
    /\ ready_tx \in [DOMAIN ready_tx -> ReadyTransaction]
    /\ independent_transactions \subseteq Txs

PendingTypeOK ==
    /\ required_markers \in [Markers -> SUBSET Txs]
    /\ waiting_markers \in [Markers -> Txs \cup {NoTx}]
    /\ waiting_queue \subseteq Txs

LocalsTypeOK ==
    /\ op \in {"idle", "add", "prune"}
    /\ tx_queue \in Seq(SUBSET PoolTransaction)
    /\ is_new_tx \in BOOLEAN
    /\ ready \in [hash : Txs \cup {NoTx}, promoted : SUBSET Txs,
                  removed : SUBSET Txs]
    /\ markers \in Seq(Markers)
    /\ imports \in Seq(SUBSET PoolTransaction)
    /\ to_notify \subseteq Txs

\* Every structure of the pool and every local of its handlers keeps its type.
TypeOK == ReadyTypeOK /\ PendingTypeOK /\ LocalsTypeOK

Init ==
    /\ id = 0
    /\ provided_markers = [m \in Markers |-> NoTx]
    /\ ready_tx = [t \in {} |-> NoTx]
    /\ independent_transactions = {}
    /\ required_markers = [m \in Markers |-> {}]
    /\ waiting_markers = [m \in Markers |-> NoTx]
    /\ waiting_queue = {}
    /\ op = "idle"
    /\ tx_queue = <<>>
    /\ is_new_tx = FALSE
    /\ ready = NoReady
    /\ markers = <<>>
    /\ imports = <<>>
    /\ to_notify = {}

-----------------------------------------------------------------------------
(* PendingTransactions.                                                    *)

\* PendingTransactions::add_transaction; the displaced holder of the marker
\* stays in the queue.
PendingAdd(t) ==
    /\ LET holder == waiting_markers[Marker(t)]
       IN  holder \in waiting_queue => t.price >= holder.price
    /\ required_markers' = [required_markers EXCEPT ![PrevMarker(t)] = @ \cup {t}]
    /\ waiting_markers' = [waiting_markers EXCEPT ![Marker(t)] = t]
    /\ waiting_queue' = waiting_queue \cup {t}

\* mark_and_unlock of one marker; the batch it returns is Unlocked(m).
Unlocked(m) == {Waiting(t) : t \in required_markers[m]}

\* Slip: the waiting transactions are not unlocked.
MarkOnly(m) == UNCHANGED pendingVars

MarkAndUnlock(m) ==
    LET unlocked == required_markers[m]
    IN  /\ required_markers' = [required_markers EXCEPT ![m] = {}]
        /\ waiting_markers' =
             [k \in Markers |-> IF \E t \in unlocked : Marker(t) = k
                                THEN NoTx ELSE waiting_markers[k]]
        /\ waiting_queue' = waiting_queue \ unlocked

\* PendingTransactions::remove
PendingRemove(hashes) ==
    LET removed == hashes \cap waiting_queue
    IN  /\ waiting_queue' = waiting_queue \ removed
        /\ waiting_markers' =
             [k \in Markers |-> IF \E t \in removed : Marker(t) = k
                                THEN NoTx ELSE waiting_markers[k]]
        /\ required_markers' = [k \in Markers |-> required_markers[k] \ removed]

-----------------------------------------------------------------------------
(* ReadyTransactions.                                                      *)

\* What is left of h's entry when the transactions in `gone' are removed.  The
\* code looks for h's own hash in h's unlocks: the name `hash' is shadowed.
AfterRemoval(h, gone) ==
    IF \E d \in gone : \E m \in ready_tx[d].requires : provided_markers[m] = h
    THEN [ready_tx[h] EXCEPT !.unlocks = RemoveOne(@, {h})]
    ELSE ready_tx[h]

\* Ready transactions linked, over any number of unlocks, from `hashes'.
Closed(S) ==
    \A h \in S : \A d \in DOMAIN ready_tx : ready_tx[h].unlocks[d] > 0 => d \in S

Reachable(hashes) ==
    {d \in DOMAIN ready_tx :
        \A S \in SUBSET DOMAIN ready_tx :
            hashes \cap DOMAIN ready_tx \subseteq S /\ Closed(S) => d \in S}

\* Slip: the markers of the removed transactions stay provided.
RemoveKeepingMarkers(hashes) ==
    LET gone == Reachable(hashes)
    IN  /\ ready_tx' = [h \in DOMAIN ready_tx \ gone |-> AfterRemoval(h, gone)]
        /\ independent_transactions' = independent_transactions \ gone
        /\ UNCHANGED <<id, provided_markers>>

\* remove_with_markers without a filter: dependents go too.
RemoveWithMarkers(hashes) ==
    LET gone == Reachable(hashes)
    IN  /\ ready_tx' = [h \in DOMAIN ready_tx \ gone |-> AfterRemoval(h, gone)]
        /\ provided_markers' =
             [m \in Markers |-> IF \E h \in gone : Marker(h) = m
                                THEN NoTx ELSE provided_markers[m]]
        /\ independent_transactions' = independent_transactions \ gone
        /\ id' = id

\* replaced_transactions: the ready transaction that provides t's marker.
Replaced(t) == {provided_markers[Marker(t)]} \cap DOMAIN ready_tx

Underpriced(t) == \E old \in Replaced(t) : t.price <= old.price

\* Slip: a required marker counts although nothing provides it.
ProvidersOrNone(p) == {provided_markers[m] : m \in p.requires}

\* The ready transactions that provide what p requires.
Providers(p) == {provided_markers[m] : m \in p.requires} \ {NoTx}

\* ReadyTransactions::add_transaction, replacement included.
ReadyAdd(p) ==
    LET t == p.tx
        old == Replaced(t)
        carried == IF old = {} THEN NoUnlocks
                   ELSE ready_tx[provided_markers[Marker(t)]].unlocks
        entry == [id |-> id, requires |-> p.requires, unlocks |-> carried,
                  requires_offset |->
                    IF \E m \in p.requires : provided_markers[m] = NoTx
                    THEN 1 ELSE 0]
    IN  /\ ready_tx' =
             [h \in (DOMAIN ready_tx \ old) \cup {t} |->
                CASE h = t -> entry
                  [] h # t /\ h \in Providers(p) ->
                       [AfterRemoval(h, old) EXCEPT !.unlocks[t] = @ + 1]
                  [] OTHER -> AfterRemoval(h, old)]
        /\ provided_markers' = [provided_markers EXCEPT ![Marker(t)] = t]
        /\ independent_transactions' =
             (independent_transactions \ old)
               \cup (IF Providers(p) = {} THEN {t} ELSE {})
        /\ id' = id + 1

\* prune_tags walks back from the pruned marker while the predecessor unlocks
\* nothing else.
LeadsOnlyTo(k, m) ==
    LET h == provided_markers[m]
        p == provided_markers[k]
    IN  /\ InReady(h) /\ InReady(p)
        /\ k \in ready_tx[h].requires
        /\ RemoveOne(ready_tx[p].unlocks, {h}) = NoUnlocks

PrunedMarkers(m) ==
    {k \in Markers :
        /\ k[2] = m[2] /\ k[1] <= m[1]
        /\ \A j \in k[1] .. (m[1] - 1) :
              /\ <<j, m[2]>> \in Markers
              /\ LeadsOnlyTo(<<j, m[2]>>, <<j + 1, m[2]>>)}

PruneTags(m) ==
    LET gone == {provided_markers[k] : k \in PrunedMarkers(m)} \cap DOMAIN ready_tx
        tip == provided_markers[m]
        freed(h) == IF InReady(tip) THEN ready_tx[tip].unlocks[h] ELSE 0
        \* transactions that stop being unlocked by h
        dropped(h) == {d \in gone : \E k \in ready_tx[d].requires :
                                        provided_markers[k] = h}
    IN  /\ ready_tx' =
             [h \in DOMAIN ready_tx \ gone |->
                [ready_tx[h] EXCEPT
                    !.requires_offset = @ + freed(h),
                    !.unlocks = RemoveOne(@, dropped(h))]]
        /\ provided_markers' =
             [k \in Markers |-> IF k \in PrunedMarkers(m)
                                THEN NoTx ELSE provided_markers[k]]
        /\ independent_transactions' =
             (independent_transactions \ gone)
               \cup {h \in DOMAIN ready_tx \ gone :
                        /\ freed(h) > 0
                        /\ ready_tx[h].requires # {}
                        /\ ready_tx[h].requires_offset = 0}
        /\ id' = id

-----------------------------------------------------------------------------
(* PoolInner and Pool: the handlers.                                       *)

\* add_transaction: reject a known transaction, park one whose requirement is
\* not provided, otherwise enter the loop of add_ready_transaction.
AddTransaction(p) ==
    /\ op = "idle"
    /\ ~Contains(p.tx)
    /\ id + Cardinality(waiting_queue) < MaxId
    /\ \/ /\ \E m \in p.requires : provided_markers[m] = NoTx
          /\ PendingAdd(p.tx)
          /\ UNCHANGED <<readyVars, lockVars, to_notify>>
       \/ /\ \A m \in p.requires : provided_markers[m] # NoTx
          /\ op' = "add"
          /\ tx_queue' = <<{p}>>
          /\ is_new_tx' = TRUE
          /\ ready' = [NoReady EXCEPT !.hash = p.tx]
          /\ UNCHANGED <<readyVars, pendingVars, markers, imports, to_notify>>

\* Slip: what p unlocks is not queued.
PoppedOnly(p) == Pop(tx_queue, p)

\* The queue after p is popped and what its marker unlocks is appended.
Requeued(p) == Push(Pop(tx_queue, p), Unlocked(Marker(p.tx)))

\* One iteration of add_ready_transaction.  An error on the submitted
\* transaction returns at once and drops the queue.
AddReadyTransaction ==
    /\ tx_queue # <<>>
    /\ \E p \in Head(tx_queue) :
         /\ MarkAndUnlock(Marker(p.tx))
         /\ \/ /\ ~Underpriced(p.tx)
               /\ ReadyAdd(p)
               /\ tx_queue' = Requeued(p)
               /\ ready' = [ready EXCEPT
                              !.promoted = IF is_new_tx THEN @ ELSE @ \cup {p.tx},
                              !.removed = @ \cup Replaced(p.tx)]
            \/ /\ Underpriced(p.tx)
               /\ tx_queue' = IF is_new_tx THEN <<>> ELSE Requeued(p)
               /\ ready' = IF is_new_tx THEN NoReady ELSE ready
               /\ UNCHANGED readyVars
    /\ is_new_tx' = FALSE
    /\ UNCHANGED <<op, markers, imports, to_notify>>

\* The loop is over: the cycle check, and for a submission (not a promotion
\* during pruning) the lock is released and listeners are to be told.
FinishAddReady ==
    /\ op \in {"add", "prune"}
    /\ tx_queue = <<>>
    /\ ready.hash # NoTx \/ op = "add"
    /\ IF ready.hash \in ready.removed
       THEN RemoveWithMarkers(ready.promoted)
       ELSE UNCHANGED readyVars
    /\ to_notify' = IF op = "add" /\ ready.hash \notin ready.removed \cup {NoTx}
                    THEN to_notify \cup {ready.hash} \cup ready.promoted
                    ELSE to_notify
    /\ op' = IF op = "add" THEN "idle" ELSE op
    /\ ready' = NoReady
    /\ UNCHANGED <<pendingVars, tx_queue, is_new_tx, markers, imports>>

\* notify_listener(hash), called after the lock is released.
NotifyListener(t) ==
    /\ t \in to_notify
    /\ to_notify' = to_notify \ {t}
    /\ UNCHANGED <<readyVars, pendingVars, lockVars>>

\* prune_markers(ms) starts.
PruneMarkers(ms) ==
    /\ op = "idle"
    /\ op' = "prune"
    /\ markers' = ms
    /\ UNCHANGED <<readyVars, pendingVars, tx_queue, is_new_tx, ready,
                   imports, to_notify>>

\* One iteration of its first loop.
PruneMarker ==
    /\ op = "prune"
    /\ markers # <<>>
    /\ LET m == Head(markers)
       IN  /\ MarkAndUnlock(m)
           /\ PruneTags(m)
           /\ imports' = Push(imports, Unlocked(m))
    /\ markers' = Tail(markers)
    /\ UNCHANGED <<op, tx_queue, is_new_tx, ready, to_notify>>

\* One iteration of its second loop enters add_ready_transaction.
ImportUnlocked ==
    /\ op = "prune"
    /\ markers = <<>> /\ tx_queue = <<>> /\ ready.hash = NoTx
    /\ imports # <<>>
    /\ \E p \in Head(imports) :
         /\ tx_queue' = <<{p}>>
         /\ ready' = [NoReady EXCEPT !.hash = p.tx]
         /\ imports' = Pop(imports, p)
    /\ is_new_tx' = TRUE
    /\ UNCHANGED <<readyVars, pendingVars, op, markers, to_notify>>

FinishPrune ==
    /\ op = "prune"
    /\ markers = <<>> /\ imports = <<>> /\ tx_queue = <<>> /\ ready.hash = NoTx
    /\ op' = "idle"
    /\ UNCHANGED <<readyVars, pendingVars, tx_queue, is_new_tx, ready,
                   markers, imports, to_notify>>

\* remove_invalid(hashes)
RemoveInvalid(hashes) ==
    /\ op = "idle"
    /\ RemoveWithMarkers(hashes)
    /\ PendingRemove(hashes)
    /\ UNCHANGED <<lockVars, to_notify>>

\* transactions_by_sender: waiting ones, and ready ones the iterator yields.
BySender(s) ==
    {t \in waiting_queue \cup Reachable(independent_transactions) : t.from = s}

RemoveTransactionsByAddress(s) == RemoveInvalid(BySender(s))

\* drop_transaction(tx): only the ready transactions are searched.
DropTransaction(t) ==
    /\ op = "idle"
    /\ RemoveWithMarkers({t})
    /\ UNCHANGED <<pendingVars, lockVars, to_notify>>

Clear ==
    /\ op = "idle"
    /\ provided_markers' = [m \in Markers |-> NoTx]
    /\ ready_tx' = [t \in {} |-> NoTx]
    /\ independent_transactions' = {}
    /\ required_markers' = [m \in Markers |-> {}]
    /\ waiting_markers' = [m \in Markers |-> NoTx]
    /\ waiting_queue' = {}
    /\ UNCHANGED <<id, lockVars, to_notify>>

\* The iterations of a handler that already holds the lock.
HoldingLock ==
    \/ AddReadyTransaction
    \/ FinishAddReady
    \/ PruneMarker
    \/ ImportUnlocked
    \/ FinishPrune

\* What submitters compute as requirement: nothing or the predecessor.
Submissions ==
    {[tx |-> t, requires |-> {}] : t \in Txs}
      \cup {Waiting(t) : t \in {u \in Txs : u.nonce > 0}}

MarkerBatches == UNION {[1 .. k -> Markers] : k \in 1 .. MaxMarkers}

Next ==
    \/ \E p \in Submissions : AddTransaction(p)
    \/ HoldingLock
    \/ \E t \in Txs : NotifyListener(t)
    \/ \E ms \in MarkerBatches : PruneMarkers(ms)
    \/ \E hashes \in SUBSET Txs : RemoveInvalid(hashes)
    \/ \E s \in Senders : RemoveTransactionsByAddress(s)
    \/ \E t \in Txs : DropTransaction(t)
    \/ Clear

Spec == Init /\ [][Next]_poolVars

\* A thread that holds the lock keeps running its loop.
FairSpec == Spec /\ WF_poolVars(HoldingLock)

-----------------------------------------------------------------------------
(* Properties.                                                             *)

(* At most one ready transaction provides a marker and the marker map points *)
(* at it: the assert_eq! of prune_tags ("The pool contains exactly one       *)
(* transaction providing given tag") and the expect("hash included;") of     *)
(* ReadyTransactions::add_transaction cannot fail, whatever was replaced,    *)
(* pruned or dropped before.                                                 *)
MarkersMatchReady ==
    /\ \A m \in Markers : provided_markers[m] # NoTx =>
          InReady(provided_markers[m]) /\ Marker(provided_markers[m]) = m
    /\ \A h \in DOMAIN ready_tx : provided_markers[Marker(h)] = h

(* required_markers lists exactly the waiting transactions, each under the   *)
(* marker it misses: expect("tx is included;") of mark_and_unlock cannot     *)
(* fail and no waiting transaction is unreachable for a later unlock.        *)
WaitingIndexed ==
    \A m \in Markers :
        required_markers[m] = {t \in waiting_queue : PrevMarker(t) = m}

(* The transactions a handler holds while it loops.                          *)
InFlight == {p.tx : p \in Items(tx_queue) \cup Items(imports)}

(* A transaction is in one place only: waiting, ready or being promoted, so  *)
(* the assertions "transaction is already added" and "transaction already    *)
(* included" of the two add_transaction functions hold.                      *)
InOnePlace ==
    /\ waiting_queue \cap DOMAIN ready_tx = {}
    /\ InFlight \cap (waiting_queue \cup DOMAIN ready_tx) = {}

(* No transaction waits for a marker that a ready transaction provides: a    *)
(* waiter is never forgotten when its predecessor becomes ready.             *)
NoSatisfiedWaiter ==
    \A m \in Markers : provided_markers[m] # NoTx => required_markers[m] = {}

(* The iterator the miner drains yields every ready transaction: each one is *)
(* independent or linked from an independent one over unlocks that survived  *)
(* all replacements, prunings and removals.                                  *)
EveryReadyYielded == Reachable(independent_transactions) = DOMAIN ready_tx

(* The "cycle" that add_ready_transaction guards against, a promoted         *)
(* transaction that replaces the submitted one, cannot happen.               *)
NoCyclicTransaction == ready.hash \notin ready.removed

(* While a handler promotes transactions it loses none: one that leaves the  *)
(* pool has been outbid by a ready transaction with the same sender and      *)
(* nonce, even though an early Err return drops the whole local queue.       *)
Known == waiting_queue \cup DOMAIN ready_tx \cup InFlight

Promoting == op # "idle" /\ markers = <<>>

NothingLostWhilePromoting ==
    [][Promoting =>
         \A t \in Known \ Known' :
            \E h \in DOMAIN ready_tx' :
                Marker(h) = Marker(t) /\ h.price >= t.price]_poolVars

(* Every handler leaves its loops: the lock is always released again.        *)
LockIsReleased == (op # "idle") ~> (op = "idle")

-----------------------------------------------------------------------------
(* What the invariants above rest on; TxPoolProofs shows it is inductive.   *)

\* A requirement is the marker of the predecessor, and only if there is one.
RequiresPrev(t, requires) ==
    requires = {} \/ (t.nonce > 0 /\ requires = {PrevMarker(t)})

\* Links between ready transactions follow the nonces of one sender, so they
\* form no cycle; a transaction that is not independent hangs on the ready
\* transaction that provides what it requires.
Linked ==
    /\ independent_transactions \subseteq DOMAIN ready_tx
    /\ \A h \in DOMAIN ready_tx :
          /\ RequiresPrev(h, ready_tx[h].requires)
          /\ \A d \in Txs : ready_tx[h].unlocks[d] > 0 => PrevMarker(d) = Marker(h)
          /\ h \notin independent_transactions =>
                /\ h.nonce > 0
                /\ ready_tx[h].requires = {PrevMarker(h)}
                /\ ready_tx[h].requires_offset = 0
                /\ InReady(provided_markers[PrevMarker(h)])
                /\ ready_tx[provided_markers[PrevMarker(h)]].unlocks[h] > 0

WaitingHasPrev == \A t \in waiting_queue : t.nonce > 0

\* Batches in flight are not empty, and no transaction is in two of them.
BatchesOK(q) ==
    /\ \A i \in DOMAIN q : q[i] # {}
    /\ \A i, j \in DOMAIN q : \A p \in q[i], r \in q[j] :
          p.tx = r.tx => i = j /\ p = r

\* The handler's locals.
LocalsOK ==
    /\ BatchesOK(tx_queue) /\ BatchesOK(imports)
    /\ \A p \in Items(tx_queue) \cup Items(imports) : RequiresPrev(p.tx, p.requires)
    /\ \A p \in Items(tx_queue), r \in Items(imports) : p.tx # r.tx
    /\ op = "idle" => tx_queue = <<>> /\ imports = <<>> /\ markers = <<>>
                        /\ ready = NoReady
    /\ op = "add" => imports = <<>> /\ markers = <<>>
    /\ markers # <<>> => tx_queue = <<>> /\ ready = NoReady
    /\ tx_queue # <<>> => ready.hash \in Txs
    /\ ready.hash = NoTx => ready = NoReady
    /\ is_new_tx /\ tx_queue # <<>> =>
          ready.removed = {} /\ \A p \in Items(tx_queue) : p.tx = ready.hash
    /\ ~is_new_tx => \A p \in Items(tx_queue) : p.tx.nonce > ready.hash.nonce

IInv ==
    /\ TypeOK
    /\ MarkersMatchReady
    /\ WaitingIndexed
    /\ WaitingHasPrev
    /\ InOnePlace
    /\ NoSatisfiedWaiter
    /\ Linked
    /\ LocalsOK
    /\ NoCyclicTransaction
=============================================================================
