------------------------------ MODULE Listeners ------------------------------
(***************************************************************************)
(* Who listens to new blocks in anvil: the polled filters (filter.rs), a   *)
(* websocket subscription to logs (pubsub.rs), and the service that keeps  *)
(* the fee history (eth/fees.rs).  Each has a channel of notifications and *)
(* looks the block up when it takes a notification out.                    *)
(*                                                                         *)
(* do_mine_block stores a block and notifies after it has released the     *)
(* storage; a rollback takes no lock against it, and the RPC handlers run  *)
(* on other threads.  A block has its number, an id of its own in place of *)
(* its hash, and may have logs that match the filters.                     *)
(***************************************************************************)
EXTENDS Naturals, Sequences, FiniteSets, Functions

CONSTANTS
    Setups,         \* which listeners there are: sets of "filters", "socket", "fees"
    Clients,        \* those that poll a filter, one after the other
    FeeLimit,       \* MAX_FEE_HISTORY_CACHE_SIZE
    MaxBlocks,      \* bound on the blocks mined
    MaxRollbacks,   \* bound on the rollbacks
    MaxFilters      \* bound on the filters made

ASSUME ListenersAssumption ==
    /\ Setups \subseteq SUBSET {"filters", "socket", "fees"}
    /\ FeeLimit \in Nat \ {0}
    /\ {MaxBlocks, MaxRollbacks, MaxFilters} \subseteq Nat

VARIABLES
    setup,          \* the listeners of this behaviour
    chain,          \* the blocks stored, by number
    mined,          \* number of blocks mined so far
    announcing,     \* blocks that are stored and not announced yet
    rollbacks,      \* number of rollbacks so far
    filters,        \* the polled filter of every client
    made,           \* number of filters made so far
    listeners,      \* senders in new_block_listeners
    subscription,   \* the websocket subscription
    connection,     \* the task of its connection
    fees,           \* FeeHistoryService: channel and cache
    wiped           \* history: the blocks rolled back

node == <<setup, chain, mined, announcing, rollbacks, wiped>>
websocket == <<subscription, connection>>
listenVars == <<node, filters, made, listeners, websocket, fees>>

StillStored(block) == block \in Range(chain)

NoFilter == [phase |-> "none", of |-> "logs", id |-> 0, historic |-> <<>>, queue |-> <<>>,
             expired |-> FALSE, told |-> <<>>, since |-> {}, raced |-> FALSE]

\* The last three are history: what it told, what it has to tell, and whether
\* a block was stored while it was being made.

\* The channel of a client's filter; "fees" and "socket" are the others.
Channel(f) == <<"filter", f.id>>

ListenInit ==
    /\ setup \in Setups
    /\ chain = <<>>
    /\ mined = 0
    /\ announcing = <<>>
    /\ rollbacks = 0
    /\ filters = [c \in Clients |-> NoFilter]
    /\ made = 0
    /\ listeners = {<<l>> : l \in setup \ {"filters"}}
    /\ subscription = [queue |-> <<>>, waker |-> TRUE]
    /\ connection = [woken |-> FALSE, progress |-> FALSE]
    /\ fees = [queue |-> <<>>, cache |-> {}, top |-> 0]
    /\ wiped = {}

-----------------------------------------------------------------------------
(* The backend                                                             *)

(* do_mine_block, up to the block in the storage.  The mining mutex is     *)
(* held until the notification.                                            *)
Mine(logs) ==
    /\ mined < MaxBlocks
    /\ announcing = <<>>
    /\ LET block == [number |-> Len(chain) + 1, id |-> mined + 1, logs |-> logs]
       IN /\ chain' = Append(chain, block)
          /\ announcing' = <<block>>
    /\ mined' = mined + 1
    /\ filters' = [c \in Clients |->
                     [filters[c] EXCEPT !.raced = @ \/ filters[c].phase = "read"]]
    /\ UNCHANGED <<setup, rollbacks, wiped, made, listeners, websocket, fees>>

\* Receivers that are not dropped.
Open == {<<"fees">>, <<"socket">>} \cup {Channel(f) : f \in {filters[c] : c \in Clients}}

\* "if the channel is closed we can remove the sender half"
Reached == listeners \cap Open

Send(queue, channel, block) == IF channel \in Reached THEN Append(queue, block) ELSE queue

(* notify_on_new_block.  A message wakes the task that is waiting for it.  *)
Notify ==
    /\ announcing # <<>>
    /\ announcing' = <<>>
    /\ listeners' = Reached
    /\ LET block == announcing[1]
       IN /\ filters' = [c \in Clients |->
                [filters[c] EXCEPT !.queue = Send(@, Channel(filters[c]), block),
                                   !.since = IF filters[c].phase = "installed"
                                             THEN @ \cup {block} ELSE @]]
          /\ subscription' = [queue |-> Send(subscription.queue, <<"socket">>, block),
                              waker |-> subscription.waker /\ <<"socket">> \notin Reached]
          /\ connection' = [connection EXCEPT !.woken = @ \/ (subscription.waker /\ ~subscription'.waker)]
          /\ fees' = [fees EXCEPT !.queue = Send(@, <<"fees">>, block)]
    /\ UNCHANGED <<setup, chain, mined, rollbacks, wiped, made>>

(* anvil_rollback or evm_revert: the blocks above are removed. *)
Rollback(to) ==
    /\ rollbacks < MaxRollbacks
    /\ to < Len(chain)
    /\ rollbacks' = rollbacks + 1
    /\ chain' = SubSeq(chain, 1, to)
    /\ wiped' = wiped \cup {chain[n] : n \in to + 1 .. Len(chain)}
    /\ UNCHANGED <<setup, mined, announcing, filters, made, listeners, websocket, fees>>

-----------------------------------------------------------------------------
(* Polled filters                                                          *)

\* The i-th of a set of positions.
Nth(places, i) == CHOOSE n \in places : Cardinality({m \in places : m < n}) = i - 1

\* The blocks of a sequence that are among `those', in order (SelectSeq
\* without its recursion).
Selected(blocks, those) ==
    LET places == {n \in DOMAIN blocks : blocks[n] \in those}
    IN [i \in 1 .. Cardinality(places) |-> blocks[Nth(places, i)]]

WithLogs(blocks) == {b \in Range(blocks) : b.logs}

Logged(blocks) == Selected(blocks, WithLogs(blocks))

(* eth_newFilter with fromBlock reads the logs there are before it makes   *)
(* its channel.                                                            *)
ReadHistoric(c) ==
    /\ "filters" \in setup
    /\ filters[c].phase = "none"
    /\ made < MaxFilters
    /\ filters' = [filters EXCEPT ![c] = [NoFilter EXCEPT !.phase = "read",
                                                          !.historic = Logged(chain),
                                                          !.since = Range(chain),
                                                          !.raced = announcing # <<>>]]
    /\ UNCHANGED <<node, made, listeners, websocket, fees>>

Install(c, filter) ==
    /\ made < MaxFilters
    /\ made' = made + 1
    /\ filters' = [filters EXCEPT ![c] = [filter EXCEPT !.phase = "installed", !.id = made + 1]]
    /\ listeners' = listeners \cup {<<"filter", made + 1>>}
    /\ UNCHANGED <<node, websocket, fees>>

\* The rest of eth_newFilter.
NewFilterFrom(c) ==
    /\ filters[c].phase = "read"
    /\ Install(c, filters[c])

(* eth_newFilter without fromBlock, eth_newBlockFilter *)
NewFilter(c, of) ==
    /\ "filters" \in setup
    /\ filters[c].phase = "none"
    /\ Install(c, [NoFilter EXCEPT !.of = of])

\* Slip: the historic logs are not taken out.
HistoricKept(f) == f.historic

\* self.historic.take()
HistoricLeft(f) == <<>>

\* What a poll returns.
Changes(f) ==
    IF f.of = "blocks" THEN f.queue
    ELSE f.historic \o Selected(f.queue, WithLogs(chain))

(* eth_getFilterChanges: also pushes the deadline back. *)
GetFilterChanges(c) ==
    LET f == filters[c]
    IN /\ f.phase = "installed"
       /\ filters' = [filters EXCEPT ![c] = [f EXCEPT !.historic = HistoricLeft(f),
                                                      !.queue = <<>>,
                                                      !.expired = FALSE,
                                                      !.told = @ \o Changes(f)]]
       /\ UNCHANGED <<node, made, listeners, websocket, fees>>

(* Five minutes without a poll. *)
Expire(c) ==
    /\ filters[c].phase = "installed" /\ ~filters[c].expired
    /\ filters' = [filters EXCEPT ![c].expired = TRUE]
    /\ UNCHANGED <<node, made, listeners, websocket, fees>>

(* evict, spawned by the node service *)
Evict ==
    /\ \E c \in Clients : filters[c].expired
    /\ filters' = [c \in Clients |-> IF filters[c].expired THEN NoFilter ELSE filters[c]]
    /\ UNCHANGED <<node, made, listeners, websocket, fees>>

UninstallFilter(c) ==
    /\ filters[c].phase = "installed"
    /\ filters' = [filters EXCEPT ![c] = NoFilter]
    /\ UNCHANGED <<node, made, listeners, websocket, fees>>

-----------------------------------------------------------------------------
(* The websocket subscription                                              *)

(* The subscription's poll returns Pending.  The connection polls it again *)
(* if it made progress with anything, and sleeps if not.                   *)
Pending(waker) ==
    /\ subscription' = [subscription EXCEPT !.queue = IF @ = <<>> THEN @ ELSE Tail(@),
                                            !.waker = waker]
    /\ connection' = [woken |-> connection.progress, progress |-> FALSE]

Polled == connection.woken /\ UNCHANGED <<node, filters, made, listeners, fees>>

\* Slip: returns Pending after a block without logs.
SleepOnNoLogs ==
    /\ subscription.queue # <<>> /\ StillStored(Head(subscription.queue))
    /\ IF Head(subscription.queue).logs
       THEN /\ subscription' = [subscription EXCEPT !.queue = Tail(@)]
            /\ connection' = [connection EXCEPT !.progress = TRUE]
       ELSE Pending(FALSE)

(* A block that is stored: its logs are sent, or there are none and the    *)
(* channel is polled further.                                              *)
TakeBlock ==
    /\ subscription.queue # <<>> /\ StillStored(Head(subscription.queue))
    /\ IF Head(subscription.queue).logs
       THEN /\ subscription' = [subscription EXCEPT !.queue = Tail(@)]
            /\ connection' = [connection EXCEPT !.progress = TRUE]
       ELSE /\ subscription' = [subscription EXCEPT !.queue = Tail(@)]
            /\ UNCHANGED connection

PollBlock == Polled /\ TakeBlock

(* The channel is empty and remembers the task. *)
PollEmpty ==
    /\ Polled
    /\ subscription.queue = <<>>
    /\ Pending(TRUE)

(* A block that is stored no more: `queued' is empty, and Pending is       *)
(* returned although the channel was not.                                  *)
PollWiped ==
    /\ Polled
    /\ subscription.queue # <<>> /\ ~StillStored(Head(subscription.queue))
    /\ Pending(FALSE)

(* A request of the client on the same connection. *)
Request ==
    /\ "socket" \in setup
    /\ ~connection.woken
    /\ connection' = [connection EXCEPT !.woken = TRUE]
    /\ UNCHANGED <<node, filters, made, listeners, subscription, fees>>

-----------------------------------------------------------------------------
(* The fee history                                                         *)

CachedAt(cache, n) == {b \in cache : b.number = n}

\* cache.len().saturating_sub(fee_history_limit)
Over(size) == IF size > FeeLimit THEN size - FeeLimit ELSE 0

\* Slip: the entry that is there is kept.
InsertedNew(cache, block) == IF CachedAt(cache, block.number) # {} THEN cache ELSE cache \cup {block}

\* cache.insert(block_number, item)
Inserted(cache, block) == (cache \ CachedAt(cache, block.number)) \cup {block}

(* insert_cache_entry: below zero the key wraps round and nothing is       *)
(* removed.                                                                *)
Trimmed(cache, number) ==
    LET pop_next == IF number > FeeLimit THEN number - FeeLimit ELSE 0
        removed == {b \in cache : 
                        b.number <= pop_next /\ pop_next < b.number + Over(Cardinality(cache))}
    IN cache \ removed

(* The service takes one notification; a block that is stored no more has  *)
(* no entry.                                                               *)
PollFees ==
    /\ fees.queue # <<>>
    /\ LET block == Head(fees.queue)
       IN fees' = [queue |-> Tail(fees.queue),
                   cache |-> IF StillStored(block) THEN Trimmed(Inserted(fees.cache, block), block.number)
                             ELSE fees.cache,
                   top |-> IF StillStored(block) /\ block.number > fees.top THEN block.number ELSE fees.top]
    /\ UNCHANGED <<node, filters, made, listeners, websocket>>

-----------------------------------------------------------------------------
Poll == PollBlock \/ PollEmpty \/ PollWiped

ListenNext ==
    \/ \E logs \in BOOLEAN : Mine(logs)
    \/ Notify
    \/ \E to \in 0 .. MaxBlocks : Rollback(to)
    \/ \E c \in Clients :
          \/ ReadHistoric(c)
          \/ NewFilterFrom(c)
          \/ \E of \in {"logs", "blocks"} : NewFilter(c, of)
          \/ GetFilterChanges(c)
          \/ Expire(c)
          \/ UninstallFilter(c)
    \/ Evict
    \/ Poll
    \/ Request
    \/ PollFees

ListenSpec == ListenInit /\ [][ListenNext]_listenVars

(* The miner's thread goes on, and the runtime polls a task that was       *)
(* woken.  Nobody has to make requests.                                    *)
ListenFairness ==
    /\ WF_listenVars(Notify)
    /\ WF_listenVars(Poll)

ListenFairSpec == ListenSpec /\ ListenFairness

-----------------------------------------------------------------------------
Once(s) == \A m, n \in DOMAIN s : s[m] = s[n] => m = n

(* A block the filter must still tell, or has told: it has logs, or the    *)
(* filter is for blocks, and it was not rolled back.                       *)
Due(f) == {b \in f.since : (b.logs \/ f.of = "blocks") /\ b \notin wiped}

(* The polled filters tell every block announced since the filter was made *)
(* once and in order, whenever they are polled, except those rolled back.  *)
(* With fromBlock the blocks before are told too; but if a block is stored *)
(* or announced while the filter is being made it may be told twice or     *)
(* not at all.                                                             *)
EachOnce ==
    \A c \in Clients :
        LET f == filters[c]
            all == f.told \o Changes(f)
        IN f.phase = "installed" /\ ~f.raced =>
            /\ Due(f) \subseteq Range(all)
            /\ Once(all)
            /\ \A m, n \in DOMAIN all : m < n => all[m].id < all[n].id

(* The fee history has the entry of every block of the chain that was      *)
(* mined within the limit, or the notification is on its way.              *)
FeesTrue ==
    "fees" \in setup => \A n \in DOMAIN chain :
        n + FeeLimit > fees.top =>
            chain[n] \in fees.cache \cup Range(fees.queue) \cup Range(announcing)

(* A client is sent the logs of every block, also of a block that follows  *)
(* many without logs, if nothing is rolled back.                           *)
LogsArrive ==
    subscription.queue # <<>> ~> (subscription.queue = <<>> \/ wiped # {})

(* The comment in the subscription's poll: polling "until it is pending"   *)
(* ensures that the channel "will register the new waker".                 *)
AlwaysWoken == subscription.queue # <<>> ~> subscription.queue = <<>>
=============================================================================
