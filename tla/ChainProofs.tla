----------------------------- MODULE ChainProofs -----------------------------
(***************************************************************************)
(* Theorems about Chain, for any number of threads, transactions, blocks   *)
(* and any retention of transactions, where the calls do not meet          *)
(* (`Workable'): any number of threads mines and takes snapshots, or one   *)
(* thread makes all calls and either rolls back or reverts to snapshots.   *)
(* The README's Divergences say what happens otherwise.                    *)
(***************************************************************************)
EXTENDS Chain, FiniteSetTheorems, TLAPS

-----------------------------------------------------------------------------
(* Who calls                                                               *)

Alone(w, t) == \A u \in Threads \ {t} : w[u] = {}

Workable(w) ==
    \/ \A t \in Threads : w[t] \subseteq {"mine", "snapshot"}
    \/ \E t \in Threads :
          /\ Alone(w, t)
          /\ \/ w[t] \subseteq {"mine", "rollback", "reorg"}
             \/ w[t] \subseteq {"mine", "snapshot", "revert"}

MinePlaces == {"state", "execute", "store", "env"}
RewindPlaces == {"rollback", "clear", "load", "unwind", "reorg"}
SnapshotPlaces == {"snapshot", "revert"}

BlockRecord ==
    [number : Nat, parent : Nat, timestamp : Nat, root : SUBSET Txs, transactions : SUBSET Txs]

CallType ==
    [number : Nat, env : Nat, hash : Nat, txs : SUBSET Txs, block : BlockRecord,
     left : Nat, id : Nat]

(* A thread is where its calls can have led it, and holds the mutex while  *)
(* it mines.                                                               *)
Called ==
    /\ workload \in Workloads
    /\ pc \in [Threads -> {"idle"} \cup MinePlaces \cup RewindPlaces \cup SnapshotPlaces]
    /\ call \in [Threads -> CallType]
    /\ \A t \in Threads :
          /\ pc[t] # "idle" => workload[t] # {}
          /\ pc[t] \in RewindPlaces \/ call[t].left > 0 =>
                workload[t] \cap {"rollback", "reorg"} # {}
          /\ pc[t] = "snapshot" => "snapshot" \in workload[t]
          /\ pc[t] = "revert" => "revert" \in workload[t]
          /\ pc[t] \in MinePlaces => mining = t

-----------------------------------------------------------------------------
(* The chain                                                               *)

BlockAt(n) == blocks[hashes[n]]

\* What the transactions of the first blocks lead to.
Upto(n) == UNION {BlockAt(m).root : m \in 0 .. n}

(* ChainLinked at every moment, with what keeps hashes and transactions of *)
(* different blocks apart.                                                 *)
Linked ==
    /\ best_number \in Nat
    /\ mined \in Nat
    /\ DOMAIN hashes = 0 .. best_number
    /\ best_hash = hashes[best_number]
    /\ DOMAIN blocks = {hashes[n] : n \in DOMAIN hashes}
    /\ \A n \in 0 .. best_number :
          /\ hashes[n] \in 0 .. mined
          /\ BlockAt(n) \in BlockRecord
          /\ BlockAt(n).number = n
          /\ BlockAt(n).transactions \subseteq BlockAt(n).root
    /\ \A n \in 1 .. best_number :
          /\ BlockAt(n).parent = hashes[n - 1]
          /\ BlockAt(n).timestamp >= BlockAt(n - 1).timestamp
    /\ \A m, n \in 0 .. best_number : m # n => BlockAt(m).root \cap BlockAt(n).root = {}

(* HistoryTrue at every moment; a hash is not used before it is mined.     *)
History ==
    /\ DOMAIN states \subseteq 0 .. mined
    /\ \A n \in 0 .. best_number :
          hashes[n] \in DOMAIN states => states[hashes[n]].accounts = Upto(n)

Listed ==
    NeverRolledBack =>
        /\ DOMAIN transactions = UNION {BlockAt(n).transactions : n \in 0 .. best_number}
        /\ \A tx \in DOMAIN transactions :
              /\ transactions[tx] \in DOMAIN blocks
              /\ tx \in blocks[transactions[tx]].transactions

\* The accounts of a snapshot at a block.
Taken(number, hash, accounts) ==
    /\ number \in 0 .. best_number
    /\ hash = hashes[number]
    /\ Upto(number) \subseteq accounts
    /\ OneCaller => accounts = Upto(number)

\* The snapshots that are there when a revert that is under way is over.
Live == {i \in DOMAIN state_snapshots : \A t \in Threads : pc[t] = "revert" => i < call[t].id}

(* The snapshots that live, and those being taken, are at blocks of the    *)
(* chain, in the order of their ids unless taken while others mine; the    *)
(* database is never behind the chain.                                     *)
Snapshots ==
    /\ snapshot_id \in Nat
    /\ (\A t \in Threads : "snapshot" \notin workload[t]) => snapshot_id = 0
    /\ DOMAIN state_snapshots \subseteq 0 .. snapshot_id - 1
    /\ Live \subseteq DOMAIN active_state_snapshots
    /\ \A i \in Live : Taken(active_state_snapshots[i].number, active_state_snapshots[i].hash,
                             state_snapshots[i].accounts)
    /\ OneCaller =>
          \A i, j \in Live :
              i < j => active_state_snapshots[i].number <= active_state_snapshots[j].number
    /\ \A t \in Threads : pc[t] = "snapshot" =>
          /\ Taken(call[t].number, call[t].hash, db.accounts)
          /\ OneCaller => call[t].number = best_number
    /\ (\E t \in Threads : "snapshot" \in workload[t]) => Upto(best_number) \subseteq db.accounts

-----------------------------------------------------------------------------
(* A call under way                                                        *)

DbAt(n) == db.accounts = Upto(n)
ClockRight == last_timestamp = BlockAt(best_number).timestamp
Settled == DbAt(best_number) /\ env = best_number /\ ClockRight

\* The common block is still in the chain.
Common(t) ==
    /\ call[t].block.number \in 0 .. best_number
    /\ call[t].hash = hashes[call[t].block.number]
    /\ call[t].block = blocks[call[t].hash]

\* A thread that does nothing but take a snapshot disturbs nobody.
Aside(t) == pc[t] \in {"idle", "snapshot"}

\* What is left to do for the one thread that is under way.
Phase(t) ==
    /\ pc[t] = "reorg" => Settled
    /\ pc[t] \in {"state", "execute"} =>
         /\ Settled
         /\ call[t].number = best_number + 1
         /\ call[t].env = best_number + 1
         /\ call[t].hash = best_hash
    /\ pc[t] = "store" =>
         /\ env = best_number
         /\ call[t].number = best_number + 1
         /\ call[t].env = best_number + 1
         /\ call[t].hash = mined
         /\ mined \notin DOMAIN blocks \cup DOMAIN states
         /\ call[t].block.number = best_number + 1
         /\ call[t].block.parent = best_hash
         /\ call[t].block.timestamp = last_timestamp
         /\ last_timestamp >= BlockAt(best_number).timestamp
         /\ call[t].block.transactions = call[t].block.root
         /\ call[t].block.root \cap Upto(best_number) = {}
         /\ db.accounts = Upto(best_number) \cup call[t].block.root
    /\ pc[t] = "env" => DbAt(best_number) /\ ClockRight /\ call[t].env = best_number
    /\ pc[t] = "rollback" => Settled /\ Common(t)
    /\ pc[t] = "clear" => Settled /\ Common(t) /\ call[t].txs = Upto(call[t].block.number)
    /\ pc[t] = "load" =>
         Common(t) /\ call[t].txs = Upto(call[t].block.number) /\ db.accounts = {}
    /\ pc[t] = "unwind" => Common(t) /\ DbAt(call[t].block.number)
    /\ pc[t] = "revert" =>
         /\ env = best_number
         /\ ClockRight
         /\ RevertedDb(call[t].id).accounts = Upto(best_number)

Phases ==
    /\ (\A t \in Threads : Aside(t)) => Settled
    /\ \A t \in Threads : (\A u \in Threads \ {t} : Aside(u)) => Phase(t)

KInv == Called /\ Linked /\ History /\ Listed /\ Snapshots /\ Phases

-----------------------------------------------------------------------------
(* One call at a time                                                      *)

\* The workloads that the theorems are about.
Tame == \A w \in Workloads : Workable(w)

\* A thread makes a step that is not one of taking a snapshot.
Working(t) ==
    \/ pc[t] \notin {"idle", "snapshot"}
    \/ pc[t] = "idle" /\ "mine" \in workload[t] /\ mining = NoThread
    \/ pc[t] = "idle" /\ workload[t] \cap {"rollback", "reorg", "revert"} # {}

(* Where the calls do not meet, only one thread is under way: the one      *)
(* thread that calls, or the miner that holds the mutex.                   *)
LEMMA Solo ==
    ASSUME Tame, Called, NEW t \in Threads, Working(t)
    PROVE  \A u \in Threads \ {t} : Aside(u)
  <1> SUFFICES ASSUME NEW u \in Threads \ {t}, ~Aside(u) PROVE FALSE
    OBVIOUS
  <1>1. workload[t] # {} /\ workload[u] # {}
    BY DEF Called, Working, Aside
  <1>2. Workable(workload)
    BY DEF Tame, Called
  <1>3. CASE \A v \in Threads : workload[v] \subseteq {"mine", "snapshot"}
    <2>1. \A v \in Threads : ~Aside(v) => mining = v
      BY <1>3 DEF Called, MinePlaces, RewindPlaces, SnapshotPlaces, Aside
    <2>2. mining = NoThread \/ ~Aside(t)
      BY <1>3 DEF Working, Aside
    <2> QED
      BY <2>1, <2>2, ChainAssumption
  <1>4. CASE \E v \in Threads : Alone(workload, v)
    BY <1>1, <1>4 DEF Alone
  <1> QED
    BY <1>2, <1>3, <1>4 DEF Workable

(* A thread that rolls back is alone, and there are no snapshots.          *)
LEMMA Rewinder ==
    ASSUME Tame, Called, NEW t \in Threads, workload[t] \cap {"rollback", "reorg"} # {}
    PROVE  ~NeverRolledBack /\ \A u \in Threads : "snapshot" \notin workload[u]
  <1>1. Workable(workload)
    BY DEF Tame, Called
  <1> QED
    BY <1>1 DEF Workable, Alone, NeverRolledBack

(* A thread that reverts is alone. *)
LEMMA Reverter ==
    ASSUME Tame, Called, NEW t \in Threads, "revert" \in workload[t]
    PROVE  /\ OneCaller
           /\ \A u \in Threads \ {t} : workload[u] = {} /\ pc[u] = "idle"
           /\ "revert_stale" \notin workload[t]
  <1>1. Workable(workload)
    BY DEF Tame, Called
  <1>2. Alone(workload, t) /\ "revert_stale" \notin workload[t]
    BY <1>1 DEF Workable, Alone
  <1> QED
    BY <1>2 DEF Alone, OneCaller, Called

\* Of callers, if one alone.
LEMMA Lone ==
    ASSUME Called, OneCaller, NEW t \in Threads, workload[t] # {}
    PROVE  \A u \in Threads \ {t} : pc[u] = "idle"
  BY DEF Called, OneCaller

\* A thread goes on, or calls.
LEMMA GotoCalled ==
    ASSUME Called, NEW t \in Threads, NEW place, NEW locals \in CallType,
           Goto(t, place, locals), workload' = workload,
           place \in {"idle"} \cup MinePlaces \cup RewindPlaces \cup SnapshotPlaces,
           workload[t] # {},
           place \in RewindPlaces \/ locals.left > 0 => workload[t] \cap {"rollback", "reorg"} # {},
           place = "snapshot" => "snapshot" \in workload[t],
           place = "revert" => "revert" \in workload[t],
           place \in MinePlaces => mining' = t,
           \A u \in Threads \ {t} : pc[u] \in MinePlaces => mining' = mining
    PROVE  Called'
  <1>1. /\ pc' = [pc EXCEPT ![t] = place]
        /\ call' = [call EXCEPT ![t] = locals]
    BY DEF Goto
  <1>2. /\ pc' \in [Threads -> {"idle"} \cup MinePlaces \cup RewindPlaces \cup SnapshotPlaces]
        /\ call' \in [Threads -> CallType]
        /\ pc'[t] = place
        /\ call'[t] = locals
        /\ \A u \in Threads \ {t} : pc'[u] = pc[u] /\ call'[u] = call[u]
    BY <1>1 DEF Called
  <1>3. ASSUME NEW u \in Threads
        PROVE  /\ pc'[u] # "idle" => workload[u] # {}
               /\ pc'[u] \in RewindPlaces \/ call'[u].left > 0 =>
                     workload[u] \cap {"rollback", "reorg"} # {}
               /\ pc'[u] = "snapshot" => "snapshot" \in workload[u]
               /\ pc'[u] = "revert" => "revert" \in workload[u]
               /\ pc'[u] \in MinePlaces => mining' = u
    <2>1. CASE u = t
      BY <1>2, <2>1
    <2>2. CASE u # t
      BY <1>2, <2>2 DEF Called
    <2> QED
      BY <2>1, <2>2
  <1> QED
    BY <1>2, <1>3 DEF Called

LEMMA GoneOn ==
    ASSUME Called, NEW t \in Threads, NEW place, pc' = [pc EXCEPT ![t] = place], call' = call
    PROVE  Goto(t, place, call[t]) /\ call[t] \in CallType
  BY DEF Called, Goto

\* What is left to show of the thread that made the step.
LEMMA PhasesStep ==
    ASSUME Called, NEW t \in Threads, \A u \in Threads \ {t} : Aside(u),
           NEW place, pc' = [pc EXCEPT ![t] = place], place # "snapshot",
           place = "idle" => Settled', place # "idle" => Phase(t)'
    PROVE  Phases'
  <1>1. /\ pc'[t] = place
        /\ \A u \in Threads \ {t} : Aside(u)'
    BY DEF Called, Aside
  <1>2. CASE place = "idle"
    <2>1. \A u \in Threads : Aside(u)'
      BY <1>1, <1>2 DEF Aside
    <2>2. \A u \in Threads : Phase(u)'
      BY <2>1 DEF Phase, Aside
    <2> QED
      BY <1>2, <2>2 DEF Phases
  <1>3. CASE place # "idle"
    <2>1. ~Aside(t)'
      BY <1>1, <1>3 DEF Aside
    <2>2. \A u \in Threads : (\A v \in Threads \ {u} : Aside(v)') => u = t
      BY <2>1
    <2> QED
      BY <1>3, <2>1, <2>2 DEF Phases
  <1> QED
    BY <1>2, <1>3

\* The thread that makes the step.
LEMMA PhaseNow ==
    ASSUME Phases, Called, NEW t \in Threads, \A u \in Threads \ {t} : Aside(u)
    PROVE  Phase(t) /\ (pc[t] = "idle" => Settled)
  BY DEF Phases, Aside

\* The turn of a thread.
LEMMA Turn ==
    ASSUME Tame, KInv, NEW t \in Threads, Working(t)
    PROVE  /\ \A u \in Threads \ {t} : Aside(u)
           /\ Phase(t)
           /\ pc[t] = "idle" => Settled
  BY Solo, PhaseNow DEF KInv

-----------------------------------------------------------------------------
(* The locals of a call                                                    *)

LEMMA LocalsType ==
    ASSUME NEW number \in Nat, NEW block_number \in Nat, NEW hash \in Nat,
           NEW txs \in SUBSET Txs, NEW block \in BlockRecord, NEW left \in Nat, NEW c,
           c = Locals(number, block_number, hash, txs, block, left)
    PROVE  /\ c \in CallType
           /\ c.number = number
           /\ c.env = block_number
           /\ c.hash = hash
           /\ c.txs = txs
           /\ c.block = block
           /\ c.left = left
           /\ c.id = 0
  BY DEF Locals, CallType, BlockRecord

LEMMA NoCallType ==
    /\ NoBlock \in BlockRecord
    /\ NoCall \in CallType
    /\ NoCall.left = 0
    /\ \A n \in Nat : [NoCall EXCEPT !.left = n] \in CallType /\ [NoCall EXCEPT !.left = n].left = n
    /\ \A i \in Nat : /\ [NoCall EXCEPT !.id = i] \in CallType
                      /\ [NoCall EXCEPT !.id = i].left = 0
                      /\ [NoCall EXCEPT !.id = i].id = i
  <1>1. NoBlock \in BlockRecord
    BY DEF NoBlock, Block, BlockRecord
  <1>2. NoCall \in CallType /\ NoCall.left = 0
    BY <1>1, LocalsType DEF NoCall
  <1> QED
    BY <1>1, <1>2 DEF CallType

-----------------------------------------------------------------------------
(* Steps that leave the chain alone                                        *)

LEMMA SameChain ==
    ASSUME UNCHANGED storage
    PROVE  \A n : BlockAt(n)' = BlockAt(n) /\ Upto(n)' = Upto(n)
  BY DEF storage, BlockAt, Upto

LEMMA SameLinked ==
    ASSUME Linked, UNCHANGED storage, mined' \in Nat, mined' >= mined
    PROVE  Linked'
  <1>1. \A n : BlockAt(n)' = BlockAt(n)
    BY SameChain
  <1>2. \A n \in 0 .. best_number : hashes[n] \in 0 .. mined'
    BY DEF Linked
  <1>3. UNCHANGED <<blocks, hashes, best_hash, best_number>>
    BY DEF storage
  <1>4. /\ best_number' \in Nat
        /\ DOMAIN hashes' = 0 .. best_number'
        /\ best_hash' = hashes'[best_number']
        /\ DOMAIN blocks' = {hashes'[n] : n \in DOMAIN hashes'}
    BY <1>3 DEF Linked
  <1> QED
    BY <1>1, <1>2, <1>3, <1>4 DEF Linked

LEMMA SameHistory ==
    ASSUME Linked, History, UNCHANGED storage, UNCHANGED states, mined' \in Nat, mined' >= mined
    PROVE  History'
  <1>1. \A n : Upto(n)' = Upto(n)
    BY SameChain
  <1>2. DOMAIN states \subseteq 0 .. mined'
    BY DEF History, Linked
  <1> QED
    BY <1>1, <1>2 DEF History, storage

LEMMA SameListed ==
    ASSUME Listed, UNCHANGED storage, UNCHANGED workload
    PROVE  Listed'
  <1>1. \A n : BlockAt(n)' = BlockAt(n)
    BY SameChain
  <1> QED
    BY <1>1 DEF Listed, storage, NeverRolledBack

LEMMA SameTaken ==
    ASSUME UNCHANGED storage, workload' = workload, NEW number, NEW hash, NEW accounts, NEW more,
           Taken(number, hash, accounts), accounts \subseteq more, OneCaller => more = accounts
    PROVE  Taken(number, hash, more)'
  <1>1. Upto(number)' = Upto(number)
    BY SameChain
  <1>2. UNCHANGED <<best_number, hashes>> /\ OneCaller' = OneCaller
    BY DEF storage, OneCaller
  <1> QED
    BY <1>1, <1>2 DEF Taken

\* A thread that takes a snapshot while the database grows is not the only caller.
LEMMA SameSnapshots ==
    ASSUME Snapshots, UNCHANGED storage, UNCHANGED snapshots, workload' = workload,
           db.accounts \subseteq db'.accounts,
           \A u \in Threads : /\ pc[u] = "revert" => pc'[u] = "revert" /\ call'[u] = call[u]
                              /\ pc'[u] = "snapshot" => /\ pc[u] = "snapshot"
                                                        /\ call'[u] = call[u]
                                                        /\ OneCaller => db'.accounts = db.accounts
    PROVE  Snapshots'
  <1>1. /\ UNCHANGED <<state_snapshots, active_state_snapshots, snapshot_id, best_number>>
        /\ OneCaller' = OneCaller
    BY DEF snapshots, storage, OneCaller
  <1>2. Live' \subseteq Live
    BY <1>1 DEF Live
  <1>3. ASSUME NEW i \in Live'
        PROVE  Taken(active_state_snapshots[i].number, active_state_snapshots[i].hash,
                     state_snapshots[i].accounts)'
    <2>1. PICK at, accounts : at = active_state_snapshots[i] /\ accounts = state_snapshots[i].accounts
      OBVIOUS
    <2>2. Taken(at.number, at.hash, accounts)
      BY <1>2, <2>1 DEF Snapshots
    <2>3. Taken(at.number, at.hash, accounts)'
      BY <2>2, SameTaken
    <2> QED
      BY <1>1, <2>1, <2>3
  <1>4. ASSUME NEW u \in Threads, pc'[u] = "snapshot"
        PROVE  /\ Taken(call[u].number, call[u].hash, db.accounts)'
               /\ OneCaller' => call'[u].number = best_number'
    <2>1. PICK c, more : c = call[u] /\ more = db'.accounts
      OBVIOUS
    <2>2. pc[u] = "snapshot" /\ call'[u] = c /\ (OneCaller => more = db.accounts)
      BY <1>4, <2>1
    <2>3. Taken(c.number, c.hash, db.accounts) /\ (OneCaller => c.number = best_number)
      BY <2>1, <2>2 DEF Snapshots
    <2>4. Taken(c.number, c.hash, more)'
      BY <2>1, <2>2, <2>3, SameTaken
    <2> QED
      BY <1>1, <2>1, <2>2, <2>3, <2>4
  <1>5. Upto(best_number)' = Upto(best_number)
    BY <1>1 DEF Upto, BlockAt, storage
  <1>6. (\E u \in Threads : "snapshot" \in workload[u]) => Upto(best_number)' \subseteq db'.accounts
    BY <1>5 DEF Snapshots
  <1>7. /\ snapshot_id \in Nat
        /\ (\A u \in Threads : "snapshot" \notin workload[u]) => snapshot_id = 0
        /\ DOMAIN state_snapshots \subseteq 0 .. snapshot_id - 1
        /\ Live' \subseteq DOMAIN active_state_snapshots
        /\ OneCaller =>
              \A i, j \in Live' :
                  i < j => active_state_snapshots[i].number <= active_state_snapshots[j].number
    BY <1>2 DEF Snapshots
  <1> QED
    BY <1>1, <1>3, <1>4, <1>6, <1>7 DEF Snapshots

\* Where nobody takes snapshots there are none.
LEMMA NoSnapshots ==
    ASSUME Snapshots, UNCHANGED snapshots, workload' = workload, Called',
           \A u \in Threads : "snapshot" \notin workload[u]
    PROVE  Snapshots'
  <1>1. /\ UNCHANGED <<state_snapshots, active_state_snapshots, snapshot_id>>
    BY DEF snapshots
  <1>2. snapshot_id = 0 /\ DOMAIN state_snapshots \subseteq 0 .. snapshot_id - 1
    BY DEF Snapshots
  <1>3. DOMAIN state_snapshots = {}
    <2>1. 0 .. 0 - 1 = {}
      OBVIOUS
    <2> QED
      BY <1>2, <2>1
  <1>4. Live' = {}
    BY <1>1, <1>3 DEF Live
  <1>5. \A u \in Threads : pc'[u] # "snapshot"
    BY DEF Called
  <1> QED
    BY <1>1, <1>2, <1>4, <1>5 DEF Snapshots

LEMMA SameSettled ==
    ASSUME UNCHANGED storage, UNCHANGED head, UNCHANGED db
    PROVE  Settled' = Settled
  <1>1. \A n : BlockAt(n)' = BlockAt(n) /\ Upto(n)' = Upto(n)
    BY SameChain
  <1> QED
    BY <1>1 DEF Settled, DbAt, ClockRight, storage, head

\* Of a step that leaves the chain and the historic states alone, the
\* snapshots, the callers and their phase are left to show.
LEMMA AsideKInv ==
    ASSUME KInv, UNCHANGED storage, UNCHANGED states, UNCHANGED workload,
           mined' \in Nat, mined' >= mined,
           Snapshots', Called', Phases'
    PROVE  KInv'
  BY SameLinked, SameHistory, SameListed DEF KInv

\* A thread that mines leaves the snapshots alone, also those that others are
\* taking.
LEMMA MineAside ==
    ASSUME Tame, Called, Snapshots, NEW t \in Threads, workload[t] # {},
           \A u \in Threads \ {t} : Aside(u), pc[t] # "revert", NEW place, NEW locals,
           Goto(t, place, locals), place # "snapshot", db.accounts \subseteq db'.accounts,
           UNCHANGED storage, UNCHANGED snapshots, workload' = workload
    PROVE  Snapshots'
  <1>1. /\ pc'[t] = place
        /\ \A u \in Threads \ {t} : pc'[u] = pc[u] /\ call'[u] = call[u]
    BY DEF Goto, Called
  <1>2. \A u \in Threads : pc[u] # "revert"
    BY DEF Aside
  <1>3. ASSUME NEW u \in Threads, pc'[u] = "snapshot"
        PROVE  pc[u] = "snapshot" /\ call'[u] = call[u] /\ ~OneCaller
    <2>1. u # t /\ pc[u] = "snapshot" /\ call'[u] = call[u]
      BY <1>1, <1>3
    <2> QED
      BY <2>1, Lone
  <1> QED
    BY <1>2, <1>3, SameSnapshots

-----------------------------------------------------------------------------
(* Mining                                                                  *)

LEMMA MineStartKInv ==
    ASSUME Tame, KInv, NEW t \in Threads, NEW txs \in SUBSET Txs, MineStart(t, txs), Working(t),
           workload' = workload
    PROVE  KInv'
  <1>1. Called /\ Linked /\ mined \in Nat
    BY DEF KInv, Linked
  <1>2. \A u \in Threads \ {t} : Aside(u)
    BY Turn
  <1>3. Phase(t) /\ (pc[t] = "idle" => Settled)
    BY Turn
  <1>4. Settled /\ best_number \in Nat /\ best_hash \in Nat /\ env = best_number
    BY <1>1, <1>3 DEF MineStart, Phase, Settled, Linked
  <1>5. PICK c \in CallType : c = call[t]
    BY <1>1 DEF Called
  <1>6. PICK locals : locals = Locals(NextNumber(best_number), NextNumber(env), best_hash, txs,
                                     c.block, c.left)
    OBVIOUS
  <1>7. c.block \in BlockRecord /\ c.left \in Nat /\ NextNumber(env) = best_number + 1
        /\ NextNumber(best_number) = best_number + 1
    BY <1>4 DEF CallType, NextNumber
  <1>8. Goto(t, "state", locals)
    BY <1>5, <1>6 DEF MineStart
  <1>9. /\ locals \in CallType
         /\ locals.number = best_number + 1
         /\ locals.env = best_number + 1
         /\ locals.hash = best_hash
         /\ locals.left = c.left
    BY <1>4, <1>6, <1>7, LocalsType, SMTT(30)
  <1>10. Called'
    <2>1. mining' = t /\ workload[t] # {}
      BY <1>1 DEF MineStart, Lock, Called
    <2>2. locals.left > 0 => workload[t] \cap {"rollback", "reorg"} # {}
      BY <1>1, <1>5, <1>9 DEF Called
    <2> QED
      BY <1>1, <1>2, <1>9, <1>8, <2>1, <2>2, GotoCalled DEF MinePlaces, RewindPlaces, Aside
  <1>11. pc' = [pc EXCEPT ![t] = "state"] /\ call'[t] = locals /\ pc'[t] = "state"
    BY <1>1, <1>8 DEF Goto, Called
  <1>12. Phase(t)'
    <2>1. Settled' /\ best_number' = best_number /\ best_hash' = best_hash
      BY <1>4, SameSettled DEF MineStart, storage
    <2> QED
      BY <1>9, <1>11, <2>1 DEF Phase
  <1>13. Phases'
    BY <1>1, <1>2, <1>11, <1>12, PhasesStep
  <1>14. Snapshots'
    <2>1. workload[t] # {} /\ pc[t] # "revert"
      BY <1>1 DEF MineStart, Called
    <2> QED
      BY <1>1, <1>2, <1>8, <2>1, MineAside DEF MineStart, KInv
  <1> QED
    BY <1>1, <1>10, <1>13, <1>14, AsideKInv DEF MineStart

LEMMA MineStateKInv ==
    ASSUME Tame, KInv, NEW t \in Threads, MineState(t), Working(t), workload' = workload
    PROVE  KInv'
  <1>1. Called /\ Linked /\ History /\ Listed /\ Snapshots
    BY DEF KInv
  <1>2. (\A u \in Threads \ {t} : Aside(u)) /\ Phase(t)
    BY Turn
  <1>3. /\ pc[t] = "state"
        /\ pc' = [pc EXCEPT ![t] = "execute"]
        /\ states' = With(states, call[t].hash, db)
        /\ UNCHANGED storage
        /\ UNCHANGED snapshots
        /\ UNCHANGED head
        /\ UNCHANGED <<db, mining, mined, call>>
    BY DEF MineState, StateKey
  <1>4. /\ Settled
        /\ call[t].number = best_number + 1
        /\ call[t].env = best_number + 1
        /\ call[t].hash = best_hash
    BY <1>2, <1>3 DEF Phase
  <1>5. Called'
    <2>1. Goto(t, "execute", call[t]) /\ call[t] \in CallType
      BY <1>1, <1>3, GoneOn
    <2> QED
      BY <1>1, <1>3, <2>1, GotoCalled DEF MinePlaces, RewindPlaces, Called
  <1>6. Linked' /\ Listed'
    BY <1>1, <1>3, SameLinked, SameListed DEF Linked
  <1>7. Snapshots'
    <2>1. Goto(t, "execute", call[t])
      BY <1>1, <1>3, GoneOn
    <2>2. workload[t] # {} /\ db.accounts \subseteq db'.accounts
      BY <1>1, <1>3 DEF Called
    <2> QED
      BY <1>1, <1>2, <1>3, <2>1, <2>2, MineAside
  <1>8. History'
    <2>1. \A n : Upto(n)' = Upto(n)
      BY <1>3, SameChain
    <2>2. /\ DOMAIN states' = DOMAIN states \cup {best_hash}
          /\ states'[best_hash] = db
          /\ \A h \in DOMAIN states : h # best_hash => states'[h] = states[h]
      BY <1>3, <1>4 DEF With
    <2>3. /\ best_hash \in 0 .. mined
          /\ \A n \in 0 .. best_number : hashes[n] = best_hash => n = best_number
      <3>1. best_number \in 0 .. best_number /\ best_hash = hashes[best_number]
        BY <1>1 DEF Linked
      <3>2. \A n \in 0 .. best_number : hashes[n] \in 0 .. mined /\ blocks[hashes[n]].number = n
        BY <1>1 DEF Linked, BlockAt
      <3> QED
        BY <3>1, <3>2
    <2>4. db.accounts = Upto(best_number)
      BY <1>4 DEF Settled, DbAt
    <2>5. ASSUME NEW n \in 0 .. best_number, hashes[n] \in DOMAIN states'
          PROVE  states'[hashes[n]].accounts = Upto(n)
      <3>1. CASE hashes[n] = best_hash
        BY <2>2, <2>3, <2>4, <3>1
      <3>2. CASE hashes[n] # best_hash
        BY <1>1, <2>2, <2>5, <3>2 DEF History
      <3> QED
        BY <3>1, <3>2
    <2>6. DOMAIN states' \subseteq 0 .. mined
      BY <1>1, <2>2, <2>3 DEF History
    <2> QED
      BY <1>3, <2>1, <2>5, <2>6 DEF History, storage
  <1>9. Phases'
    <2>1. Settled'
      BY <1>3, <1>4, SameSettled
    <2>2. pc'[t] = "execute" /\ UNCHANGED <<best_number, best_hash>>
      BY <1>1, <1>3 DEF Called, storage
    <2>3. Phase(t)'
      BY <1>3, <1>4, <2>1, <2>2 DEF Phase
    <2> QED
      BY <1>1, <1>2, <1>3, <2>3, PhasesStep
  <1> QED
    BY <1>5, <1>6, <1>7, <1>8, <1>9 DEF KInv

LEMMA MineExecuteKInv ==
    ASSUME Tame, KInv, NEW t \in Threads, MineExecute(t), Working(t), workload' = workload
    PROVE  KInv'
  <1>1. Called /\ Linked /\ mined \in Nat
    BY DEF KInv, Linked
  <1>2. (\A u \in Threads \ {t} : Aside(u)) /\ Phase(t)
    BY Turn
  <1>3. PICK c \in CallType : c = call[t]
    BY <1>1 DEF Called
  <1>4. /\ pc[t] = "execute"
        /\ Settled
        /\ c.number = best_number + 1
        /\ c.env = best_number + 1
        /\ c.hash = best_hash
    BY <1>2, <1>3 DEF Phase, MineExecute
  <1>5. /\ UNCHANGED storage
        /\ UNCHANGED snapshots
        /\ UNCHANGED <<states, env, mining>>
        /\ mined' = mined + 1
    BY DEF MineExecute
  <1>6. PICK timestamp, included, block :
          /\ timestamp \in last_timestamp .. last_timestamp + 1
          /\ included = c.txs \ db.accounts
          /\ block = Block(c.env, c.hash, timestamp, included)
          /\ last_timestamp' = timestamp
          /\ db'.accounts = db.accounts \cup included
          /\ Goto(t, "store", Locals(c.number, c.env, mined + 1, c.txs, block, c.left))
    BY <1>3 DEF MineExecute
  <1>7. /\ db.accounts = Upto(best_number)
        /\ env = best_number
        /\ last_timestamp = BlockAt(best_number).timestamp
        /\ best_number \in Nat
        /\ last_timestamp \in Nat
    BY <1>1, <1>4 DEF Settled, DbAt, ClockRight, Linked, BlockRecord
  <1>8. /\ c.number \in Nat /\ c.env \in Nat /\ c.hash \in Nat
        /\ c.txs \in SUBSET Txs /\ c.left \in Nat
    BY DEF CallType
  <1>9. /\ block \in BlockRecord
        /\ block.number = best_number + 1
        /\ block.parent = best_hash
        /\ block.timestamp = timestamp
        /\ block.root = included
        /\ block.transactions = included
    BY <1>4, <1>6, <1>7, <1>8 DEF Block, BlockRecord
  <1>10. PICK locals : locals = Locals(c.number, c.env, mined + 1, c.txs, block, c.left)
    OBVIOUS
  <1>11. /\ locals \in CallType
         /\ locals.number = c.number
         /\ locals.env = c.env
         /\ locals.hash = mined + 1
         /\ locals.block = block
         /\ locals.left = c.left
    BY <1>1, <1>8, <1>9, <1>10, LocalsType
  <1>12. Goto(t, "store", locals)
    BY <1>6, <1>10
  <1>13. Called'
    <2>1. locals.left > 0 => workload[t] \cap {"rollback", "reorg"} # {}
      BY <1>1, <1>3, <1>11 DEF Called
    <2>2. mining' = t /\ workload[t] # {}
      BY <1>1, <1>4, <1>5 DEF Called, MinePlaces
    <2> QED
      BY <1>1, <1>2, <1>11, <1>12, <2>1, <2>2, GotoCalled DEF MinePlaces, RewindPlaces, Aside
  <1>14. pc' = [pc EXCEPT ![t] = "store"] /\ call'[t] = locals /\ pc'[t] = "store"
    BY <1>1, <1>12 DEF Goto, Called
  <1>15. Phase(t)'
    <2>1. \A n : BlockAt(n)' = BlockAt(n) /\ Upto(n)' = Upto(n)
      BY <1>5, SameChain
    <2>2. UNCHANGED <<blocks, best_number, best_hash>>
      BY <1>5 DEF storage
    <2>3. mined + 1 \notin DOMAIN blocks \cup DOMAIN states
      BY <1>1 DEF KInv, Linked, History
    <2>4. included \cap Upto(best_number) = {} /\ db'.accounts = Upto(best_number) \cup included
      BY <1>6, <1>7
    <2>5. timestamp >= BlockAt(best_number).timestamp
      BY <1>6, <1>7
    <2> QED
      BY <1>4, <1>5, <1>6, <1>7, <1>9, <1>11, <1>14, <2>1, <2>2, <2>3, <2>4, <2>5 DEF Phase
  <1>16. Phases'
    BY <1>1, <1>2, <1>14, <1>15, PhasesStep
  <1>17. Snapshots'
    <2>1. workload[t] # {} /\ db.accounts \subseteq db'.accounts
      BY <1>1, <1>4, <1>6 DEF Called
    <2> QED
      BY <1>1, <1>2, <1>4, <1>5, <1>12, <2>1, MineAside DEF KInv
  <1> QED
    BY <1>1, <1>5, <1>13, <1>16, <1>17, AsideKInv

LEMMA MineFinishKInv ==
    ASSUME Tame, KInv, NEW t \in Threads, MineFinish(t), Working(t), workload' = workload
    PROVE  KInv'
  <1>1. Called /\ Linked /\ mined \in Nat
    BY DEF KInv, Linked
  <1>2. (\A u \in Threads \ {t} : Aside(u)) /\ Phase(t)
    BY Turn
  <1>3. PICK c \in CallType : c = call[t]
    BY <1>1 DEF Called
  <1>4. /\ pc[t] = "env"
        /\ env' = c.env
        /\ mining' = NoThread
        /\ UNCHANGED storage
        /\ UNCHANGED snapshots
        /\ UNCHANGED <<db, states, last_timestamp, mined>>
        /\ IF c.left > 1 THEN Goto(t, "reorg", [NoCall EXCEPT !.left = c.left - 1])
           ELSE Goto(t, "idle", NoCall)
    BY <1>3 DEF MineFinish
  <1>5. Settled'
    <2>1. DbAt(best_number) /\ ClockRight /\ c.env = best_number
      BY <1>2, <1>3, <1>4 DEF Phase
    <2>2. \A n : BlockAt(n)' = BlockAt(n) /\ Upto(n)' = Upto(n)
      BY <1>4, SameChain
    <2> QED
      BY <1>4, <2>1, <2>2 DEF Settled, DbAt, ClockRight, storage
  <1>6. c.left \in Nat /\ (c.left > 0 => workload[t] \cap {"rollback", "reorg"} # {}) /\ workload[t] # {}
    BY <1>1, <1>3, <1>4 DEF Called, CallType
  <1>7. Snapshots'
    <2>1. PICK place, locals : Goto(t, place, locals) /\ place # "snapshot"
      BY <1>4
    <2> QED
      BY <1>1, <1>2, <1>4, <1>6, <2>1, MineAside DEF KInv
  <1>8. CASE c.left > 1
    <2>1. PICK locals : locals = [NoCall EXCEPT !.left = c.left - 1]
      OBVIOUS
    <2>2. Goto(t, "reorg", locals) /\ locals \in CallType
      BY <1>4, <1>6, <1>8, <2>1, NoCallType
    <2>3. Called'
      BY <1>1, <1>2, <1>6, <1>8, <2>2, GotoCalled DEF RewindPlaces, MinePlaces, Aside
    <2>4. pc' = [pc EXCEPT ![t] = "reorg"] /\ pc'[t] = "reorg"
      BY <1>1, <2>2 DEF Goto, Called
    <2>5. Phases'
      BY <1>1, <1>2, <1>5, <2>4, PhasesStep DEF Phase
    <2> QED
      BY <1>1, <1>4, <1>7, <2>3, <2>5, AsideKInv
  <1>9. CASE ~(c.left > 1)
    <2>1. Goto(t, "idle", NoCall)
      BY <1>4, <1>9
    <2>2. Called'
      BY <1>1, <1>2, <1>6, <2>1, GotoCalled, NoCallType DEF RewindPlaces, MinePlaces, Aside
    <2>3. pc' = [pc EXCEPT ![t] = "idle"]
      BY <2>1 DEF Goto
    <2>4. Phases'
      BY <1>1, <1>2, <1>5, <2>3, PhasesStep
    <2> QED
      BY <1>1, <1>4, <1>7, <2>2, <2>4, AsideKInv
  <1> QED
    BY <1>8, <1>9

\* A cleared block keeps its header.
SameHeader(b, c) ==
    /\ b.number = c.number
    /\ b.parent = c.parent
    /\ b.timestamp = c.timestamp
    /\ b.root = c.root

LEMMA ClearBodyFacts ==
    ASSUME NEW bs, \A h \in DOMAIN bs : bs[h] \in BlockRecord, NEW hash
    PROVE  /\ DOMAIN ClearBody(bs, hash) = DOMAIN bs
           /\ \A h \in DOMAIN bs :
                 /\ ClearBody(bs, hash)[h] \in BlockRecord
                 /\ SameHeader(ClearBody(bs, hash)[h], bs[h])
                 /\ ClearBody(bs, hash)[h].transactions =
                      IF h = hash THEN {} ELSE bs[h].transactions
  <1>1. CASE hash \in DOMAIN bs
    <2>1. PICK b : b = [bs[hash] EXCEPT !.transactions = {}]
      OBVIOUS
    <2>2. bs[hash] \in BlockRecord
      BY <1>1
    <2>3. b \in BlockRecord /\ SameHeader(b, bs[hash]) /\ b.transactions = {}
      BY <2>1, <2>2 DEF BlockRecord, SameHeader
    <2>4. ClearBody(bs, hash) = [bs EXCEPT ![hash] = b]
      BY <1>1, <2>1 DEF ClearBody
    <2>5. /\ DOMAIN ClearBody(bs, hash) = DOMAIN bs
          /\ ClearBody(bs, hash)[hash] = b
          /\ \A h \in DOMAIN bs \ {hash} : ClearBody(bs, hash)[h] = bs[h]
      BY <1>1, <2>4
    <2> QED
      BY <2>3, <2>5 DEF SameHeader
  <1>2. CASE hash \notin DOMAIN bs
    BY <1>2 DEF ClearBody, SameHeader
  <1> QED
    BY <1>1, <1>2

(* A block on top of the best one: its hash is new, and so are its         *)
(* transactions.  Bodies of blocks may be cleared.                         *)
LEMMA AppendLinked ==
    ASSUME Linked, NEW N \in Nat, N = best_number, NEW b \in BlockRecord,
           mined \notin DOMAIN blocks, mined' = mined,
           best_number' = N + 1, best_hash' = mined,
           DOMAIN hashes' = 0 .. N + 1,
           \A n \in 0 .. N : hashes'[n] = hashes[n],
           hashes'[N + 1] = mined,
           DOMAIN blocks' = DOMAIN blocks \cup {mined},
           \A h \in DOMAIN blocks : /\ blocks'[h] \in BlockRecord
                                    /\ SameHeader(blocks'[h], blocks[h])
                                    /\ blocks'[h].transactions \subseteq blocks[h].transactions,
           blocks'[mined] \in BlockRecord,
           SameHeader(blocks'[mined], b),
           blocks'[mined].transactions \subseteq b.transactions,
           b.number = N + 1, b.parent = best_hash, b.timestamp >= BlockAt(N).timestamp,
           b.transactions \subseteq b.root, b.root \cap Upto(N) = {}
    PROVE  /\ Linked'
           /\ \A n \in 0 .. N : Upto(n)' = Upto(n)
           /\ Upto(N + 1)' = Upto(N) \cup b.root
  <1>1. \A n \in 0 .. N : /\ BlockAt(n)' \in BlockRecord
                          /\ SameHeader(BlockAt(n)', BlockAt(n))
                          /\ BlockAt(n)'.transactions \subseteq BlockAt(n).transactions
    <2>1. \A n \in 0 .. N : hashes[n] \in DOMAIN blocks
      BY DEF Linked
    <2>2. \A n \in 0 .. N : BlockAt(n)' = blocks'[hashes[n]] /\ BlockAt(n) = blocks[hashes[n]]
      BY DEF BlockAt
    <2> QED
      BY <2>1, <2>2
  <1>2. BlockAt(N + 1)' = blocks'[mined]
    BY DEF BlockAt
  <1>3. ASSUME NEW n \in 0 .. N
        PROVE  Upto(n)' = Upto(n)
    <2>1. Upto(n)' = UNION {BlockAt(m)'.root : m \in 0 .. n}
      BY DEF Upto
    <2>2. \A m \in 0 .. n : m \in 0 .. N /\ BlockAt(m)'.root = BlockAt(m).root
      BY <1>1 DEF SameHeader
    <2> QED
      BY <2>1, <2>2 DEF Upto
  <1>4. Upto(N + 1)' = Upto(N) \cup b.root
    <2>1. Upto(N + 1)' = UNION {BlockAt(m)'.root : m \in 0 .. N + 1}
      BY DEF Upto
    <2>2. \A m \in 0 .. N : BlockAt(m)'.root = BlockAt(m).root
      BY <1>1 DEF SameHeader
    <2>3. BlockAt(N + 1)'.root = b.root
      BY <1>2 DEF SameHeader
    <2>4. 0 .. N + 1 = (0 .. N) \cup {N + 1}
      OBVIOUS
    <2> QED
      BY <2>1, <2>2, <2>3, <2>4 DEF Upto
  <1>5. \A n \in 0 .. N + 1 : n \in 0 .. N \/ n = N + 1
    OBVIOUS
  <1>6. ASSUME NEW n \in 0 .. N + 1
        PROVE  /\ hashes'[n] \in 0 .. mined
               /\ BlockAt(n)' \in BlockRecord
               /\ BlockAt(n)'.number = n
               /\ BlockAt(n)'.transactions \subseteq BlockAt(n)'.root
    <2>1. CASE n \in 0 .. N
      <3>1. /\ hashes[n] \in 0 .. mined
            /\ BlockAt(n).number = n
            /\ BlockAt(n).transactions \subseteq BlockAt(n).root
        BY <2>1 DEF Linked
      <3>2. /\ BlockAt(n)' \in BlockRecord
            /\ BlockAt(n)'.number = BlockAt(n).number
            /\ BlockAt(n)'.root = BlockAt(n).root
            /\ BlockAt(n)'.transactions \subseteq BlockAt(n).transactions
        BY <1>1, <2>1 DEF SameHeader
      <3>3. hashes'[n] = hashes[n]
        BY <2>1
      <3> QED
        BY <3>1, <3>2, <3>3 DEF Linked
    <2>2. CASE n = N + 1
      BY <1>2, <2>2 DEF Linked, SameHeader
    <2> QED
      BY <1>5, <2>1, <2>2
  <1>7. ASSUME NEW n \in 1 .. N + 1
        PROVE  /\ BlockAt(n)'.parent = hashes'[n - 1]
               /\ BlockAt(n)'.timestamp >= BlockAt(n - 1)'.timestamp
    <2>1. CASE n = N + 1
      <3>1. n - 1 = N /\ N \in 0 .. N
        BY <2>1
      <3>2. /\ BlockAt(n)'.parent = b.parent
            /\ BlockAt(n)'.timestamp = b.timestamp
        BY <1>2, <2>1 DEF SameHeader
      <3>3. BlockAt(n - 1)'.timestamp = BlockAt(N).timestamp
        BY <1>1, <3>1 DEF SameHeader
      <3>4. hashes'[n - 1] = best_hash
        BY <3>1 DEF Linked
      <3> QED
        BY <3>2, <3>3, <3>4
    <2>2. CASE n # N + 1
      <3>1. n \in 1 .. N /\ n \in 0 .. N /\ n - 1 \in 0 .. N
        BY <2>2
      <3>2. /\ SameHeader(BlockAt(n)', BlockAt(n))
            /\ SameHeader(BlockAt(n - 1)', BlockAt(n - 1))
        BY <1>1, <3>1
      <3> QED
        BY <3>1, <3>2 DEF Linked, SameHeader
    <2> QED
      BY <2>1, <2>2
  <1>8. ASSUME NEW m \in 0 .. N + 1, NEW n \in 0 .. N + 1, m # n
        PROVE  BlockAt(m)'.root \cap BlockAt(n)'.root = {}
    <2>1. \A k \in 0 .. N : BlockAt(k)'.root = BlockAt(k).root /\ BlockAt(k).root \subseteq Upto(N)
      BY <1>1 DEF SameHeader, Upto
    <2>2. BlockAt(N + 1)'.root = b.root
      BY <1>2 DEF SameHeader
    <2>3. CASE m \in 0 .. N /\ n \in 0 .. N
      BY <1>8, <2>1, <2>3 DEF Linked
    <2>4. CASE m = N + 1 \/ n = N + 1
      BY <1>5, <1>8, <2>1, <2>2, <2>4
    <2> QED
      BY <1>5, <2>3, <2>4
  <1>9. DOMAIN blocks' = {hashes'[n] : n \in DOMAIN hashes'}
    <2>1. \A h : h \in DOMAIN blocks <=> \E n \in 0 .. N : h = hashes[n]
      <3>1. DOMAIN blocks = {hashes[n] : n \in DOMAIN hashes} /\ DOMAIN hashes = 0 .. N
        BY DEF Linked
      <3> QED
        BY <3>1, Zenon
    <2>2. \A h : h \in DOMAIN blocks' <=> \E n \in 0 .. N + 1 : h = hashes'[n]
      BY <1>5, <2>1
    <2> QED
      BY <2>2
  <1>10. best_number' \in Nat /\ mined' \in Nat /\ best_hash' = hashes'[best_number']
    BY DEF Linked
  <1>11. Linked'
    BY <1>6, <1>7, <1>8, <1>9, <1>10 DEF Linked
  <1> QED
    BY <1>3, <1>4, <1>11

\* Every transaction is in one body.
LEMMA BodiesApart ==
    ASSUME Linked, NEW g \in DOMAIN blocks, NEW h \in DOMAIN blocks, g # h
    PROVE  blocks[g].transactions \cap blocks[h].transactions = {}
  <1>1. \A k \in DOMAIN blocks : \E n \in 0 .. best_number : k = hashes[n]
    BY DEF Linked
  <1>2. PICK m \in 0 .. best_number, n \in 0 .. best_number : g = hashes[m] /\ h = hashes[n]
    BY <1>1
  <1>3. /\ BlockAt(m).root \cap BlockAt(n).root = {}
        /\ BlockAt(m).transactions \subseteq BlockAt(m).root
        /\ BlockAt(n).transactions \subseteq BlockAt(n).root
    BY <1>2 DEF Linked
  <1> QED
    BY <1>2, <1>3 DEF BlockAt

\* Listed, by hashes instead of numbers.
LEMMA ListedNow ==
    ASSUME Linked, Listed, NeverRolledBack
    PROVE  /\ \A tx : tx \in DOMAIN transactions <=>
                      \E h \in DOMAIN blocks : tx \in blocks[h].transactions
           /\ \A tx \in DOMAIN transactions : /\ transactions[tx] \in DOMAIN blocks
                                             /\ tx \in blocks[transactions[tx]].transactions
  <1>1. /\ DOMAIN transactions = UNION {BlockAt(n).transactions : n \in 0 .. best_number}
        /\ \A tx \in DOMAIN transactions : /\ transactions[tx] \in DOMAIN blocks
                                          /\ tx \in blocks[transactions[tx]].transactions
    BY DEF Listed
  <1>2. \A h : h \in DOMAIN blocks <=> \E n \in 0 .. best_number : h = hashes[n]
    <2>1. DOMAIN blocks = {hashes[n] : n \in DOMAIN hashes} /\ DOMAIN hashes = 0 .. best_number
      BY DEF Linked
    <2> QED
      BY <2>1, Zenon
  <1>3. \A tx : tx \in DOMAIN transactions <=>
              \E n \in 0 .. best_number : tx \in BlockAt(n).transactions
    BY <1>1
  <1>4. \A n : BlockAt(n) = blocks[hashes[n]]
    BY DEF BlockAt
  <1> QED
    BY <1>1, <1>2, <1>3, <1>4

\* And back.
LEMMA ListedByHash ==
    ASSUME Linked',
           \A tx : tx \in DOMAIN transactions' <=> \E h \in DOMAIN blocks' : tx \in blocks'[h].transactions,
           \A tx \in DOMAIN transactions' : /\ transactions'[tx] \in DOMAIN blocks'
                                            /\ tx \in blocks'[transactions'[tx]].transactions
    PROVE  Listed'
  <1>1. \A h : h \in DOMAIN blocks' <=> \E n \in 0 .. best_number' : h = hashes'[n]
    <2>1. DOMAIN blocks' = {hashes'[n] : n \in DOMAIN hashes'} /\ DOMAIN hashes' = 0 .. best_number'
      BY DEF Linked
    <2> QED
      BY <2>1, Zenon
  <1>2. \A n : BlockAt(n)' = blocks'[hashes'[n]]
    BY DEF BlockAt
  <1>3. ASSUME NEW tx
        PROVE  tx \in DOMAIN transactions' <=>
                 \E n \in 0 .. best_number' : tx \in BlockAt(n)'.transactions
    <2>1. ASSUME tx \in DOMAIN transactions'
          PROVE  \E n \in 0 .. best_number' : tx \in BlockAt(n)'.transactions
      <3>1. PICK h \in DOMAIN blocks' : tx \in blocks'[h].transactions
        BY <2>1
      <3>2. PICK n \in 0 .. best_number' : h = hashes'[n]
        BY <1>1, <3>1
      <3> QED
        BY <1>2, <3>1, <3>2
    <2>2. ASSUME NEW n \in 0 .. best_number', tx \in BlockAt(n)'.transactions
          PROVE  tx \in DOMAIN transactions'
      <3>1. hashes'[n] \in DOMAIN blocks' /\ tx \in blocks'[hashes'[n]].transactions
        BY <1>1, <1>2, <2>2
      <3> QED
        BY <3>1
    <2> QED
      BY <2>1, <2>2
  <1>4. DOMAIN transactions' = UNION {BlockAt(n)'.transactions : n \in 0 .. best_number'}
    BY <1>3
  <1> QED
    BY <1>4 DEF Listed

LEMMA MineStoreKInv ==
    ASSUME Tame, KInv, NEW t \in Threads, MineStore(t), Working(t), workload' = workload
    PROVE  KInv'
  <1>1. Called /\ Linked /\ History /\ Listed /\ Snapshots
    BY DEF KInv
  <1>2. (\A u \in Threads \ {t} : Aside(u)) /\ Phase(t)
    BY Turn
  <1>3. PICK c \in CallType, N \in Nat : c = call[t] /\ N = best_number
    BY <1>1 DEF Called, Linked
  <1>4. /\ pc[t] = "store"
        /\ pc' = [pc EXCEPT ![t] = "env"]
        /\ UNCHANGED <<db, states, mining, mined, call>>
        /\ UNCHANGED snapshots
        /\ UNCHANGED head
    BY DEF MineStore
  <1>5. /\ c.number = N + 1
        /\ c.env = N + 1
        /\ c.hash = mined
        /\ mined \notin DOMAIN blocks \cup DOMAIN states
        /\ c.block.number = N + 1
        /\ c.block.parent = best_hash
        /\ c.block.timestamp = last_timestamp
        /\ last_timestamp >= BlockAt(N).timestamp
        /\ c.block.transactions = c.block.root
        /\ c.block.root \cap Upto(N) = {}
        /\ db.accounts = Upto(N) \cup c.block.root
        /\ c.block \in BlockRecord
    BY <1>2, <1>3, <1>4 DEF Phase, CallType
  <1>6. PICK stored, indexed, known :
          /\ stored = With(blocks, c.hash, c.block)
          /\ indexed = With(hashes, c.number, c.hash)
          /\ known = [tx \in DOMAIN transactions \cup c.block.transactions |->
                        IF tx \in c.block.transactions THEN c.hash ELSE transactions[tx]]
    OBVIOUS
  <1>7. best_number' = c.number /\ best_hash' = c.hash /\ hashes' = indexed
    BY <1>3, <1>6 DEF MineStore
  <1>8. \/ /\ ToClear(c.number) \in DOMAIN indexed
           /\ blocks' = ClearBody(stored, indexed[ToClear(c.number)])
           /\ transactions' = Without(known, BodyOf(stored, indexed[ToClear(c.number)]))
        \/ /\ blocks' = stored
           /\ transactions' = known
    BY <1>3, <1>6 DEF MineStore
  <1>9. PICK old : old = indexed[ToClear(c.number)]
    OBVIOUS
  <1>10. PICK clear \in BOOLEAN :
           /\ clear => ToClear(c.number) \in DOMAIN indexed
           /\ blocks' = IF clear THEN ClearBody(stored, old) ELSE stored
           /\ transactions' = IF clear THEN Without(known, BodyOf(stored, old)) ELSE known
    BY <1>8, <1>9
  <1>11. /\ DOMAIN stored = DOMAIN blocks \cup {mined}
         /\ stored[mined] = c.block
         /\ \A h \in DOMAIN blocks : stored[h] = blocks[h]
    BY <1>5, <1>6, <1>7, <1>9, <1>10 DEF With
  <1>12. \A h \in DOMAIN blocks : blocks[h] \in BlockRecord
    BY <1>1 DEF Linked, BlockAt
  <1>13. \A h \in DOMAIN stored : stored[h] \in BlockRecord
    BY <1>5, <1>11, <1>12
  <1>14. /\ DOMAIN indexed = 0 .. N + 1
         /\ indexed[N + 1] = mined
         /\ \A n \in 0 .. N : indexed[n] = hashes[n]
    <2>1. DOMAIN hashes = 0 .. N
      BY <1>1, <1>3 DEF Linked
    <2> QED
      BY <1>5, <1>6, <1>7, <1>9, <1>10, <2>1 DEF With
  <1>15. /\ DOMAIN blocks' = DOMAIN stored
         /\ \A h \in DOMAIN stored :
               /\ blocks'[h] \in BlockRecord
               /\ SameHeader(blocks'[h], stored[h])
               /\ blocks'[h].transactions = IF clear /\ h = old THEN {} ELSE stored[h].transactions
    <2>1. CASE clear
      BY <1>6, <1>7, <1>9, <1>10, <1>13, <2>1, ClearBodyFacts
    <2>2. CASE ~clear
      BY <1>6, <1>7, <1>9, <1>10, <1>13, <2>2 DEF SameHeader
    <2> QED
      BY <2>1, <2>2
  <1>16. /\ Linked'
         /\ \A n \in 0 .. N : Upto(n)' = Upto(n)
         /\ Upto(N + 1)' = Upto(N) \cup c.block.root
    <2>1. \A h \in DOMAIN blocks : /\ blocks'[h] \in BlockRecord
                                   /\ SameHeader(blocks'[h], blocks[h])
                                   /\ blocks'[h].transactions \subseteq blocks[h].transactions
      BY <1>11, <1>15
    <2>2. /\ blocks'[mined] \in BlockRecord
          /\ SameHeader(blocks'[mined], c.block)
          /\ blocks'[mined].transactions \subseteq c.block.transactions
      BY <1>11, <1>15
    <2>3. best_number' = N + 1 /\ best_hash' = mined /\ mined' = mined /\ hashes' = indexed
      BY <1>4, <1>5, <1>6, <1>7, <1>9, <1>10
    <2>4. c.block.timestamp >= BlockAt(N).timestamp /\ c.block.transactions \subseteq c.block.root
      BY <1>5
    <2> QED
      BY <1>1, <1>3, <1>5, <1>11, <1>14, <1>15, <2>1, <2>2, <2>3, <2>4, AppendLinked
  <1>17. History'
    <2>1. \A n \in 0 .. N : hashes[n] \in DOMAIN states => states[hashes[n]].accounts = Upto(n)
      BY <1>1, <1>3 DEF History
    <2>2. ASSUME NEW n \in 0 .. N + 1, hashes'[n] \in DOMAIN states
          PROVE  states[hashes'[n]].accounts = Upto(n)'
      <3>1. n \in 0 .. N
        BY <1>5, <1>6, <1>7, <1>9, <1>10, <1>14, <2>2
      <3> QED
        BY <1>6, <1>7, <1>9, <1>10, <1>14, <1>16, <2>1, <2>2, <3>1
    <2> QED
      BY <1>1, <1>4, <1>5, <1>6, <1>7, <1>9, <1>10, <2>2 DEF History
  <1>18. Snapshots'
    <2>1. \A n \in 0 .. N : n \in 0 .. N + 1 /\ hashes'[n] = hashes[n] /\ Upto(n)' = Upto(n)
      BY <1>6, <1>7, <1>9, <1>10, <1>14, <1>16
    <2>2. \A u \in Threads : pc[u] # "revert"
      BY <1>2, <1>4 DEF Aside
    <2>3. /\ UNCHANGED <<state_snapshots, snapshot_id, active_state_snapshots>>
          /\ OneCaller' = OneCaller
      BY <1>4 DEF snapshots, OneCaller
    <2>4. best_number' = N + 1
      BY <1>5, <1>6, <1>7, <1>9, <1>10
    <2>5. \A number, hash, accounts :
             Taken(number, hash, accounts) => Taken(number, hash, accounts)'
      BY <1>3, <2>1, <2>3, <2>4 DEF Taken
    <2>6. Live' \subseteq Live
      BY <2>2, <2>3 DEF Live
    <2>7. \A i \in Live' : Taken(active_state_snapshots[i].number, active_state_snapshots[i].hash,
                                 state_snapshots[i].accounts)'
      <3> SUFFICES ASSUME NEW i \in Live'
                   PROVE  Taken(active_state_snapshots[i].number, active_state_snapshots[i].hash,
                                state_snapshots[i].accounts)'
        OBVIOUS
      <3>1. PICK at, accounts :
               at = active_state_snapshots[i] /\ accounts = state_snapshots[i].accounts
        OBVIOUS
      <3>2. Taken(at.number, at.hash, accounts)'
        BY <1>1, <2>5, <2>6, <3>1 DEF Snapshots
      <3> QED
        BY <2>3, <3>1, <3>2
    <2>8. ASSUME NEW u \in Threads, pc'[u] = "snapshot"
          PROVE  /\ Taken(call[u].number, call[u].hash, db.accounts)'
                 /\ OneCaller' => call'[u].number = best_number'
      <3>1. u # t /\ pc[u] = "snapshot" /\ workload[t] # {}
        BY <1>1, <1>4, <2>8 DEF Called
      <3>2. ~OneCaller
        BY <1>1, <3>1, Lone
      <3>3. PICK d, accounts : d = call[u] /\ accounts = db.accounts
        OBVIOUS
      <3>4. Taken(d.number, d.hash, accounts)'
        BY <1>1, <2>5, <3>1, <3>3 DEF Snapshots
      <3> QED
        BY <1>4, <2>3, <3>2, <3>3, <3>4
    <2>9. Upto(best_number)' = db'.accounts
      BY <1>4, <1>5, <1>16, <2>4
    <2>10. /\ snapshot_id \in Nat
           /\ (\A u \in Threads : "snapshot" \notin workload[u]) => snapshot_id = 0
           /\ DOMAIN state_snapshots \subseteq 0 .. snapshot_id - 1
           /\ Live' \subseteq DOMAIN active_state_snapshots
           /\ OneCaller =>
                 \A i, j \in Live' :
                     i < j => active_state_snapshots[i].number <= active_state_snapshots[j].number
      BY <1>1, <2>6 DEF Snapshots
    <2> QED
      BY <2>3, <2>7, <2>8, <2>9, <2>10 DEF Snapshots
  <1>19. Called'
    <2>1. Goto(t, "env", c)
      BY <1>1, <1>3, <1>4, GoneOn
    <2>2. /\ workload[t] # {}
          /\ mining' = t
          /\ c.left > 0 => workload[t] \cap {"rollback", "reorg"} # {}
      BY <1>1, <1>3, <1>4 DEF Called, MinePlaces
    <2> QED
      BY <1>1, <1>2, <2>1, <2>2, GotoCalled DEF MinePlaces, RewindPlaces, Aside
  <1>20. Phases'
    <2>1. pc'[t] = "env" /\ call'[t] = c /\ best_number' = N + 1
      BY <1>1, <1>3, <1>4, <1>5, <1>6, <1>7, <1>9, <1>10 DEF Called
    <2>2. DbAt(best_number)'
      BY <1>4, <1>5, <1>16, <2>1 DEF DbAt
    <2>3. BlockAt(N + 1)' = blocks'[mined]
      BY <1>6, <1>7, <1>9, <1>10, <1>14 DEF BlockAt
    <2>4. ClockRight'
      BY <1>4, <1>5, <1>11, <1>15, <2>1, <2>3 DEF ClockRight, SameHeader, head
    <2>5. Phase(t)'
      BY <1>5, <2>1, <2>2, <2>4 DEF Phase
    <2> QED
      BY <1>1, <1>2, <1>4, <2>5, PhasesStep
  <1>21. Listed'
    <2>1. SUFFICES ASSUME NeverRolledBack PROVE Listed'
      BY DEF Listed, NeverRolledBack
    <2>2. /\ \A tx : tx \in DOMAIN transactions <=>
                     \E h \in DOMAIN blocks : tx \in blocks[h].transactions
          /\ \A tx \in DOMAIN transactions :
                /\ transactions[tx] \in DOMAIN blocks
                /\ tx \in blocks[transactions[tx]].transactions
      BY <1>1, <2>1, ListedNow
    <2>3. ASSUME NEW g \in DOMAIN stored, NEW h \in DOMAIN stored, g # h
          PROVE  stored[g].transactions \cap stored[h].transactions = {}
      <3>1. CASE g \in DOMAIN blocks /\ h \in DOMAIN blocks
        BY <1>1, <1>11, <2>3, <3>1, BodiesApart
      <3>2. ASSUME NEW k \in DOMAIN blocks
            PROVE  stored[k].transactions \subseteq Upto(N)
        <4>1. PICK n \in 0 .. N : k = hashes[n]
          BY <1>1, <1>3 DEF Linked
        <4>2. BlockAt(n).transactions \subseteq BlockAt(n).root /\ BlockAt(n).root \subseteq Upto(N)
          BY <1>1, <1>3 DEF Linked, Upto
        <4> QED
          BY <1>11, <4>1, <4>2 DEF BlockAt
      <3> QED
        BY <1>5, <1>11, <2>3, <3>1, <3>2
    <2>4. /\ DOMAIN known = DOMAIN transactions \cup c.block.transactions
          /\ \A tx \in DOMAIN known :
               known[tx] = IF tx \in c.block.transactions THEN mined ELSE transactions[tx]
      BY <1>5, <1>6, <1>7, <1>9, <1>10
    <2>5. \A tx \in DOMAIN known : known[tx] \in DOMAIN stored /\ tx \in stored[known[tx]].transactions
      BY <1>11, <2>2, <2>4
    <2>6. \A tx : tx \in DOMAIN known <=> \E h \in DOMAIN stored : tx \in stored[h].transactions
      BY <1>11, <2>2, <2>4
    <2>7. CASE clear
      <3>1. old \in DOMAIN stored
        <4>1. old = indexed[ToClear(c.number)] /\ ToClear(c.number) \in 0 .. N + 1
          BY <1>6, <1>7, <1>9, <1>10, <1>14, <2>7
        <4>2. \A n \in 0 .. N + 1 : indexed[n] \in DOMAIN stored
          <5>1. \A n \in 0 .. N : hashes[n] \in DOMAIN blocks
            BY <1>1, <1>3 DEF Linked
          <5>2. \A n \in 0 .. N + 1 : n \in 0 .. N \/ n = N + 1
            OBVIOUS
          <5> QED
            BY <1>11, <1>14, <5>1, <5>2
        <4> QED
          BY <4>1, <4>2
      <3>2. /\ DOMAIN transactions' = DOMAIN known \ stored[old].transactions
            /\ \A tx \in DOMAIN transactions' : transactions'[tx] = known[tx]
        BY <1>6, <1>7, <1>9, <1>10, <2>7, <3>1 DEF Without, BodyOf
      <3>3. \A tx : tx \in DOMAIN transactions' <=> \E h \in DOMAIN blocks' : tx \in blocks'[h].transactions
        BY <1>15, <2>3, <2>6, <2>7, <3>1, <3>2
      <3>4. \A tx \in DOMAIN transactions' : /\ transactions'[tx] \in DOMAIN blocks'
                                             /\ tx \in blocks'[transactions'[tx]].transactions
        BY <1>15, <2>5, <2>7, <3>1, <3>2
      <3> QED
        BY <1>16, <3>3, <3>4, ListedByHash
    <2>8. CASE ~clear
      <3>1. transactions' = known
        BY <1>6, <1>7, <1>9, <1>10, <2>8
      <3>2. \A tx : tx \in DOMAIN transactions' <=> \E h \in DOMAIN blocks' : tx \in blocks'[h].transactions
        BY <1>15, <2>6, <2>8, <3>1
      <3>3. \A tx \in DOMAIN transactions' : /\ transactions'[tx] \in DOMAIN blocks'
                                             /\ tx \in blocks'[transactions'[tx]].transactions
        BY <1>15, <2>5, <2>8, <3>1
      <3> QED
        BY <1>16, <3>2, <3>3, ListedByHash
    <2> QED
      BY <2>7, <2>8
  <1> QED
    BY <1>16, <1>17, <1>18, <1>19, <1>20, <1>21 DEF KInv

-----------------------------------------------------------------------------
(* Rewinding                                                               *)

LEMMA CommonBlockKInv ==
    ASSUME Tame, KInv, NEW t \in Threads, NEW depth \in Nat, NEW left \in Nat,
           CommonBlock(t, depth, left), Working(t), workload' = workload,
           workload[t] \cap {"rollback", "reorg"} # {}
    PROVE  KInv'
  <1>1. Called /\ Linked /\ mined \in Nat /\ best_number \in Nat
    BY DEF KInv, Linked
  <1>2. (\A u \in Threads \ {t} : Aside(u)) /\ pc[t] = "idle" /\ Settled
    BY Turn DEF CommonBlock
  <1>3. PICK n \in 0 .. best_number : n = best_number - depth
    BY <1>1 DEF CommonBlock
  <1>4. PICK h : h = hashes[n]
    OBVIOUS
  <1>5. PICK b : b = blocks[h]
    OBVIOUS
  <1>6. h \in Nat /\ b \in BlockRecord /\ b.number = n
    <2>1. BlockAt(n) = b
      BY <1>4, <1>5 DEF BlockAt
    <2> QED
      BY <1>1, <1>4, <2>1 DEF Linked
  <1>7. PICK locals : locals = Locals(0, 0, h, {}, b, left)
    OBVIOUS
  <1>8. Goto(t, "rollback", locals)
    BY <1>3, <1>4, <1>5, <1>7 DEF CommonBlock
  <1>9. locals \in CallType /\ locals.hash = h /\ locals.block = b /\ locals.left = left
    <2>1. 0 \in Nat /\ {} \in SUBSET Txs
      OBVIOUS
    <2> QED
      BY <1>6, <1>7, <2>1, LocalsType
  <1>10. /\ UNCHANGED storage
         /\ UNCHANGED head
         /\ UNCHANGED snapshots
         /\ UNCHANGED <<db, states, mining, mined>>
    BY DEF CommonBlock
  <1>11. Called'
    BY <1>1, <1>8, <1>9, <1>10, GotoCalled DEF RewindPlaces, MinePlaces
  <1>12. Phases'
    <2>1. pc'[t] = "rollback" /\ call'[t] = locals /\ pc' = [pc EXCEPT ![t] = "rollback"]
      BY <1>1, <1>8 DEF Called, Goto
    <2>2. Settled'
      BY <1>2, <1>10, SameSettled
    <2>3. Common(t)'
      BY <1>3, <1>4, <1>5, <1>6, <1>9, <1>10, <2>1 DEF Common, storage
    <2>4. Phase(t)'
      BY <2>1, <2>2, <2>3 DEF Phase
    <2> QED
      BY <1>1, <1>2, <2>1, <2>4, PhasesStep
  <1>13. Snapshots'
    BY <1>1, <1>10, <1>11, Rewinder, NoSnapshots DEF KInv
  <1> QED
    BY <1>1, <1>10, <1>11, <1>12, <1>13, AsideKInv

LEMMA RollbackStateKInv ==
    ASSUME Tame, KInv, NEW t \in Threads, RollbackState(t), Working(t), workload' = workload
    PROVE  KInv'
  <1>1. Called /\ Linked /\ History /\ mined \in Nat
    BY DEF KInv, Linked
  <1>2. (\A u \in Threads \ {t} : Aside(u)) /\ pc[t] = "rollback" /\ Settled /\ Common(t)
    BY Turn DEF RollbackState, Phase
  <1>3. PICK c \in CallType : c = call[t]
    BY <1>1 DEF Called
  <1>4. /\ UNCHANGED storage
        /\ UNCHANGED head
        /\ UNCHANGED snapshots
        /\ UNCHANGED <<db, states, mining, mined>>
    BY DEF RollbackState
  <1>5. workload[t] # {} /\ workload[t] \cap {"rollback", "reorg"} # {}
    BY <1>1, <1>2 DEF Called, RewindPlaces
  <1>6. Called' => Snapshots'
    BY <1>1, <1>4, <1>5, Rewinder, NoSnapshots DEF KInv
  <1>7. Settled'
    BY <1>2, <1>4, SameSettled
  <1>8. CASE c.hash \in DOMAIN states
    <2>1. PICK accounts : accounts = states[c.hash].accounts
      OBVIOUS
    <2>2. PICK locals : locals = [c EXCEPT !.txs = accounts]
      OBVIOUS
    <2>3. Goto(t, "clear", locals)
      BY <1>3, <1>8, <2>1, <2>2 DEF RollbackState
    <2>4. /\ c.block.number \in 0 .. best_number
          /\ c.hash = hashes[c.block.number]
          /\ c.block = blocks[c.hash]
      BY <1>2, <1>3 DEF Common
    <2>5. accounts = Upto(c.block.number)
      BY <1>1, <1>8, <2>1, <2>4 DEF History
    <2>6. Upto(c.block.number) \in SUBSET Txs
      <3>0. best_number \in Nat
        BY <1>1 DEF Linked
      <3>1. ASSUME NEW k \in 0 .. best_number, NEW m \in 0 .. k
            PROVE  m \in 0 .. best_number
        BY <3>0
      <3>2. \A m \in 0 .. best_number : BlockAt(m) \in BlockRecord
        BY <1>1 DEF Linked
      <3>3. \A m \in 0 .. c.block.number : BlockAt(m).root \subseteq Txs
        BY <2>4, <3>1, <3>2 DEF BlockRecord
      <3> QED
        BY <3>3 DEF Upto
    <2>7. /\ locals \in CallType
          /\ locals.txs = accounts
          /\ locals.hash = c.hash
          /\ locals.block = c.block
      BY <2>2, <2>5, <2>6 DEF CallType
    <2>8. Called'
      BY <1>1, <1>4, <1>5, <2>3, <2>7, GotoCalled DEF RewindPlaces, MinePlaces
    <2>9. Phases'
      <3>1. pc'[t] = "clear" /\ call'[t] = locals /\ pc' = [pc EXCEPT ![t] = "clear"]
        BY <1>1, <2>3 DEF Called, Goto
      <3>2. Common(t)'
        BY <1>4, <2>4, <2>7, <3>1 DEF Common, storage
      <3>3. locals.txs = Upto(locals.block.number)'
        BY <1>4, <2>5, <2>7, SameChain
      <3>4. Phase(t)'
        BY <1>7, <3>1, <3>2, <3>3 DEF Phase
      <3> QED
        BY <1>1, <1>2, <3>1, <3>4, PhasesStep
    <2> QED
      BY <1>1, <1>4, <1>6, <2>8, <2>9, AsideKInv
  <1>9. CASE c.hash \notin DOMAIN states
    <2>1. Goto(t, "idle", NoCall)
      BY <1>3, <1>9 DEF RollbackState
    <2>2. Called'
      BY <1>1, <1>4, <1>5, <2>1, NoCallType, GotoCalled DEF RewindPlaces, MinePlaces
    <2>3. pc' = [pc EXCEPT ![t] = "idle"]
      BY <2>1 DEF Goto
    <2>4. Phases'
      BY <1>1, <1>2, <1>7, <2>3, PhasesStep
    <2> QED
      BY <1>1, <1>4, <1>6, <2>2, <2>4, AsideKInv
  <1> QED
    BY <1>8, <1>9

LEMMA RollbackClearKInv ==
    ASSUME Tame, KInv, NEW t \in Threads, RollbackClear(t), Working(t), workload' = workload
    PROVE  KInv'
  <1>1. Called /\ Linked /\ mined \in Nat
    BY DEF KInv, Linked
  <1>2. /\ \A u \in Threads \ {t} : Aside(u)
        /\ pc[t] = "clear"
        /\ Common(t)
        /\ call[t].txs = Upto(call[t].block.number)
    BY Turn DEF RollbackClear, Phase
  <1>3. /\ UNCHANGED storage
        /\ UNCHANGED snapshots
        /\ UNCHANGED <<states, mining, mined, call>>
        /\ pc' = [pc EXCEPT ![t] = "load"]
        /\ db'.accounts = {}
    BY DEF RollbackClear
  <1>4. Called'
    <2>1. Goto(t, "load", call[t]) /\ call[t] \in CallType
      BY <1>1, <1>3, GoneOn
    <2>2. workload[t] # {} /\ workload[t] \cap {"rollback", "reorg"} # {}
      BY <1>1, <1>2 DEF Called, RewindPlaces
    <2> QED
      BY <1>1, <1>3, <2>1, <2>2, GotoCalled DEF RewindPlaces, MinePlaces
  <1>5. Phases'
    <2>1. pc'[t] = "load"
      BY <1>1, <1>3 DEF Called
    <2>2. Common(t)'
      BY <1>2, <1>3 DEF Common, storage
    <2>3. call'[t].txs = Upto(call[t].block.number)'
      BY <1>2, <1>3, SameChain
    <2>4. Phase(t)'
      BY <1>3, <2>1, <2>2, <2>3 DEF Phase
    <2>6. \A u \in Threads \ {t} : Aside(u)
      BY <1>2
    <2> QED
      BY <1>1, <1>3, <2>4, <2>6, PhasesStep
  <1>6. Snapshots'
    <2>1. workload[t] \cap {"rollback", "reorg"} # {}
      BY <1>1, <1>2 DEF Called, RewindPlaces
    <2> QED
      BY <1>1, <1>3, <1>4, <2>1, Rewinder, NoSnapshots DEF KInv
  <1> QED
    BY <1>1, <1>3, <1>4, <1>5, <1>6, AsideKInv

LEMMA RollbackLoadKInv ==
    ASSUME Tame, KInv, NEW t \in Threads, RollbackLoad(t), Working(t), workload' = workload
    PROVE  KInv'
  <1>1. Called /\ Linked /\ mined \in Nat
    BY DEF KInv, Linked
  <1>2. /\ \A u \in Threads \ {t} : Aside(u)
        /\ pc[t] = "load"
        /\ Common(t)
        /\ call[t].txs = Upto(call[t].block.number)
        /\ db.accounts = {}
    BY Turn DEF RollbackLoad, Phase
  <1>3. /\ UNCHANGED storage
        /\ UNCHANGED snapshots
        /\ UNCHANGED <<states, mining, mined, call>>
        /\ pc' = [pc EXCEPT ![t] = "unwind"]
        /\ db' = [db EXCEPT !.accounts = Loaded(t)]
    BY DEF RollbackLoad
  <1>4. Called'
    <2>1. Goto(t, "unwind", call[t]) /\ call[t] \in CallType
      BY <1>1, <1>3, GoneOn
    <2>2. workload[t] # {} /\ workload[t] \cap {"rollback", "reorg"} # {}
      BY <1>1, <1>2 DEF Called, RewindPlaces
    <2> QED
      BY <1>1, <1>3, <2>1, <2>2, GotoCalled DEF RewindPlaces, MinePlaces
  <1>5. Phases'
    <2>1. pc'[t] = "unwind"
      BY <1>1, <1>3 DEF Called
    <2>2. Common(t)'
      BY <1>2, <1>3 DEF Common, storage
    <2>3. db'.accounts = call[t].txs
      BY <1>2, <1>3 DEF Loaded
    <2>4. Upto(call[t].block.number)' = Upto(call[t].block.number)
      BY <1>3, SameChain
    <2>5. Phase(t)'
      BY <1>2, <1>3, <2>1, <2>2, <2>3, <2>4 DEF Phase, DbAt
    <2>6. \A u \in Threads \ {t} : Aside(u)
      BY <1>2
    <2> QED
      BY <1>1, <1>3, <2>5, <2>6, PhasesStep
  <1>6. Snapshots'
    <2>1. workload[t] \cap {"rollback", "reorg"} # {}
      BY <1>1, <1>2 DEF Called, RewindPlaces
    <2> QED
      BY <1>1, <1>3, <1>4, <2>1, Rewinder, NoSnapshots DEF KInv
  <1> QED
    BY <1>1, <1>3, <1>4, <1>5, <1>6, AsideKInv

(* The blocks above number k go: what is left is the chain up to k.        *)
LEMMA TruncateLinked ==
    ASSUME Linked, NEW k \in 0 .. best_number,
           hashes' = Without(hashes, Unwound(k)),
           blocks' = Without(blocks, {hashes[n] : n \in Unwound(k)}),
           best_number' = k, best_hash' = hashes[k], mined' = mined
    PROVE  /\ Linked'
           /\ \A n \in 0 .. k : /\ n \in 0 .. best_number
                                /\ hashes'[n] = hashes[n]
                                /\ BlockAt(n)' = BlockAt(n)
                                /\ Upto(n)' = Upto(n)
           /\ \A n \in Unwound(k) : hashes[n] \notin DOMAIN blocks'
           /\ \A h \in DOMAIN blocks' : h \in DOMAIN blocks /\ blocks'[h] = blocks[h]
           /\ \A h \in DOMAIN blocks \ DOMAIN blocks' : \E n \in Unwound(k) : h = hashes[n]
  <1>1. best_number \in Nat /\ mined \in Nat /\ DOMAIN hashes = 0 .. best_number
    BY DEF Linked
  <1>2. \A n : n \in Unwound(k) <=> n \in 0 .. best_number /\ k < n
    BY <1>1 DEF Unwound
  <1>3. \A n \in 0 .. k : n \in 0 .. best_number /\ n \notin Unwound(k)
    BY <1>1, <1>2
  <1>4. /\ DOMAIN hashes' = DOMAIN hashes \ Unwound(k)
        /\ \A n \in DOMAIN hashes' : hashes'[n] = hashes[n]
    BY DEF Without
  <1>5. DOMAIN hashes' = 0 .. k
    BY <1>1, <1>2, <1>4
  <1>6. \A m, n \in 0 .. best_number : hashes[m] = hashes[n] => m = n
    <2>1. \A n \in 0 .. best_number : blocks[hashes[n]].number = n
      BY DEF Linked, BlockAt
    <2> QED
      BY <2>1
  <1>7. PICK gone : gone = {hashes[n] : n \in Unwound(k)}
    OBVIOUS
  <1>8. /\ DOMAIN blocks' = DOMAIN blocks \ gone
        /\ \A h \in DOMAIN blocks' : h \in DOMAIN blocks /\ blocks'[h] = blocks[h]
    BY <1>7 DEF Without
  <1>9. \A h : h \in gone <=> \E n \in Unwound(k) : h = hashes[n]
    BY <1>7
  <1>10. \A h : h \in DOMAIN blocks <=> \E n \in 0 .. best_number : h = hashes[n]
    <2>1. DOMAIN blocks = {hashes[n] : n \in DOMAIN hashes} /\ DOMAIN hashes = 0 .. best_number
      BY DEF Linked
    <2> QED
      BY <2>1, Zenon
  <1>11. \A n \in 0 .. k : hashes[n] \in DOMAIN blocks'
    <2>1. ASSUME NEW n \in 0 .. k
          PROVE  hashes[n] \in DOMAIN blocks /\ hashes[n] \notin gone
      BY <1>2, <1>3, <1>6, <1>9, <1>10
    <2> QED
      BY <1>8, <2>1
  <1>12. \A h \in DOMAIN blocks' : \E n \in 0 .. k : h = hashes[n]
    <2>1. ASSUME NEW h \in DOMAIN blocks'
          PROVE  \E n \in 0 .. k : h = hashes[n]
      <3>1. PICK n \in 0 .. best_number : h = hashes[n]
        BY <1>8, <1>10
      <3>2. n \notin Unwound(k)
        BY <1>8, <1>9, <3>1
      <3>3. n \in 0 .. k
        BY <1>1, <1>2, <3>2
      <3> QED
        BY <3>1, <3>3
    <2> QED
      BY <2>1
  <1>13. \A n \in 0 .. k : hashes'[n] = hashes[n] /\ BlockAt(n)' = BlockAt(n)
    BY <1>4, <1>5, <1>8, <1>11 DEF BlockAt
  <1>14. ASSUME NEW n \in 0 .. k
         PROVE  Upto(n)' = Upto(n)
    <2>1. Upto(n)' = UNION {BlockAt(m)'.root : m \in 0 .. n}
      BY DEF Upto
    <2>2. \A m \in 0 .. n : m \in 0 .. k
      BY <1>1
    <2>3. \A m \in 0 .. n : BlockAt(m)' = BlockAt(m)
      BY <1>13, <2>2
    <2> QED
      BY <2>1, <2>3 DEF Upto
  <1>15. Linked'
    <2>1. k \in Nat /\ mined' \in Nat /\ k \in 0 .. k
      BY <1>1
    <2>2. best_hash' = hashes'[k]
      BY <1>13, <2>1
    <2>3. DOMAIN blocks' = {hashes'[n] : n \in DOMAIN hashes'}
      <3>1. \A h : h \in DOMAIN blocks' <=> \E n \in 0 .. k : h = hashes'[n]
        BY <1>11, <1>12, <1>13
      <3> QED
        BY <1>5, <3>1
    <2>4. \A n \in 0 .. k : /\ hashes'[n] \in 0 .. mined'
                            /\ BlockAt(n)' \in BlockRecord
                            /\ BlockAt(n)'.number = n
                            /\ BlockAt(n)'.transactions \subseteq BlockAt(n)'.root
      <3>1. \A n \in 0 .. best_number : /\ hashes[n] \in 0 .. mined
                                        /\ BlockAt(n) \in BlockRecord
                                        /\ BlockAt(n).number = n
                                        /\ BlockAt(n).transactions \subseteq BlockAt(n).root
        BY DEF Linked
      <3> QED
        BY <1>3, <1>13, <3>1
    <2>5. \A n \in 1 .. k : n \in 1 .. best_number /\ n \in 0 .. k /\ n - 1 \in 0 .. k
      BY <1>1
    <2>6. \A n \in 1 .. k : /\ BlockAt(n)'.parent = hashes'[n - 1]
                            /\ BlockAt(n)'.timestamp >= BlockAt(n - 1)'.timestamp
      BY <1>13, <2>5 DEF Linked
    <2>7. \A m, n \in 0 .. k : m # n => BlockAt(m)'.root \cap BlockAt(n)'.root = {}
      BY <1>3, <1>13 DEF Linked
    <2> QED
      BY <1>5, <2>1, <2>2, <2>3, <2>4, <2>6, <2>7 DEF Linked
  <1>16. \A n \in Unwound(k) : hashes[n] \notin DOMAIN blocks'
    BY <1>8, <1>9
  <1>17. \A h \in DOMAIN blocks \ DOMAIN blocks' : \E n \in Unwound(k) : h = hashes[n]
    BY <1>8, <1>9
  <1> QED
    BY <1>3, <1>8, <1>13, <1>14, <1>15, <1>16, <1>17

LEMMA RollbackUnwindKInv ==
    ASSUME Tame, KInv, NEW t \in Threads, RollbackUnwind(t), Working(t), workload' = workload
    PROVE  KInv'
  <1>1. Called /\ Linked /\ History /\ Snapshots /\ mined \in Nat
    BY DEF KInv, Linked
  <1>2. \A u \in Threads \ {t} : Aside(u)
    BY Turn
  <1>3. pc[t] = "unwind" /\ Common(t) /\ DbAt(call[t].block.number)
    BY Turn DEF RollbackUnwind, Phase
  <1>4. PICK c \in CallType : c = call[t]
    BY <1>1 DEF Called
  <1>5. PICK k \in 0 .. best_number : k = c.block.number
    BY <1>3, <1>4 DEF Common
  <1>6. c.hash = hashes[k] /\ c.block = BlockAt(k) /\ db.accounts = Upto(k)
    BY <1>3, <1>4, <1>5 DEF Common, BlockAt, DbAt
  <1>7. /\ hashes' = Without(hashes, Unwound(k))
        /\ blocks' = Without(blocks, {hashes[n] : n \in Unwound(k)})
        /\ best_hash' = c.hash
        /\ best_number' = k
        /\ env' = k
        /\ last_timestamp' = c.block.timestamp
        /\ UNCHANGED <<transactions, db, states, mining, mined>>
        /\ UNCHANGED snapshots
    BY <1>4, <1>5 DEF RollbackUnwind
  <1>8. /\ Linked'
        /\ \A n \in 0 .. k : /\ n \in 0 .. best_number
                             /\ hashes'[n] = hashes[n]
                             /\ BlockAt(n)' = BlockAt(n)
                             /\ Upto(n)' = Upto(n)
    BY <1>1, <1>6, <1>7, TruncateLinked
  <1>9. k \in 0 .. k
    BY <1>1 DEF Linked
  <1>10. History'
    BY <1>1, <1>7, <1>8 DEF History
  <1>11. ~NeverRolledBack /\ \A u \in Threads : "snapshot" \notin workload[u]
    <2>1. workload[t] \cap {"rollback", "reorg"} # {}
      BY <1>1, <1>3 DEF Called, RewindPlaces
    <2> QED
      BY <1>1, <2>1, Rewinder
  <1>12. Listed'
    BY <1>11 DEF Listed, NeverRolledBack
  <1>13. Called' => Snapshots'
    BY <1>1, <1>7, <1>11, NoSnapshots
  <1>14. Settled'
    <2>1. DbAt(best_number)'
      BY <1>6, <1>7, <1>8, <1>9 DEF DbAt
    <2>2. ClockRight'
      BY <1>6, <1>7, <1>8, <1>9 DEF ClockRight
    <2> QED
      BY <1>7, <2>1, <2>2 DEF Settled
  <1>15. workload[t] # {} /\ workload[t] \cap {"rollback", "reorg"} # {}
    BY <1>1, <1>3 DEF Called, RewindPlaces
  <1>16. c.left \in Nat
    BY DEF CallType
  <1>17. CASE c.left > 0
    <2>1. PICK locals : locals = [NoCall EXCEPT !.left = c.left]
      OBVIOUS
    <2>2. Goto(t, "reorg", locals)
      BY <1>4, <1>17, <2>1 DEF RollbackUnwind
    <2>3. locals \in CallType
      BY <1>16, <2>1, NoCallType
    <2>4. Called'
      BY <1>1, <1>7, <1>15, <2>2, <2>3, GotoCalled DEF RewindPlaces, MinePlaces
    <2>5. pc'[t] = "reorg" /\ pc' = [pc EXCEPT ![t] = "reorg"]
      BY <1>1, <2>2 DEF Called, Goto
    <2>6. Phase(t)'
      BY <1>14, <2>5 DEF Phase
    <2>7. Phases'
      BY <1>1, <1>2, <2>5, <2>6, PhasesStep
    <2> QED
      BY <1>8, <1>10, <1>12, <1>13, <2>4, <2>7 DEF KInv
  <1>18. CASE ~(c.left > 0)
    <2>1. Goto(t, "idle", NoCall)
      BY <1>4, <1>18 DEF RollbackUnwind
    <2>2. Called'
      BY <1>1, <1>7, <1>15, <2>1, NoCallType, GotoCalled DEF RewindPlaces, MinePlaces
    <2>3. pc' = [pc EXCEPT ![t] = "idle"]
      BY <2>1 DEF Goto
    <2>4. Phases'
      BY <1>1, <1>2, <1>14, <2>3, PhasesStep
    <2> QED
      BY <1>8, <1>10, <1>12, <1>13, <2>2, <2>4 DEF KInv
  <1> QED
    BY <1>17, <1>18

-----------------------------------------------------------------------------
(* Snapshots                                                               *)

\* While somebody takes snapshots only he may be reverting.
LEMMA NobodyReverts ==
    ASSUME Tame, Called, NEW t \in Threads, workload[t] # {}, pc[t] # "revert"
    PROVE  \A u \in Threads : pc[u] # "revert"
  <1> SUFFICES ASSUME NEW u \in Threads, pc[u] = "revert" PROVE FALSE
    OBVIOUS
  <1>1. "revert" \in workload[u]
    BY DEF Called
  <1>2. \A v \in Threads \ {u} : workload[v] = {}
    BY <1>1, Reverter
  <1> QED
    BY <1>2

LEMMA PhaseKept ==
    ASSUME UNCHANGED storage, UNCHANGED head, UNCHANGED <<db, states, mined>>, NEW u,
           pc'[u] = pc[u], call'[u] = call[u], pc[u] = "revert" => UNCHANGED state_snapshots,
           Phase(u)
    PROVE  Phase(u)'
  <1>1. UNCHANGED <<best_number, best_hash, blocks, hashes, env, last_timestamp>>
    BY DEF storage, head
  <1>2. \A n : BlockAt(n)' = BlockAt(n) /\ Upto(n)' = Upto(n)
    BY SameChain
  <1>3. Settled' = Settled
    BY SameSettled
  <1>4. Common(u)' = Common(u)
    BY <1>1 DEF Common
  <1>5. pc[u] = "revert" => RevertedDb(call[u].id)' = RevertedDb(call[u].id)
    BY DEF RevertedDb
  <1>6. ClockRight' = ClockRight /\ \A n : DbAt(n)' = DbAt(n)
    BY <1>1, <1>2 DEF ClockRight, DbAt
  <1> QED
    BY <1>1, <1>2, <1>3, <1>4, <1>5, <1>6 DEF Phase

\* A thread begins or ends to take a snapshot.
LEMMA PhasesAside ==
    ASSUME Phases, Called, NEW t \in Threads, Aside(t), NEW place \in {"idle", "snapshot"},
           NEW locals, Goto(t, place, locals), \A u \in Threads : pc[u] # "revert",
           UNCHANGED storage, UNCHANGED head, UNCHANGED <<db, states, mined>>
    PROVE  Phases'
  <1>1. /\ pc'[t] = place
        /\ \A u \in Threads \ {t} : pc'[u] = pc[u] /\ call'[u] = call[u]
    BY DEF Goto, Called
  <1>2. \A u \in Threads : Aside(u)' = Aside(u)
    BY <1>1 DEF Aside
  <1>3. (\A u \in Threads : Aside(u)') => Settled'
    BY <1>2, SameSettled DEF Phases
  <1>4. ASSUME NEW u \in Threads, \A v \in Threads \ {u} : Aside(v)'
        PROVE  Phase(u)'
    <2>1. CASE u = t
      BY <1>1, <2>1 DEF Phase
    <2>2. CASE u # t
      <3>1. Phase(u)
        BY <1>2, <1>4 DEF Phases
      <3> QED
        BY <1>1, <2>2, <3>1, PhaseKept
    <2> QED
      BY <2>1, <2>2
  <1> QED
    BY <1>3, <1>4 DEF Phases

LEMMA EvmSnapshotKInv ==
    ASSUME Tame, KInv, NEW t \in Threads, EvmSnapshot(t), workload' = workload
    PROVE  KInv'
  <1>1. Called /\ Linked /\ Snapshots /\ Phases /\ mined \in Nat /\ best_number \in Nat
    BY DEF KInv, Linked
  <1>2. pc[t] = "idle" /\ "snapshot" \in workload[t] /\ workload[t] # {} /\ Aside(t)
    BY DEF EvmSnapshot, Aside
  <1>3. \A u \in Threads : pc[u] # "revert"
    BY <1>1, <1>2, NobodyReverts
  <1>4. PICK locals : locals = Locals(best_number, 0, best_hash, {}, NoBlock, 0)
    OBVIOUS
  <1>5. Goto(t, "snapshot", locals)
    BY <1>4 DEF EvmSnapshot
  <1>6. best_number \in 0 .. best_number /\ best_hash = hashes[best_number]
    BY <1>1 DEF Linked
  <1>7. /\ locals \in CallType
        /\ locals.number = best_number
        /\ locals.hash = best_hash
        /\ locals.left = 0
    <2>1. 0 \in Nat /\ {} \in SUBSET Txs
      OBVIOUS
    <2>2. hashes[best_number] \in 0 .. mined
      BY <1>1, <1>6 DEF Linked
    <2> QED
      BY <1>1, <1>4, <1>6, <2>1, <2>2, LocalsType, NoCallType
  <1>8. /\ UNCHANGED storage
        /\ UNCHANGED head
        /\ UNCHANGED snapshots
        /\ UNCHANGED <<db, states, mining, mined>>
    BY DEF EvmSnapshot
  <1>9. Called'
    BY <1>1, <1>2, <1>5, <1>7, <1>8, GotoCalled DEF SnapshotPlaces, RewindPlaces, MinePlaces
  <1>10. Phases'
    BY <1>1, <1>2, <1>3, <1>5, <1>8, PhasesAside
  <1>11. /\ pc'[t] = "snapshot" /\ call'[t] = locals
         /\ \A u \in Threads \ {t} : pc'[u] = pc[u] /\ call'[u] = call[u]
    BY <1>1, <1>5 DEF Called, Goto
  <1>12. PICK accounts : accounts = db.accounts
    OBVIOUS
  <1>13. OneCaller' = OneCaller /\ best_number' = best_number
    BY <1>8 DEF OneCaller, storage
  <1>14. Taken(best_number, best_hash, accounts)
    <2>1. Upto(best_number) \subseteq accounts
      BY <1>1, <1>2, <1>12 DEF Snapshots
    <2>2. ASSUME OneCaller
          PROVE  accounts = Upto(best_number)
      <3>1. \A u \in Threads : Aside(u)
        BY <1>1, <1>2, <2>2, Lone DEF Aside
      <3> QED
        BY <1>1, <1>12, <3>1 DEF Phases, Settled, DbAt
    <2> QED
      BY <1>6, <2>1, <2>2 DEF Taken
  <1>15. ASSUME NEW u \in Threads, pc'[u] = "snapshot"
         PROVE  /\ Taken(call[u].number, call[u].hash, db.accounts)'
                /\ OneCaller' => call'[u].number = best_number'
    <2>1. PICK c : c = call'[u]
      OBVIOUS
    <2>2. Taken(c.number, c.hash, accounts) /\ (OneCaller => c.number = best_number)
      <3>1. CASE u = t
        BY <1>7, <1>11, <1>14, <2>1, <3>1
      <3>2. CASE u # t
        BY <1>1, <1>11, <1>12, <1>15, <2>1, <3>2 DEF Snapshots
      <3> QED
        BY <3>1, <3>2
    <2>3. Taken(c.number, c.hash, accounts)'
      BY <1>8, <2>2, SameTaken
    <2> QED
      BY <1>8, <1>12, <1>13, <2>1, <2>2, <2>3
  <1>16. Snapshots'
    <2>1. Live' = Live /\ UNCHANGED <<state_snapshots, active_state_snapshots, snapshot_id>>
      <3>1. UNCHANGED <<state_snapshots, active_state_snapshots, snapshot_id>>
        BY <1>8 DEF snapshots
      <3>2. \A u \in Threads : pc'[u] # "revert"
        BY <1>3, <1>11
      <3> QED
        BY <1>3, <3>1, <3>2 DEF Live
    <2>2. ASSUME NEW i \in Live
          PROVE  Taken(active_state_snapshots[i].number, active_state_snapshots[i].hash,
                       state_snapshots[i].accounts)'
      <3>1. PICK at, kept : at = active_state_snapshots[i] /\ kept = state_snapshots[i].accounts
        OBVIOUS
      <3>2. Taken(at.number, at.hash, kept)
        BY <1>1, <3>1 DEF Snapshots
      <3>3. Taken(at.number, at.hash, kept)'
        BY <1>8, <3>2, SameTaken
      <3> QED
        BY <2>1, <3>1, <3>3
    <2>3. Upto(best_number)' \subseteq db'.accounts
      BY <1>8, <1>12, <1>13, <1>14 DEF Taken, Upto, BlockAt, storage
    <2>4. /\ snapshot_id \in Nat
          /\ (\A u \in Threads : "snapshot" \notin workload[u]) => snapshot_id = 0
          /\ DOMAIN state_snapshots \subseteq 0 .. snapshot_id - 1
          /\ Live \subseteq DOMAIN active_state_snapshots
          /\ OneCaller =>
                \A i, j \in Live :
                    i < j => active_state_snapshots[i].number <= active_state_snapshots[j].number
      BY <1>1 DEF Snapshots
    <2> QED
      BY <1>13, <1>15, <2>1, <2>2, <2>3, <2>4 DEF Snapshots
  <1> QED
    BY <1>1, <1>8, <1>9, <1>10, <1>16, AsideKInv

LEMMA SnapshotDbKInv ==
    ASSUME Tame, KInv, NEW t \in Threads, SnapshotDb(t), workload' = workload
    PROVE  KInv'
  <1>1. /\ Called /\ Linked /\ History /\ Listed /\ Snapshots /\ Phases
        /\ mined \in Nat /\ best_number \in Nat /\ snapshot_id \in Nat
    BY DEF KInv, Linked, Snapshots
  <1>2. pc[t] = "snapshot" /\ Aside(t)
    BY DEF SnapshotDb, Aside
  <1>3. "snapshot" \in workload[t] /\ workload[t] # {}
    BY <1>1, <1>2 DEF Called
  <1>4. \A u \in Threads : pc[u] # "revert"
    BY <1>1, <1>2, <1>3, NobodyReverts
  <1>5. PICK c, id, accounts : c = call[t] /\ id = snapshot_id /\ accounts = db.accounts
    OBVIOUS
  <1>6. Taken(c.number, c.hash, accounts) /\ (OneCaller => c.number = best_number)
    BY <1>1, <1>2, <1>5 DEF Snapshots
  <1>7. /\ UNCHANGED storage
        /\ UNCHANGED head
        /\ UNCHANGED <<db, states, mining, mined>>
        /\ Goto(t, "idle", NoCall)
        /\ snapshot_id' = id + 1
    BY <1>5 DEF SnapshotDb
  <1>8. /\ DOMAIN state_snapshots' = DOMAIN state_snapshots \cup {id}
        /\ DOMAIN active_state_snapshots' = DOMAIN active_state_snapshots \cup {id}
        /\ state_snapshots'[id] = db
        /\ active_state_snapshots'[id] = [number |-> c.number, hash |-> c.hash]
        /\ \A i \in DOMAIN state_snapshots \ {id} : state_snapshots'[i] = state_snapshots[i]
        /\ \A i \in DOMAIN active_state_snapshots \ {id} :
              active_state_snapshots'[i] = active_state_snapshots[i]
    BY <1>5 DEF SnapshotDb, With
  <1>9. /\ \A u \in Threads \ {t} : pc'[u] = pc[u] /\ call'[u] = call[u]
        /\ pc'[t] = "idle"
    BY <1>1, <1>7 DEF Called, Goto
  <1>10. /\ Live = DOMAIN state_snapshots
         /\ Live' = Live \cup {id}
         /\ id \notin Live
         /\ \A i \in Live : i \in Nat /\ i < id
    <2>1. \A u \in Threads : pc'[u] # "revert"
      BY <1>4, <1>9
    <2>2. Live = DOMAIN state_snapshots /\ Live' = DOMAIN state_snapshots'
      BY <1>4, <2>1 DEF Live
    <2>3. DOMAIN state_snapshots \subseteq 0 .. id - 1
      BY <1>1, <1>5 DEF Snapshots
    <2>4. \A i \in Live : i \in Nat /\ i < id
      BY <1>1, <1>5, <2>2, <2>3
    <2> QED
      BY <1>1, <1>5, <1>8, <2>2, <2>4
  <1>11. OneCaller' = OneCaller /\ best_number' = best_number
    BY <1>7 DEF OneCaller, storage
  <1>12. \A i \in Live : /\ i \in DOMAIN active_state_snapshots \ {id}
                         /\ active_state_snapshots'[i] = active_state_snapshots[i]
                         /\ state_snapshots'[i] = state_snapshots[i]
    BY <1>1, <1>8, <1>10 DEF Snapshots
  <1>13. ASSUME NEW i \in Live'
         PROVE  Taken(active_state_snapshots[i].number, active_state_snapshots[i].hash,
                      state_snapshots[i].accounts)'
    <2>1. PICK at, kept : at = active_state_snapshots'[i] /\ kept = state_snapshots'[i].accounts
      OBVIOUS
    <2>2. Taken(at.number, at.hash, kept)
      <3>1. CASE i = id
        BY <1>5, <1>6, <1>8, <2>1, <3>1
      <3>2. CASE i # id
        BY <1>1, <1>10, <1>12, <2>1, <3>2 DEF Snapshots
      <3> QED
        BY <3>1, <3>2
    <2>3. Taken(at.number, at.hash, kept)'
      BY <1>7, <2>2, SameTaken
    <2> QED
      BY <2>1, <2>3
  <1>14. ASSUME NEW u \in Threads, pc'[u] = "snapshot"
         PROVE  /\ Taken(call[u].number, call[u].hash, db.accounts)'
                /\ OneCaller' => call'[u].number = best_number'
    <2>1. PICK d : d = call[u]
      OBVIOUS
    <2>2. pc[u] = "snapshot" /\ call'[u] = d
      BY <1>9, <1>14, <2>1
    <2>3. Taken(d.number, d.hash, accounts) /\ (OneCaller => d.number = best_number)
      BY <1>1, <1>5, <2>1, <2>2 DEF Snapshots
    <2>4. Taken(d.number, d.hash, accounts)'
      BY <1>7, <2>3, SameTaken
    <2> QED
      BY <1>5, <1>7, <1>11, <2>2, <2>3, <2>4
  <1>15. ASSUME OneCaller, NEW i \in Live', NEW j \in Live', i < j
         PROVE  active_state_snapshots'[i].number <= active_state_snapshots'[j].number
    <2>1. \A m \in Live : /\ active_state_snapshots'[m].number \in 0 .. best_number
                          /\ m \in Nat /\ m < id
      BY <1>1, <1>10, <1>12 DEF Snapshots, Taken
    <2>2. active_state_snapshots'[id].number = best_number
      BY <1>6, <1>8, <1>15
    <2>3. CASE j = id
      <3>1. i \in Live \/ i = id
        BY <1>10
      <3> QED
        BY <1>1, <2>1, <2>2, <2>3, <3>1
    <2>4. CASE j # id
      <3>1. j \in Live /\ (i \in Live \/ i = id)
        BY <1>10, <2>4
      <3>2. i \in Live
        BY <1>1, <1>5, <1>15, <2>1, <3>1
      <3>3. active_state_snapshots[i].number <= active_state_snapshots[j].number
        BY <1>1, <1>15, <3>1, <3>2 DEF Snapshots
      <3> QED
        BY <1>12, <3>1, <3>2, <3>3
    <2> QED
      BY <2>3, <2>4
  <1>16. Snapshots'
    <2>1. Live' \subseteq DOMAIN active_state_snapshots'
      BY <1>8, <1>10, <1>12
    <2>2. id + 1 \in Nat /\ DOMAIN state_snapshots' \subseteq 0 .. (id + 1) - 1
      BY <1>1, <1>5, <1>8, <1>10
    <2>3. Upto(best_number)' \subseteq db'.accounts
      <3>1. Upto(best_number) \subseteq accounts
        BY <1>1, <1>3, <1>5 DEF Snapshots
      <3>2. Upto(best_number)' = Upto(best_number)
        BY <1>7, <1>11 DEF Upto, BlockAt, storage
      <3> QED
        BY <1>5, <1>7, <3>1, <3>2
    <2> QED
      BY <1>3, <1>7, <1>11, <1>13, <1>14, <1>15, <2>1, <2>2, <2>3 DEF Snapshots
  <1>17. Called'
    BY <1>1, <1>3, <1>7, NoCallType, GotoCalled DEF RewindPlaces, MinePlaces
  <1>18. Phases'
    BY <1>1, <1>2, <1>4, <1>7, PhasesAside
  <1>19. Linked' /\ History' /\ Listed'
    BY <1>1, <1>7, SameLinked, SameHistory, SameListed
  <1> QED
    BY <1>16, <1>17, <1>18, <1>19 DEF KInv

LEMMA EvmRevertUnknownKInv ==
    ASSUME Tame, KInv, NEW t \in Threads, NEW id \in Nat, EvmRevertUnknown(t, id), Working(t),
           workload' = workload
    PROVE  KInv'
  <1>1. Called /\ Linked /\ Snapshots /\ mined \in Nat
    BY DEF KInv, Linked
  <1>2. \A u \in Threads \ {t} : Aside(u)
    BY Turn
  <1>3. /\ pc[t] = "idle" /\ Settled
        /\ "revert" \in workload[t] /\ id \notin DOMAIN active_state_snapshots
    BY Turn DEF EvmRevertUnknown
  <1>4. \A u \in Threads : pc[u] = "idle"
    BY <1>1, <1>3, Reverter
  <1>5. id \notin DOMAIN state_snapshots
    <2>1. Live = DOMAIN state_snapshots
      BY <1>4 DEF Live
    <2> QED
      BY <1>1, <1>3, <2>1 DEF Snapshots
  <1>6. PICK locals : locals = [NoCall EXCEPT !.id = id]
    OBVIOUS
  <1>7. Goto(t, "revert", locals)
    BY <1>6 DEF EvmRevertUnknown
  <1>8. locals \in CallType /\ locals.left = 0 /\ locals.id = id
    BY <1>6, NoCallType
  <1>9. /\ UNCHANGED storage
        /\ UNCHANGED head
        /\ UNCHANGED snapshots
        /\ UNCHANGED <<db, states, mining, mined>>
    BY DEF EvmRevertUnknown
  <1>10. Called'
    BY <1>1, <1>3, <1>7, <1>8, <1>9, GotoCalled DEF SnapshotPlaces, RewindPlaces, MinePlaces
  <1>11. /\ pc'[t] = "revert" /\ call'[t] = locals /\ pc' = [pc EXCEPT ![t] = "revert"]
         /\ \A u \in Threads \ {t} : pc'[u] = pc[u] /\ call'[u] = call[u]
    BY <1>1, <1>7 DEF Called, Goto
  <1>12. Phases'
    <2>1. DbAt(best_number)' /\ (env = best_number)' /\ ClockRight'
      <3>1. Settled'
        BY <1>3, <1>9, SameSettled
      <3> QED
        BY <3>1 DEF Settled
    <2>2. UNCHANGED state_snapshots
      BY <1>9 DEF snapshots
    <2>3. (RevertedDb(call[t].id).accounts = Upto(best_number))'
      BY <1>5, <1>8, <1>11, <2>1, <2>2 DEF RevertedDb, DbAt
    <2>4. Phase(t)'
      BY <1>8, <1>11, <2>1, <2>2, <2>3 DEF Phase
    <2> QED
      BY <1>1, <1>2, <1>11, <2>4, PhasesStep
  <1>13. Snapshots'
    <2>1. \A u \in Threads : pc'[u] # "snapshot" /\ pc[u] # "revert"
      BY <1>4, <1>11
    <2> QED
      BY <1>1, <1>9, <2>1, SameSnapshots
  <1> QED
    BY <1>1, <1>9, <1>10, <1>12, <1>13, AsideKInv

LEMMA RevertDbKInv ==
    ASSUME Tame, KInv, NEW t \in Threads, RevertDb(t), Working(t), workload' = workload
    PROVE  KInv'
  <1>1. Called /\ Linked /\ History /\ Listed /\ Snapshots /\ mined \in Nat
    BY DEF KInv, Linked
  <1>2. \A u \in Threads \ {t} : Aside(u)
    BY Turn
  <1>3. PICK id \in Nat : id = call[t].id
    BY <1>1 DEF Called, CallType
  <1>4. /\ pc[t] = "revert"
        /\ env = best_number
        /\ ClockRight
        /\ RevertedDb(id).accounts = Upto(best_number)
    BY <1>3, Turn DEF RevertDb, Phase
  <1>5. /\ UNCHANGED storage
        /\ UNCHANGED head
        /\ UNCHANGED <<states, snapshot_id, active_state_snapshots, mining, mined>>
        /\ Goto(t, "idle", NoCall)
        /\ db' = RevertedDb(id)
        /\ state_snapshots' = Without(state_snapshots, RemovedIds(id))
    BY <1>3 DEF RevertDb
  <1>6. \A u \in Threads \ {t} : pc[u] = "idle"
    BY <1>1, <1>4, Reverter DEF Called
  <1>7. /\ pc'[t] = "idle" /\ pc' = [pc EXCEPT ![t] = "idle"]
        /\ \A u \in Threads \ {t} : pc'[u] = pc[u] /\ call'[u] = call[u]
    BY <1>1, <1>5 DEF Called, Goto
  <1>8. /\ Live' = Live
        /\ \A i \in Live : state_snapshots'[i] = state_snapshots[i]
        /\ DOMAIN state_snapshots' \subseteq DOMAIN state_snapshots
    <2>1. /\ DOMAIN state_snapshots' = DOMAIN state_snapshots \ RemovedIds(id)
          /\ \A i \in DOMAIN state_snapshots' : state_snapshots'[i] = state_snapshots[i]
      BY <1>5 DEF Without
    <2>2. \A i \in DOMAIN state_snapshots : i \in Nat
      BY <1>1 DEF Snapshots
    <2>3. \A i : i \in DOMAIN state_snapshots' <=> i \in DOMAIN state_snapshots /\ i < id
      BY <2>1, <2>2 DEF RemovedIds
    <2>4. \A i : i \in Live <=> i \in DOMAIN state_snapshots /\ i < id
      BY <1>3, <1>4, <1>6 DEF Live
    <2>5. \A i : i \in Live' <=> i \in DOMAIN state_snapshots'
      BY <1>6, <1>7 DEF Live
    <2>6. \A i : i \in Live' <=> i \in Live
      BY <2>3, <2>4, <2>5
    <2> QED
      BY <2>1, <2>5, <2>6
  <1>9. OneCaller' = OneCaller /\ best_number' = best_number
    BY <1>5 DEF OneCaller, storage
  <1>10. Upto(best_number)' = Upto(best_number)
    BY <1>5, <1>9 DEF Upto, BlockAt, storage
  <1>11. Snapshots'
    <2>1. ASSUME NEW i \in Live'
          PROVE  Taken(active_state_snapshots[i].number, active_state_snapshots[i].hash,
                       state_snapshots[i].accounts)'
      <3>1. PICK at, kept : at = active_state_snapshots[i] /\ kept = state_snapshots[i].accounts
        OBVIOUS
      <3>2. Taken(at.number, at.hash, kept)
        BY <1>1, <1>8, <3>1 DEF Snapshots
      <3>3. Taken(at.number, at.hash, kept)'
        BY <1>5, <3>2, SameTaken
      <3> QED
        BY <1>5, <1>8, <3>1, <3>3
    <2>2. \A u \in Threads : pc'[u] # "snapshot"
      BY <1>6, <1>7
    <2>3. Upto(best_number)' \subseteq db'.accounts
      BY <1>4, <1>5, <1>10
    <2>4. /\ snapshot_id \in Nat
          /\ (\A u \in Threads : "snapshot" \notin workload[u]) => snapshot_id = 0
          /\ DOMAIN state_snapshots \subseteq 0 .. snapshot_id - 1
          /\ Live \subseteq DOMAIN active_state_snapshots
          /\ OneCaller =>
                \A i, j \in Live :
                    i < j => active_state_snapshots[i].number <= active_state_snapshots[j].number
      BY <1>1 DEF Snapshots
    <2> QED
      BY <1>5, <1>8, <1>9, <2>1, <2>2, <2>3, <2>4 DEF Snapshots
  <1>12. Called'
    <2>1. workload[t] # {}
      BY <1>1, <1>4 DEF Called
    <2> QED
      BY <1>1, <1>5, <2>1, NoCallType, GotoCalled DEF RewindPlaces, MinePlaces
  <1>13. Phases'
    <2>1. \A n : Upto(n)' = Upto(n) /\ BlockAt(n)' = BlockAt(n)
      BY <1>5, SameChain
    <2>2. UNCHANGED <<best_number, env, last_timestamp>>
      BY <1>5 DEF storage, head
    <2>3. Settled'
      BY <1>4, <1>5, <2>1, <2>2 DEF Settled, DbAt, ClockRight
    <2> QED
      BY <1>1, <1>2, <1>7, <2>3, PhasesStep
  <1>14. Linked' /\ History' /\ Listed'
    BY <1>1, <1>5, SameLinked, SameHistory, SameListed
  <1> QED
    BY <1>11, <1>12, <1>13, <1>14 DEF KInv

LEMMA UptoGrows ==
    ASSUME NEW m \in Nat, NEW n \in Nat, m <= n
    PROVE  Upto(m) \subseteq Upto(n)
  <1>1. 0 .. m \subseteq 0 .. n
    OBVIOUS
  <1> QED
    BY <1>1 DEF Upto

LEMMA EvmRevertKInv ==
    ASSUME Tame, KInv, NEW t \in Threads, NEW id \in Nat, EvmRevert(t, id), Working(t),
           workload' = workload
    PROVE  KInv'
  <1>1. Called /\ Linked /\ History /\ Listed /\ Snapshots /\ mined \in Nat
    BY DEF KInv, Linked
  <1>2. \A u \in Threads \ {t} : Aside(u)
    BY Turn
  <1>3. /\ pc[t] = "idle"
        /\ "revert" \in workload[t]
        /\ id \in DOMAIN active_state_snapshots
        /\ id \in DOMAIN state_snapshots
    <2>1. Workable(workload)
      BY <1>1 DEF Tame, Called
    <2>2. "revert_stale" \notin workload[t]
      BY <2>1 DEF Workable, Alone
    <2> QED
      BY <2>2 DEF EvmRevert
  <1>4. PICK at : at = active_state_snapshots[id]
    OBVIOUS
  <1>5. OneCaller /\ \A u \in Threads : pc[u] = "idle"
    BY <1>1, <1>3, Reverter
  <1>6. Live = DOMAIN state_snapshots
    BY <1>5 DEF Live
  <1>7. /\ at.number \in 0 .. best_number
        /\ at.hash = hashes[at.number]
        /\ state_snapshots[id].accounts = Upto(at.number)
    BY <1>1, <1>3, <1>4, <1>5, <1>6 DEF Snapshots, Taken
  <1>8. PICK k \in 0 .. best_number : k = at.number
    BY <1>7
  <1>9. PICK bodies : bodies = UNION {BodyOf(blocks, hashes[n]) : n \in Unwound(k)}
    OBVIOUS
  <1>10. /\ hashes' = Without(hashes, Unwound(k))
         /\ blocks' = Without(blocks, {hashes[n] : n \in Unwound(k)})
         /\ transactions' = Without(transactions, bodies)
         /\ best_number' = k
         /\ best_hash' = hashes[k]
         /\ active_state_snapshots' = Without(active_state_snapshots, {id})
         /\ UNCHANGED <<db, states, state_snapshots, snapshot_id, mining, mined>>
    BY <1>4, <1>7, <1>8, <1>9 DEF EvmRevert
  <1>11. /\ Linked'
         /\ \A n \in 0 .. k : /\ n \in 0 .. best_number
                              /\ hashes'[n] = hashes[n]
                              /\ BlockAt(n)' = BlockAt(n)
                              /\ Upto(n)' = Upto(n)
         /\ \A n \in Unwound(k) : hashes[n] \notin DOMAIN blocks'
         /\ \A h \in DOMAIN blocks' : h \in DOMAIN blocks /\ blocks'[h] = blocks[h]
         /\ \A h \in DOMAIN blocks \ DOMAIN blocks' : \E n \in Unwound(k) : h = hashes[n]
    BY <1>1, <1>10, TruncateLinked
  <1>12. k \in 0 .. k /\ k \in Nat
    BY <1>1 DEF Linked
  <1>13. hashes[k] \in DOMAIN blocks'
    <2>1. DOMAIN blocks' = {hashes'[n] : n \in DOMAIN hashes'} /\ DOMAIN hashes' = 0 .. k
      BY <1>10, <1>11 DEF Linked
    <2> QED
      BY <1>11, <1>12, <2>1
  <1>14. PICK locals : locals = [NoCall EXCEPT !.id = id]
    OBVIOUS
  <1>15. /\ env' = k
         /\ last_timestamp' = blocks'[hashes[k]].timestamp
         /\ Goto(t, "revert", locals)
    BY <1>4, <1>7, <1>8, <1>13, <1>14 DEF EvmRevert
  <1>16. locals \in CallType /\ locals.left = 0 /\ locals.id = id
    BY <1>14, NoCallType
  <1>17. History'
    BY <1>1, <1>10, <1>11 DEF History
  <1>18. /\ pc'[t] = "revert" /\ call'[t] = locals /\ pc' = [pc EXCEPT ![t] = "revert"]
         /\ \A u \in Threads \ {t} : pc'[u] = pc[u] /\ call'[u] = call[u]
    BY <1>1, <1>15 DEF Called, Goto
  <1>19. \A i \in Live' : /\ i \in Live /\ i < id
                          /\ i \in DOMAIN active_state_snapshots'
                          /\ active_state_snapshots'[i] = active_state_snapshots[i]
    <2>1. \A i \in Live' : i \in Live /\ i < id
      BY <1>6, <1>10, <1>16, <1>18 DEF Live
    <2>2. \A i \in Live' : i \in DOMAIN active_state_snapshots /\ i \in Nat
      BY <1>1, <2>1, <1>6 DEF Snapshots
    <2>3. \A i \in Live' : i # id
      BY <2>1, <2>2
    <2> QED
      BY <1>10, <2>1, <2>2, <2>3 DEF Without
  <1>20. ASSUME NEW i \in Live'
         PROVE  Taken(active_state_snapshots[i].number, active_state_snapshots[i].hash,
                      state_snapshots[i].accounts)'
    <2>1. PICK m, hash, kept : /\ m = active_state_snapshots[i].number
                               /\ hash = active_state_snapshots[i].hash
                               /\ kept = state_snapshots[i].accounts
      OBVIOUS
    <2>2. m \in 0 .. best_number /\ hash = hashes[m] /\ kept = Upto(m)
      BY <1>1, <1>5, <1>19, <2>1 DEF Snapshots, Taken
    <2>3. m <= k
      BY <1>1, <1>3, <1>4, <1>5, <1>6, <1>8, <1>19, <2>1 DEF Snapshots
    <2>4. m \in 0 .. k
      BY <1>12, <2>2, <2>3
    <2>5. hashes'[m] = hashes[m] /\ Upto(m)' = Upto(m)
      BY <1>11, <2>4
    <2>6. Taken(m, hash, kept)'
      BY <1>10, <2>2, <2>4, <2>5 DEF Taken
    <2> QED
      BY <1>10, <1>19, <2>1, <2>6
  <1>21. Upto(best_number)' \subseteq db'.accounts \/ \A u \in Threads : "snapshot" \notin workload[u]
    <2>1. Upto(k) \subseteq Upto(best_number)
      BY <1>1, <1>12, UptoGrows DEF Linked
    <2>2. Upto(best_number)' = Upto(k)
      BY <1>10, <1>11, <1>12 DEF Upto
    <2> QED
      BY <1>1, <1>10, <2>1, <2>2 DEF Snapshots
  <1>22. Snapshots'
    <2>1. /\ snapshot_id \in Nat
          /\ (\A u \in Threads : "snapshot" \notin workload[u]) => snapshot_id = 0
          /\ DOMAIN state_snapshots \subseteq 0 .. snapshot_id - 1
      BY <1>1 DEF Snapshots
    <2>2. \A u \in Threads : pc'[u] # "snapshot"
      BY <1>5, <1>18
    <2>3. \A i, j \in Live' :
             i < j => active_state_snapshots'[i].number <= active_state_snapshots'[j].number
      BY <1>1, <1>5, <1>19 DEF Snapshots
    <2> QED
      BY <1>10, <1>19, <1>20, <1>21, <2>1, <2>2, <2>3 DEF Snapshots
  <1>23. Called'
    <2>1. mining' = mining
      BY <1>10
    <2> QED
      BY <1>1, <1>3, <1>15, <1>16, <2>1, GotoCalled DEF SnapshotPlaces, RewindPlaces, MinePlaces
  <1>24. Phases'
    <2>1. ClockRight'
      BY <1>10, <1>11, <1>12, <1>15 DEF ClockRight, BlockAt
    <2>2. (RevertedDb(call[t].id).accounts = Upto(best_number))'
      BY <1>3, <1>7, <1>8, <1>10, <1>11, <1>12, <1>16, <1>18 DEF RevertedDb
    <2>3. env' = best_number'
      BY <1>10, <1>15
    <2>4. Phase(t)'
      BY <1>18, <2>1, <2>2, <2>3 DEF Phase
    <2> QED
      BY <1>1, <1>2, <1>18, <2>4, PhasesStep
  <1>25. Listed'
    <2>1. SUFFICES ASSUME NeverRolledBack PROVE Listed'
      BY DEF Listed, NeverRolledBack
    <2>2. /\ \A tx : tx \in DOMAIN transactions <=>
                     \E h \in DOMAIN blocks : tx \in blocks[h].transactions
          /\ \A tx \in DOMAIN transactions :
                /\ transactions[tx] \in DOMAIN blocks
                /\ tx \in blocks[transactions[tx]].transactions
      BY <1>1, <2>1, ListedNow
    <2>3. /\ DOMAIN transactions' = DOMAIN transactions \ bodies
          /\ \A tx \in DOMAIN transactions' : transactions'[tx] = transactions[tx]
      BY <1>10 DEF Without
    <2>4. \A n \in Unwound(k) : hashes[n] \in DOMAIN blocks
      BY <1>1 DEF Linked, Unwound
    <2>5. \A tx : tx \in bodies <=> \E n \in Unwound(k) : tx \in blocks[hashes[n]].transactions
      <3>1. \A n \in Unwound(k) : BodyOf(blocks, hashes[n]) = blocks[hashes[n]].transactions
        BY <2>4 DEF BodyOf
      <3> QED
        BY <1>9, <3>1
    <2>6. ASSUME NEW tx \in DOMAIN transactions'
          PROVE  /\ transactions'[tx] \in DOMAIN blocks'
                 /\ tx \in blocks'[transactions'[tx]].transactions
      <3>1. PICK h \in DOMAIN blocks : h = transactions[tx] /\ tx \in blocks[h].transactions
        BY <2>2, <2>3
      <3>2. h \in DOMAIN blocks'
        BY <1>11, <2>3, <2>5, <3>1
      <3> QED
        BY <1>11, <2>3, <3>1, <3>2
    <2>7. ASSUME NEW h \in DOMAIN blocks', NEW tx \in blocks'[h].transactions
          PROVE  tx \in DOMAIN transactions'
      <3>1. h \in DOMAIN blocks /\ tx \in blocks[h].transactions
        BY <1>11
      <3>2. ASSUME NEW n \in Unwound(k), tx \in blocks[hashes[n]].transactions
            PROVE  FALSE
        <4>1. hashes[n] \in DOMAIN blocks /\ hashes[n] # h
          BY <1>11, <2>4
        <4>2. blocks[hashes[n]].transactions \cap blocks[h].transactions = {}
          BY <1>1, <3>1, <4>1, BodiesApart
        <4> QED
          BY <3>1, <3>2, <4>2
      <3> QED
        BY <2>2, <2>3, <2>5, <3>1, <3>2
    <2>8. \A tx : tx \in DOMAIN transactions' <=>
                    \E h \in DOMAIN blocks' : tx \in blocks'[h].transactions
      BY <2>6, <2>7
    <2> QED
      BY <1>11, <2>6, <2>8, ListedByHash
  <1> QED
    BY <1>11, <1>17, <1>22, <1>23, <1>24, <1>25 DEF KInv

-----------------------------------------------------------------------------
(* The invariant                                                           *)

LEMMA InitKInv ==
    ASSUME Init
    PROVE  KInv
  <1>1. /\ DOMAIN hashes = {0}
        /\ hashes[0] = 0
        /\ DOMAIN blocks = {0}
        /\ blocks[0] = Block(0, 0, 0, {})
        /\ best_hash = 0 /\ best_number = 0 /\ mined = 0
        /\ DOMAIN transactions = {} /\ DOMAIN states = {}
        /\ DOMAIN state_snapshots = {} /\ DOMAIN active_state_snapshots = {}
        /\ snapshot_id = 0
    BY DEF Init, Empty
  <1>2. 0 .. 0 = {0} /\ 1 .. 0 = {}
    OBVIOUS
  <1>3. PICK b : b = Block(0, 0, 0, {})
    OBVIOUS
  <1>4. /\ b \in BlockRecord
        /\ b.number = 0
        /\ b.timestamp = 0
        /\ b.root = {}
        /\ b.transactions = {}
    BY <1>3 DEF Block, BlockRecord
  <1>5. BlockAt(0) = b
    BY <1>1, <1>3 DEF BlockAt
  <1>6. Upto(0) = {}
    BY <1>2, <1>4, <1>5 DEF Upto
  <1>7. Linked
    BY <1>1, <1>2, <1>4, <1>5 DEF Linked
  <1>8. History
    BY <1>1 DEF History
  <1>9. Listed
    BY <1>1, <1>2, <1>4, <1>5 DEF Listed
  <1>10. \A t \in Threads : pc[t] = "idle" /\ call[t] = NoCall
    BY DEF Init
  <1>11. Snapshots
    <2>1. Live = {} /\ Upto(best_number) = {}
      BY <1>1, <1>6 DEF Live
    <2> QED
      BY <1>1, <1>10, <2>1 DEF Snapshots
  <1>12. Called
    <2>1. NoCall \in CallType /\ NoCall.left = 0
      BY NoCallType
    <2> QED
      BY <1>10, <2>1 DEF Init, Called, MinePlaces, RewindPlaces
  <1>13. Phases
    <2>1. Settled
      BY <1>1, <1>4, <1>5, <1>6 DEF Init, Settled, DbAt, ClockRight
    <2>2. \A t \in Threads : Phase(t)
      BY <1>10 DEF Phase
    <2> QED
      BY <2>1, <2>2 DEF Phases
  <1> QED
    BY <1>7, <1>8, <1>9, <1>11, <1>12, <1>13 DEF KInv

\* Every step of a thread keeps the invariant.
LEMMA StepKInv ==
    ASSUME Tame, KInv, NEW t \in Threads, Step(t), workload' = workload
    PROVE  KInv'
  <1>1. ASSUME NEW txs \in {{}} \cup {{tx} : tx \in Txs}, MineStart(t, txs)
        PROVE  KInv'
    <2>1. txs \in SUBSET Txs
      OBVIOUS
    <2>2. Working(t)
      BY <1>1 DEF MineStart, Working
    <2> QED
      BY <1>1, <2>1, <2>2, MineStartKInv
  <1>2. CASE MineState(t)
    <2>1. Working(t)
      BY <1>2 DEF MineState, Working
    <2> QED
      BY <1>2, <2>1, MineStateKInv
  <1>3. CASE MineExecute(t)
    <2>1. Working(t)
      BY <1>3 DEF MineExecute, Working
    <2> QED
      BY <1>3, <2>1, MineExecuteKInv
  <1>4. CASE MineStore(t)
    <2>1. Working(t)
      BY <1>4 DEF MineStore, Working
    <2> QED
      BY <1>4, <2>1, MineStoreKInv
  <1>5. CASE MineFinish(t)
    <2>1. Working(t)
      BY <1>5 DEF MineFinish, Working
    <2> QED
      BY <1>5, <2>1, MineFinishKInv
  <1>6. ASSUME NEW depth \in 0 .. MaxBlocks, AnvilRollback(t, depth) \/ AnvilReorg(t, depth)
        PROVE  KInv'
    <2>1. depth \in Nat /\ 0 \in Nat
      OBVIOUS
    <2>2. workload[t] \cap {"rollback", "reorg"} # {}
      BY <1>6 DEF AnvilRollback, AnvilReorg
    <2>3. CommonBlock(t, depth, 0) \/ CommonBlock(t, depth, depth)
      BY <1>6 DEF AnvilRollback, AnvilReorg
    <2>4. Working(t)
      BY <2>2, <2>3 DEF CommonBlock, Working
    <2> QED
      BY <2>1, <2>2, <2>3, <2>4, CommonBlockKInv
  <1>7. CASE RollbackState(t)
    <2>1. Working(t)
      BY <1>7 DEF RollbackState, Working
    <2> QED
      BY <1>7, <2>1, RollbackStateKInv
  <1>8. CASE RollbackClear(t)
    <2>1. Working(t)
      BY <1>8 DEF RollbackClear, Working
    <2> QED
      BY <1>8, <2>1, RollbackClearKInv
  <1>9. CASE RollbackLoad(t)
    <2>1. Working(t)
      BY <1>9 DEF RollbackLoad, Working
    <2> QED
      BY <1>9, <2>1, RollbackLoadKInv
  <1>10. CASE RollbackUnwind(t)
    <2>1. Working(t)
      BY <1>10 DEF RollbackUnwind, Working
    <2> QED
      BY <1>10, <2>1, RollbackUnwindKInv
  <1>11. CASE EvmSnapshot(t)
    BY <1>11, EvmSnapshotKInv
  <1>12. CASE SnapshotDb(t)
    BY <1>12, SnapshotDbKInv
  <1>13. ASSUME NEW id \in 0 .. MaxSnapshots, EvmRevert(t, id)
         PROVE  KInv'
    <2>1. id \in Nat
      OBVIOUS
    <2>2. Working(t)
      <3>1. Workable(workload)
        BY DEF Tame, KInv, Called
      <3>2. "revert_stale" \notin workload[t]
        BY <3>1 DEF Workable, Alone
      <3> QED
        BY <1>13, <3>2 DEF EvmRevert, Working
    <2> QED
      BY <1>13, <2>1, <2>2, EvmRevertKInv
  <1>14. ASSUME NEW id \in 0 .. MaxSnapshots, EvmRevertUnknown(t, id)
         PROVE  KInv'
    <2>1. id \in Nat
      OBVIOUS
    <2>2. Working(t)
      BY <1>14 DEF EvmRevertUnknown, Working
    <2> QED
      BY <1>14, <2>1, <2>2, EvmRevertUnknownKInv
  <1>15. CASE RevertDb(t)
    <2>1. Working(t)
      BY <1>15 DEF RevertDb, Working
    <2> QED
      BY <1>15, <2>1, RevertDbKInv
  <1>16. 1 .. MaxBlocks \subseteq 0 .. MaxBlocks
    OBVIOUS
  <1> QED
    BY <1>1, <1>2, <1>3, <1>4, <1>5, <1>6, <1>7, <1>8, <1>9, <1>10, <1>11, <1>12, <1>13, <1>14,
       <1>15, <1>16 DEF Step

LEMMA StutterKInv ==
    ASSUME KInv, UNCHANGED vars
    PROVE  KInv'
  <1>1. /\ UNCHANGED storage
        /\ UNCHANGED snapshots
        /\ UNCHANGED head
        /\ UNCHANGED <<db, states, workload, mining, mined, pc, call>>
    BY DEF vars
  <1>2. UNCHANGED state_snapshots
    BY <1>1 DEF snapshots
  <1>3. Called'
    BY <1>1 DEF KInv, Called
  <1>4. Settled' = Settled
    BY <1>1, SameSettled
  <1>5. \A t : Aside(t)' = Aside(t)
    BY <1>1 DEF Aside
  <1>6. \A t : Phase(t) => Phase(t)'
    BY <1>1, <1>2, PhaseKept
  <1>7. Phases'
    BY <1>4, <1>5, <1>6 DEF KInv, Phases
  <1>8. mined \in Nat /\ Snapshots
    BY DEF KInv, Linked
  <1>9. Snapshots'
    BY <1>1, <1>8, SameSnapshots
  <1> QED
    BY <1>1, <1>3, <1>7, <1>8, <1>9, AsideKInv

LEMMA AlwaysKInv ==
    ASSUME Tame
    PROVE  Spec => []KInv
  <1>1. Init => KInv
    BY InitKInv
  <1>2. KInv /\ [Next]_vars => KInv'
    BY StepKInv, StutterKInv DEF Next
  <1> QED
    BY <1>1, <1>2, PTL DEF Spec

-----------------------------------------------------------------------------
(* What the invariant says                                                 *)

\* The chain up to a hash is the chain up to its number.
LEMMA ExecutedUpto ==
    ASSUME Linked, NEW n \in 0 .. best_number
    PROVE  hashes[n] \in DOMAIN blocks /\ Executed(hashes[n]) = Upto(n)
  <1>1. DOMAIN hashes = 0 .. best_number /\ best_number \in Nat
    BY DEF Linked
  <1>2. DOMAIN blocks = {hashes[m] : m \in DOMAIN hashes}
    BY DEF Linked
  <1>3. hashes[n] \in DOMAIN blocks
    BY <1>1, <1>2
  <1>4. \A m \in 0 .. best_number : blocks[hashes[m]].number = m
    BY DEF Linked, BlockAt
  <1>5. PICK c : c = CHOOSE m \in DOMAIN hashes : hashes[m] = hashes[n]
    OBVIOUS
  <1>6. c \in DOMAIN hashes /\ hashes[c] = hashes[n]
    BY <1>1, <1>5
  <1>7. c = n
    BY <1>1, <1>4, <1>6
  <1>8. Ancestors(hashes[n]) = {hashes[m] : m \in {m \in DOMAIN hashes : m <= n}}
    BY <1>5, <1>7 DEF Ancestors
  <1>9. {m \in DOMAIN hashes : m <= n} = 0 .. n
    BY <1>1
  <1>10. \A g : g \in Ancestors(hashes[n]) <=> \E m \in 0 .. n : g = hashes[m]
    BY <1>8, <1>9
  <1>11. \A tx : tx \in Executed(hashes[n]) <=>
                   \E g \in Ancestors(hashes[n]) : tx \in blocks[g].root
    BY DEF Executed
  <1>12. \A tx : tx \in Upto(n) <=> \E m \in 0 .. n : tx \in blocks[hashes[m]].root
    BY DEF Upto, BlockAt
  <1>13. \A tx : tx \in Executed(hashes[n]) <=> tx \in Upto(n)
    BY <1>10, <1>11, <1>12
  <1> QED
    BY <1>3, <1>13

(* do_mine_block appends to the storage, unwind_to and                     *)
(* revert_state_snapshot cut it back: for any number of threads, blocks    *)
(* and transactions, and any transaction_block_keeper, what is stored      *)
(* between calls is one chain without a gap, linked by parent hashes, with *)
(* timestamps that do not go back and the best block at its end.           *)
THEOREM StorageIsOneChain ==
    ASSUME Tame
    PROVE  Spec => []ChainLinked
  <1>1. ASSUME KInv
        PROVE  ChainLinked
    <2>1. /\ DOMAIN hashes = 0 .. best_number
          /\ best_hash = hashes[best_number]
          /\ DOMAIN blocks = {hashes[n] : n \in DOMAIN hashes}
      BY <1>1 DEF KInv, Linked
    <2>2. ASSUME NEW n \in 1 .. best_number
          PROVE  /\ blocks[hashes[n]].number = n
                 /\ blocks[hashes[n]].parent = hashes[n - 1]
                 /\ blocks[hashes[n]].timestamp >= blocks[hashes[n - 1]].timestamp
      <3>1. n \in 0 .. best_number
        OBVIOUS
      <3> QED
        BY <1>1, <3>1 DEF KInv, Linked, BlockAt
    <2> QED
      BY <2>1, <2>2 DEF ChainLinked
  <1> QED
    BY <1>1, AlwaysKInv, PTL

(* A rollback clears the database, loads the accounts of the common block  *)
(* and unwinds the storage, a revert cuts the storage back and then the    *)
(* database: after the call the accounts are what the transactions of the  *)
(* chain lead to, and environment and clock are at the best block.         *)
THEOREM DbFollowsChain ==
    ASSUME Tame
    PROVE  Spec => []DbMatchesChain
  <1>1. ASSUME KInv
        PROVE  DbMatchesChain
    <2>1. SUFFICES ASSUME Quiet
                   PROVE  /\ db.accounts = Executed(best_hash)
                          /\ env = best_number
                          /\ last_timestamp = blocks[best_hash].timestamp
      BY DEF DbMatchesChain
    <2>2. Linked /\ Settled
      BY <1>1, <2>1 DEF KInv, Phases, Quiet, Aside
    <2>3. best_number \in 0 .. best_number /\ best_hash = hashes[best_number]
      BY <2>2 DEF Linked
    <2>4. Executed(best_hash) = Upto(best_number)
      BY <2>2, <2>3, ExecutedUpto
    <2> QED
      BY <2>2, <2>3, <2>4 DEF Settled, DbAt, ClockRight, BlockAt
  <1> QED
    BY <1>1, AlwaysKInv, PTL

(* do_mine_block stores the state under the parent's hash before it        *)
(* executes: for a block of the chain that state is the state after it,    *)
(* which is what a rollback to it loads and an archive query reads.        *)
THEOREM HistoryIsTrue ==
    ASSUME Tame
    PROVE  Spec => []HistoryTrue
  <1>1. ASSUME KInv
        PROVE  HistoryTrue
    <2>1. SUFFICES ASSUME NEW h \in DOMAIN states, h \in DOMAIN blocks
                   PROVE  states[h].accounts = Executed(h)
      BY DEF HistoryTrue
    <2>2. Linked /\ History
      BY <1>1 DEF KInv
    <2>3. PICK n \in 0 .. best_number : h = hashes[n]
      BY <2>1, <2>2 DEF Linked
    <2> QED
      BY <2>1, <2>2, <2>3, ExecutedUpto DEF History
  <1> QED
    BY <1>1, AlwaysKInv, PTL

(* do_mine_block clears old bodies and revert_state_snapshot removes       *)
(* blocks, each with its transactions: where nothing was rolled back, a    *)
(* transaction is stored iff a block of the chain lists it.                *)
THEOREM StoredIffListed ==
    ASSUME Tame
    PROVE  Spec => []TransactionsMatchBlocks
  <1>1. ASSUME KInv
        PROVE  TransactionsMatchBlocks
    <2>1. SUFFICES ASSUME NeverRolledBack
                   PROVE  /\ DOMAIN transactions =
                               UNION {blocks[h].transactions : h \in DOMAIN blocks}
                          /\ \A tx \in DOMAIN transactions :
                               /\ transactions[tx] \in DOMAIN blocks
                               /\ tx \in blocks[transactions[tx]].transactions
      BY DEF TransactionsMatchBlocks
    <2>2. Linked /\ Listed
      BY <1>1 DEF KInv
    <2>3. /\ \A tx : tx \in DOMAIN transactions <=>
                     \E h \in DOMAIN blocks : tx \in blocks[h].transactions
          /\ \A tx \in DOMAIN transactions :
               /\ transactions[tx] \in DOMAIN blocks
               /\ tx \in blocks[transactions[tx]].transactions
      BY <2>1, <2>2, ListedNow
    <2> QED
      BY <2>3
  <1> QED
    BY <1>1, AlwaysKInv, PTL

(* evm_snapshot reads number and hash before it copies the database, and a *)
(* revert cuts storage and database one after the other: a snapshot whose  *)
(* database is there is at a block of the chain, and its database is the   *)
(* state after that block; with more of the chain in it only if another    *)
(* thread mined while it was taken.                                        *)
THEOREM SnapshotsAreTrue ==
    ASSUME Tame
    PROVE  Spec => []SnapshotsTrue
  <1>1. ASSUME KInv
        PROVE  SnapshotsTrue
    <2>1. Linked /\ Snapshots
      BY <1>1 DEF KInv
    <2>2. ASSUME Quiet, NEW id \in DOMAIN state_snapshots
          PROVE  /\ id \in DOMAIN active_state_snapshots
                 /\ active_state_snapshots[id].hash \in DOMAIN blocks
                 /\ Executed(active_state_snapshots[id].hash) \subseteq state_snapshots[id].accounts
                 /\ OneCaller => state_snapshots[id].accounts =
                                     Executed(active_state_snapshots[id].hash)
      <3>1. PICK at, kept : at = active_state_snapshots[id] /\ kept = state_snapshots[id].accounts
        OBVIOUS
      <3>2. id \in Live
        BY <2>2 DEF Live, Quiet
      <3>3. id \in DOMAIN active_state_snapshots /\ Taken(at.number, at.hash, kept)
        BY <2>1, <3>1, <3>2 DEF Snapshots
      <3>4. at.hash \in DOMAIN blocks /\ Executed(at.hash) = Upto(at.number)
        BY <2>1, <3>3, ExecutedUpto DEF Taken
      <3> QED
        BY <3>1, <3>3, <3>4 DEF Taken
    <2> QED
      BY <2>2 DEF SnapshotsTrue
  <1> QED
    BY <1>1, AlwaysKInv, PTL
=============================================================================
