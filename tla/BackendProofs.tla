---------------------------- MODULE BackendProofs ----------------------------
(***************************************************************************)
(* Theorems about three parts of anvil's backend that each keep a state of *)
(* their own: the historic states (BlockStates, for every limit, set of    *)
(* hashes and bound), the clock (TimeManager, for any number of concurrent *)
(* requests), and the fee history and the polled filters (Listeners, for   *)
(* any limit and any number of blocks, rollbacks, filters and clients).    *)
(***************************************************************************)
EXTENDS BlockStates, TimeManager, Listeners, FiniteSetTheorems, TLAPS

-----------------------------------------------------------------------------
(* BlockStates                                                             *)
(*                                                                         *)
(* What the queue operations do to the set of listed hashes.               *)

LEMMA TailListed ==
    ASSUME NEW S, NEW q \in Seq(S), q # <<>>
    PROVE  /\ Head(q) \in S
           /\ Tail(q) \in Seq(S)
           /\ Len(Tail(q)) = Len(q) - 1
           /\ Head(q) = q[1]
           /\ Len(q) \in Nat \ {0}
           /\ \A i \in 1 .. Len(q) - 1 : Tail(q)[i] = q[i + 1]
  OBVIOUS

LEMMA TailSet ==
    ASSUME NEW S, NEW q \in Seq(S), q # <<>>
    PROVE  Listed(q) = {Head(q)} \cup Listed(Tail(q))
  <1>1. ASSUME NEW i \in 1 .. Len(q), i # 1
        PROVE  i - 1 \in 1 .. Len(Tail(q)) /\ Tail(q)[i - 1] = q[i]
    BY <1>1, TailListed
  <1>2. ASSUME NEW i \in 1 .. Len(Tail(q))
        PROVE  i + 1 \in 1 .. Len(q) /\ Tail(q)[i] = q[i + 1]
    BY <1>2, TailListed
  <1>3. 1 \in 1 .. Len(q) /\ Head(q) = q[1]
    BY TailListed
  <1>4. ASSUME NEW x \in Listed(q) PROVE x \in {Head(q)} \cup Listed(Tail(q))
    <2>1. PICK i \in 1 .. Len(q) : x = q[i]
      BY DEF Listed
    <2> QED
      BY <1>1, <1>3, <2>1 DEF Listed
  <1>5. ASSUME NEW x \in {Head(q)} \cup Listed(Tail(q)) PROVE x \in Listed(q)
    BY <1>2, <1>3 DEF Listed
  <1> QED
    BY <1>4, <1>5

LEMMA AppendSet ==
    ASSUME NEW S, NEW q \in Seq(S), NEW x \in S
    PROVE  /\ Append(q, x) \in Seq(S)
           /\ Len(Append(q, x)) = Len(q) + 1
           /\ \A i \in 1 .. Len(q) : Append(q, x)[i] = q[i]
           /\ Append(q, x)[Len(q) + 1] = x
           /\ Listed(Append(q, x)) = Listed(q) \cup {x}
  <1>1. /\ Append(q, x) \in Seq(S)
        /\ Len(q) \in Nat
        /\ Len(Append(q, x)) = Len(q) + 1
        /\ \A i \in 1 .. Len(q) : Append(q, x)[i] = q[i]
        /\ Append(q, x)[Len(q) + 1] = x
    OBVIOUS
  <1>2. 1 .. (Len(q) + 1) = (1 .. Len(q)) \cup {Len(q) + 1}
    BY <1>1
  <1>3. Listed(Append(q, x)) = Listed(q) \cup {x}
    BY <1>1, <1>2, Zenon DEF Listed
  <1> QED
    BY <1>1, <1>3

LEMMA ListedType ==
    ASSUME NEW S, NEW q \in Seq(S)
    PROVE  Listed(q) \subseteq S
  BY DEF Listed

LEMMA ListedEmpty == Listed(<<>>) = {}
  BY DEF Listed

-----------------------------------------------------------------------------
(* The limits.  Len(present) < in_memory_limit once the first loop is done *)
(* is what makes the bound of Bounded inductive, and an insert under way   *)
(* still has a number left.                                                *)
BInv ==
    /\ TypeOK
    /\ Bounded
    /\ pc = "disk" => Len(present) < in_memory_limit
    /\ pc # "idle" /\ arg # NoHash => inserts < MaxInserts

LEMMA InitBInv == Init => BInv
  <1> SUFFICES ASSUME Init PROVE BInv
    OBVIOUS
  <1> USE LimitAssumption DEF Init
  <1>1. TypeOK
    BY DEF TypeOK
  <1>2. Bounded
    BY ListedEmpty DEF Bounded, DiskFull, is_memory_only
  <1> QED
    BY <1>1, <1>2 DEF BInv

LEMMA EvictBInv == ASSUME BInv, EvictOldest PROVE BInv'
  <1> USE LimitAssumption
  <1> DEFINE popped == IF present = <<>> THEN {} ELSE {Head(present)}
             toDisk == IF is_memory_only THEN {} ELSE {h \in popped : states[h] # 0}
  <1>1. /\ pc = "memory"
        /\ present' = PopFront
        /\ states' = [h \in Hash |-> IF h \in popped THEN 0 ELSE states[h]]
        /\ on_disk_states' = on_disk_states \cup toDisk
        /\ oldest_on_disk' = IF toDisk = {} THEN oldest_on_disk
                             ELSE PushBack(oldest_on_disk, Head(present))
        /\ writes' = writes \cup {Spawned(h) : h \in toDisk}
        /\ UNCHANGED <<in_memory_limit, files, failed, pc, arg, inserts, latest>>
    BY DEF EvictOldest
  <1>2. TypeOK
    BY DEF BInv
  <1>3. popped \subseteq Hash /\ (popped # {} => popped = {Head(present)} /\ present # <<>>)
    BY <1>2, TailListed DEF TypeOK
  <1>4. toDisk # {} => toDisk = {Head(present)} /\ present # <<>> /\ Head(present) \in Hash
    BY <1>3
  <1>5. present' \in Seq(Hash)
    BY <1>1, <1>2, TailListed DEF TypeOK, PopFront
  <1>6. oldest_on_disk' \in Seq(Hash)
    BY <1>1, <1>2, <1>4, AppendSet DEF TypeOK, PushBack
  <1>7. writes' \subseteq Hash \X (1 .. MaxInserts)
    BY <1>1, <1>2, <1>3, SMTT(30) DEF TypeOK, Spawned
  <1>8. states' \in [Hash -> 0 .. MaxInserts]
    BY <1>1, <1>2 DEF TypeOK
  <1>9. TypeOK'
    BY <1>1, <1>2, <1>3, <1>5, <1>6, <1>7, <1>8 DEF TypeOK
  <1>10. ASSUME NEW h \in Hash, states'[h] # 0
         PROVE  h \in Listed(present')
    <2>1. h \notin popped /\ states[h] # 0
      BY <1>1, <1>10
    <2>2. h \in Listed(present)
      BY <2>1 DEF BInv, Bounded
    <2> QED
      BY <1>1, <1>2, <2>1, <2>2, TailSet, ListedEmpty DEF PopFront, TypeOK
  <1>11. on_disk_states' \subseteq Listed(oldest_on_disk')
    BY <1>1, <1>2, <1>4, AppendSet DEF BInv, Bounded, PushBack, TypeOK
  <1>12. Bounded'
    BY <1>1, <1>10, <1>11 DEF Bounded
  <1> QED
    BY <1>1, <1>9, <1>12 DEF BInv

LEMMA PurgeBInv == ASSUME BInv, PurgeOldest PROVE BInv'
  <1> USE LimitAssumption
  <1>1. TypeOK
    BY DEF BInv
  <1>2. oldest_on_disk # <<>>
    BY <1>1 DEF PurgeOldest, DiskFull, is_memory_only, TypeOK
  <1>3. /\ Head(oldest_on_disk) \in Hash
        /\ Tail(oldest_on_disk) \in Seq(Hash)
        /\ Listed(oldest_on_disk) = {Head(oldest_on_disk)} \cup Listed(Tail(oldest_on_disk))
    BY <1>1, <1>2, TailListed, TailSet DEF TypeOK
  <1>4. TypeOK'
    BY <1>1, <1>3, SMTT(30) DEF TypeOK, PurgeOldest
  <1>5. on_disk_states' \subseteq Listed(oldest_on_disk')
    BY <1>3 DEF PurgeOldest, BInv, Bounded
  <1>6. Bounded'
    BY <1>5 DEF PurgeOldest, BInv, Bounded
  <1> QED
    BY <1>4, <1>6 DEF BInv, PurgeOldest

LEMMA InsertBInv == ASSUME BInv, FinishInsert PROVE BInv'
  <1> USE LimitAssumption
  <1>1. TypeOK /\ arg \in Hash /\ pc = "disk" /\ inserts + 1 \in 1 .. MaxInserts
    BY DEF BInv, TypeOK, FinishInsert
  <1>2. /\ present' = Append(present, arg)
        /\ states' = [states EXCEPT ![arg] = inserts + 1]
        /\ latest' = [latest EXCEPT ![arg] = inserts + 1]
        /\ inserts' = inserts + 1
        /\ pc' = "idle"
        /\ arg' = NoHash
        /\ UNCHANGED <<on_disk_states, in_memory_limit, oldest_on_disk, files, writes, failed>>
    BY DEF FinishInsert, PushBack, Stored, disk
  <1>3. /\ present' \in Seq(Hash)
        /\ Len(present') = Len(present) + 1
        /\ Listed(present') = Listed(present) \cup {arg}
    BY <1>1, <1>2, AppendSet DEF TypeOK
  <1>4. TypeOK'
    BY <1>1, <1>2, <1>3 DEF TypeOK
  <1>5. Len(present') <= in_memory_limit'
    BY <1>1, <1>2, <1>3 DEF BInv, TypeOK
  <1>6. \A h \in Hash : states'[h] # 0 => h \in Listed(present')
    BY <1>1, <1>2, <1>3 DEF BInv, Bounded, TypeOK
  <1>7. ~DiskFull'
    BY <1>2 DEF DiskFull, FinishInsert, is_memory_only
  <1>8. Bounded'
    BY <1>2, <1>5, <1>6, <1>7 DEF BInv, Bounded
  <1> QED
    BY <1>2, <1>4, <1>8 DEF BInv

LEMMA NextBInv == BInv /\ [Next]_vars => BInv'
  <1> SUFFICES ASSUME BInv, [Next]_vars PROVE BInv'
    OBVIOUS
  <1> USE LimitAssumption
  <1>t. TypeOK
    BY DEF BInv
  <1>1. ASSUME NEW h \in Hash, Insert(h) PROVE BInv'
    <2>1. Decreased(in_memory_limit) \in Nat
      BY <1>t DEF Decreased, Larger, min_in_memory_limit, Smaller, TypeOK
    <2>2. TypeOK'
      BY <1>1, <1>t, <2>1 DEF Insert, TypeOK, disk
    <2>3. Bounded'
      BY <1>1 DEF Insert, BInv, Bounded, disk
    <2> QED
      BY <1>1, <1>t, <2>2, <2>3 DEF BInv, Insert, TypeOK
  <1>2. CASE UpdateIntervalMineBlockTime
    <2>1. TypeOK'
      BY <1>2, <1>t DEF UpdateIntervalMineBlockTime, TypeOK, disk
    <2>2. Bounded'
      BY <1>2 DEF UpdateIntervalMineBlockTime, BInv, Bounded, disk
    <2> QED
      BY <1>2, <2>1, <2>2 DEF BInv, UpdateIntervalMineBlockTime
  <1>3. CASE Clear
    <2>1. TypeOK'
      BY <1>3, <1>t DEF Clear, TypeOK
    <2>2. Bounded'
      BY <1>3, <1>t, ListedEmpty DEF Clear, Bounded, DiskFull, is_memory_only, TypeOK
    <2> QED
      BY <1>3, <2>1, <2>2 DEF BInv, Clear
  <1>4. CASE EvictOldest
    BY <1>4, EvictBInv
  <1>5. CASE MemoryEnforced
    <2>1. TypeOK'
      BY <1>5, <1>t DEF MemoryEnforced, TypeOK, memory, disk
    <2>2. Bounded'
      BY <1>5 DEF MemoryEnforced, BInv, Bounded, memory, disk
    <2> QED
      BY <1>5, <1>t, <2>1, <2>2 DEF BInv, MemoryEnforced, MemoryFull, memory, TypeOK
  <1>6. CASE PurgeOldest
    BY <1>6, PurgeBInv
  <1>7. CASE FinishInsert
    BY <1>7, InsertBInv
  <1>8. CASE FinishUpdate
    <2>1. TypeOK'
      BY <1>8, <1>t DEF FinishUpdate, TypeOK, memory, disk
    <2>2. Bounded'
      BY <1>8, <1>t DEF FinishUpdate, BInv, Bounded, memory, disk, DiskFull, TypeOK
    <2> QED
      BY <1>8, <2>1, <2>2 DEF BInv, FinishUpdate
  <1>9. ASSUME NEW w \in writes, WriteTask(w) \/ WriteFails(w) PROVE BInv'
    <2>1. w[1] \in Hash /\ w[2] \in 0 .. MaxInserts
      BY <1>9, <1>t DEF TypeOK
    <2>2. /\ files' \in [Hash -> 0 .. MaxInserts]
          /\ writes' \subseteq writes
          /\ failed' \subseteq failed \cup writes
      BY <1>9, <1>t, <2>1 DEF TypeOK, WriteTask, WriteFails
    <2>3. UNCHANGED <<memory, pc, arg, inserts, latest>>
      BY <1>9 DEF WriteTask, WriteFails
    <2>4. TypeOK'
      BY <1>t, <2>2, <2>3 DEF TypeOK, memory
    <2>5. Bounded'
      BY <2>3 DEF BInv, Bounded, memory, DiskFull
    <2> QED
      BY <2>3, <2>4, <2>5 DEF BInv, memory
  <1>10. CASE UNCHANGED vars
    <2>1. TypeOK'
      BY <1>10, <1>t DEF vars, memory, disk, TypeOK
    <2>2. Bounded'
      BY <1>10 DEF vars, memory, disk, BInv, Bounded, DiskFull
    <2> QED
      BY <1>10, <2>1, <2>2 DEF BInv, vars, memory
  <1> QED
    BY <1>1, <1>2, <1>3, <1>4, <1>5, <1>6, <1>7, <1>8, <1>9, <1>10
       DEF Next, LockStep

(* The limits hold after every operation, whatever hashes are inserted     *)
(* again: enforce_limits and insert of storage.rs.                         *)
THEOREM HistoryBounded == Spec => []Bounded
  <1>1. BInv => Bounded
    BY DEF BInv
  <1> QED
    BY InitBInv, NextBInv, <1>1, PTL DEF Spec

(* Every variable keeps its type.                                          *)
THEOREM StatesTypeCorrect == Spec => []TypeOK
  <1>1. BInv => TypeOK
    BY DEF BInv
  <1> QED
    BY InitBInv, NextBInv, <1>1, PTL DEF Spec

-----------------------------------------------------------------------------
(* Where a hash is inserted only once, the two queues one after the other  *)
(* list the held states in the order of their inserts, and every other     *)
(* state that was inserted is older than all of them.                      *)
Sorted(q) == \A i, j \in 1 .. Len(q) : i < j => latest[q[i]] < latest[q[j]]

OInv ==
    /\ \A h \in Hash : latest[h] <= inserts
    /\ \A h \in Hash : states[h] # 0 <=> h \in Listed(present)
    /\ on_disk_states = Listed(oldest_on_disk)
    /\ is_memory_only => oldest_on_disk = <<>>
    /\ Sorted(present)
    /\ Sorted(oldest_on_disk)
    /\ \A g \in Listed(oldest_on_disk), h \in Listed(present) : latest[g] < latest[h]
    /\ \A h \in Listed(present) \cup Listed(oldest_on_disk) : latest[h] > 0
    /\ \A h \in Hash, g \in Listed(present) \cup Listed(oldest_on_disk) :
          h \notin Listed(present) \cup Listed(oldest_on_disk) => latest[h] < latest[g]
    /\ pc # "idle" /\ arg # NoHash => latest[arg] = 0

\* The first of a sorted queue is older than the rest.
LEMMA SortedTail ==
    ASSUME NEW q \in Seq(Hash), q # <<>>, Sorted(q), latest \in [Hash -> Nat]
    PROVE  /\ Sorted(Tail(q))
           /\ \A h \in Listed(Tail(q)) : latest[Head(q)] < latest[h]
           /\ Head(q) \notin Listed(Tail(q))
           /\ Head(q) \in Listed(q)
           /\ Listed(Tail(q)) \subseteq Listed(q)
  <1>1. /\ Len(q) \in Nat \ {0}
        /\ Len(Tail(q)) = Len(q) - 1
        /\ Head(q) = q[1]
        /\ Head(q) \in Hash
        /\ \A i \in 1 .. Len(q) - 1 : Tail(q)[i] = q[i + 1]
        /\ Listed(q) = {Head(q)} \cup Listed(Tail(q))
    BY TailListed, TailSet
  <1>2. Sorted(Tail(q))
    <2> SUFFICES ASSUME NEW i \in 1 .. Len(Tail(q)), NEW j \in 1 .. Len(Tail(q)), i < j
                 PROVE  latest[Tail(q)[i]] < latest[Tail(q)[j]]
      BY DEF Sorted
    <2>1. /\ i + 1 \in 1 .. Len(q)
          /\ j + 1 \in 1 .. Len(q)
          /\ i + 1 < j + 1
          /\ Tail(q)[i] = q[i + 1]
          /\ Tail(q)[j] = q[j + 1]
      BY <1>1
    <2> QED
      BY <2>1 DEF Sorted
  <1>3. ASSUME NEW h \in Listed(Tail(q)) PROVE latest[Head(q)] < latest[h]
    <2>1. PICK i \in 1 .. Len(Tail(q)) : h = Tail(q)[i]
      BY DEF Listed
    <2>2. /\ i + 1 \in 1 .. Len(q)
          /\ 1 \in 1 .. Len(q)
          /\ 1 < i + 1
          /\ h = q[i + 1]
      BY <1>1, <2>1
    <2> QED
      BY <1>1, <2>2 DEF Sorted
  <1>4. Head(q) \notin Listed(Tail(q))
    <2>1. ~(latest[Head(q)] < latest[Head(q)])
      BY <1>1
    <2> QED
      BY <1>3, <2>1
  <1> QED
    BY <1>1, <1>2, <1>3, <1>4

\* A hash newer than all listed ones can go to the end.
LEMMA SortedAppend ==
    ASSUME NEW q \in Seq(Hash), NEW x \in Hash, Sorted(q),
           \A h \in Listed(q) : latest[h] < latest[x]
    PROVE  Sorted(Append(q, x))
  <1> SUFFICES ASSUME NEW i \in 1 .. Len(Append(q, x)), NEW j \in 1 .. Len(Append(q, x)), i < j
               PROVE  latest[Append(q, x)[i]] < latest[Append(q, x)[j]]
    BY DEF Sorted
  <1>1. Len(q) \in Nat /\ i \in 1 .. Len(q) /\ Append(q, x)[i] = q[i]
    BY AppendSet
  <1>2. q[i] \in Listed(q)
    BY <1>1 DEF Listed
  <1>3. CASE j = Len(q) + 1
    BY <1>1, <1>2, <1>3, AppendSet
  <1>4. CASE j # Len(q) + 1
    <2>1. j \in 1 .. Len(q) /\ Append(q, x)[j] = q[j]
      BY <1>1, <1>4, AppendSet
    <2> QED
      BY <1>1, <2>1 DEF Sorted
  <1> QED
    BY <1>3, <1>4

LEMMA InitOInv == Init => OInv
  BY LimitAssumption, ListedEmpty DEF Init, OInv, Sorted

LEMMA EvictOInv == ASSUME BInv, OInv, EvictOldest PROVE OInv'
  <1> USE LimitAssumption
  <1> DEFINE popped == IF present = <<>> THEN {} ELSE {Head(present)}
             toDisk == IF is_memory_only THEN {} ELSE {h \in popped : states[h] # 0}
  <1>1. /\ pc = "memory"
        /\ present' = PopFront
        /\ states' = [h \in Hash |-> IF h \in popped THEN 0 ELSE states[h]]
        /\ on_disk_states' = on_disk_states \cup toDisk
        /\ oldest_on_disk' = IF toDisk = {} THEN oldest_on_disk
                             ELSE PushBack(oldest_on_disk, Head(present))
        /\ UNCHANGED <<pc, arg, inserts, latest>>
    BY DEF EvictOldest
  <1>2. TypeOK /\ latest \in [Hash -> Nat] /\ present \in Seq(Hash) /\ oldest_on_disk \in Seq(Hash)
    BY DEF BInv, TypeOK
  <1>3. CASE present = <<>>
    <2>1. present' = present /\ states' = states /\ toDisk = {}
      BY <1>1, <1>2, <1>3 DEF PopFront, TypeOK
    <2>2. on_disk_states' = on_disk_states /\ oldest_on_disk' = oldest_on_disk
      BY <1>1, <2>1
    <2> QED
      BY <1>1, <2>1, <2>2 DEF OInv, Sorted, is_memory_only
  <1>4. CASE present # <<>>
    <2> DEFINE x == Head(present)
    <2>1. /\ present' = Tail(present)
          /\ popped = {x}
          /\ x \in Hash
          /\ Tail(present) \in Seq(Hash)
          /\ Listed(present) = {x} \cup Listed(Tail(present))
      BY <1>1, <1>2, <1>4, TailListed, TailSet DEF PopFront
    <2>2. /\ Sorted(Tail(present))
          /\ \A h \in Listed(Tail(present)) : latest[x] < latest[h]
          /\ x \notin Listed(Tail(present))
      BY <1>2, <1>4, SortedTail DEF OInv
    <2>3. states[x] # 0
      BY <2>1 DEF OInv
    <2>4. \A h \in Hash : states'[h] # 0 <=> h \in Listed(present')
      BY <1>1, <2>1, <2>2 DEF OInv
    <2>5. Listed(present) \subseteq Hash /\ Listed(oldest_on_disk) \subseteq Hash
      BY <1>2, ListedType
    <2>6. CASE is_memory_only
      <3>1. /\ on_disk_states' = on_disk_states
            /\ oldest_on_disk' = oldest_on_disk
            /\ oldest_on_disk = <<>>
            /\ Listed(oldest_on_disk) = {}
        BY <1>1, <2>6, ListedEmpty DEF OInv
      <3>2. ASSUME NEW h \in Hash, NEW g \in Listed(present'), h \notin Listed(present')
            PROVE  latest[h] < latest[g]
        BY <2>1, <2>2, <3>1, <3>2 DEF OInv
      <3>3. Sorted(present)' /\ Sorted(oldest_on_disk)'
        BY <1>1, <2>1, <2>2, <3>1 DEF OInv, Sorted
      <3> QED
        BY <1>1, <2>1, <2>4, <3>1, <3>2, <3>3 DEF OInv, is_memory_only, Sorted
    <2>7. CASE ~is_memory_only
      <3>1. /\ on_disk_states' = on_disk_states \cup {x}
            /\ oldest_on_disk' = Append(oldest_on_disk, x)
        BY <1>1, <2>1, <2>3, <2>7 DEF PushBack
      <3>2. Listed(oldest_on_disk') = Listed(oldest_on_disk) \cup {x}
        BY <1>2, <2>1, <3>1, AppendSet
      <3>3. Sorted(Append(oldest_on_disk, x))
        BY <1>2, <2>1, SortedAppend DEF OInv
      <3>4. Listed(present') \cup Listed(oldest_on_disk')
              = Listed(present) \cup Listed(oldest_on_disk)
        BY <2>1, <3>2
      <3>5. \A g \in Listed(oldest_on_disk'), h \in Listed(present') : latest[g] < latest[h]
        BY <2>1, <2>2, <3>2 DEF OInv
      <3>6. Sorted(present)' /\ Sorted(oldest_on_disk)'
        BY <1>1, <2>1, <2>2, <3>1, <3>3 DEF Sorted
      <3> QED
        BY <1>1, <2>4, <2>7, <3>1, <3>2, <3>4, <3>5, <3>6 DEF OInv, is_memory_only
    <2> QED
      BY <2>6, <2>7
  <1> QED
    BY <1>3, <1>4

LEMMA PurgeOInv == ASSUME BInv, OInv, PurgeOldest PROVE OInv'
  <1> USE LimitAssumption
  <1>1. TypeOK /\ latest \in [Hash -> Nat] /\ oldest_on_disk \in Seq(Hash) /\ present \in Seq(Hash)
    BY DEF BInv, TypeOK
  <1>2. oldest_on_disk # <<>> /\ ~is_memory_only
    BY <1>1 DEF PurgeOldest, DiskFull, is_memory_only, TypeOK
  <1> DEFINE x == Head(oldest_on_disk)
  <1>3. /\ oldest_on_disk' = Tail(oldest_on_disk)
        /\ on_disk_states' = on_disk_states \ {x}
        /\ UNCHANGED <<states, present, pc, arg, inserts, latest>>
    BY DEF PurgeOldest
  <1>4. /\ Sorted(Tail(oldest_on_disk))
        /\ \A h \in Listed(Tail(oldest_on_disk)) : latest[x] < latest[h]
        /\ x \notin Listed(Tail(oldest_on_disk))
        /\ x \in Hash
        /\ Listed(oldest_on_disk) = {x} \cup Listed(Tail(oldest_on_disk))
    BY <1>1, <1>2, SortedTail, TailListed, TailSet DEF OInv
  <1>5. on_disk_states' = Listed(oldest_on_disk')
    BY <1>3, <1>4 DEF OInv
  <1>6. \A h \in Listed(present) : latest[x] < latest[h]
    BY <1>4 DEF OInv
  <1>7. ASSUME NEW h \in Hash, NEW g \in Listed(present') \cup Listed(oldest_on_disk'),
               h \notin Listed(present') \cup Listed(oldest_on_disk')
        PROVE  latest'[h] < latest'[g]
    BY <1>3, <1>4, <1>6, <1>7 DEF OInv
  <1>8. Sorted(present)' /\ Sorted(oldest_on_disk)'
    BY <1>3, <1>4 DEF OInv, Sorted
  <1>9. /\ \A h \in Hash : latest'[h] <= inserts'
        /\ \A h \in Hash : states'[h] # 0 <=> h \in Listed(present')
        /\ pc' # "idle" /\ arg' # NoHash => latest'[arg'] = 0
    BY <1>3 DEF OInv
  <1>10. \A g \in Listed(oldest_on_disk'), h \in Listed(present') : latest'[g] < latest'[h]
    BY <1>3, <1>4 DEF OInv
  <1>11. \A h \in Listed(present') \cup Listed(oldest_on_disk') : latest'[h] > 0
    BY <1>3, <1>4 DEF OInv
  <1> QED
    BY <1>2, <1>5, <1>7, <1>8, <1>9, <1>10, <1>11 DEF OInv, is_memory_only

LEMMA InsertOInv == ASSUME BInv, OInv, FinishInsert PROVE OInv'
  <1> USE LimitAssumption
  <1>1. TypeOK /\ latest \in [Hash -> Nat] /\ inserts \in Nat
    BY DEF BInv, TypeOK
  <1>2. oldest_on_disk \in Seq(Hash) /\ present \in Seq(Hash) /\ states \in [Hash -> Nat]
    BY DEF BInv, TypeOK
  <1>3. arg \in Hash /\ latest[arg] = 0
    BY <1>1 DEF FinishInsert, TypeOK, OInv
  <1>4. /\ present' = Append(present, arg)
        /\ states' = [states EXCEPT ![arg] = inserts + 1]
        /\ latest' = [latest EXCEPT ![arg] = inserts + 1]
        /\ inserts' = inserts + 1
        /\ pc' = "idle"
        /\ UNCHANGED <<on_disk_states, oldest_on_disk>>
    BY DEF FinishInsert, PushBack, Stored
  <1>5. Listed(present) \subseteq Hash /\ Listed(oldest_on_disk) \subseteq Hash
    BY <1>2, ListedType
  <1>6. arg \notin Listed(present) \cup Listed(oldest_on_disk)
    BY <1>3, <1>5 DEF OInv
  <1>7. /\ \A h \in Hash \ {arg} : latest'[h] = latest[h]
        /\ latest'[arg] = inserts + 1
        /\ \A h \in Hash \ {arg} : states'[h] = states[h]
        /\ states'[arg] = inserts + 1
    BY <1>1, <1>2, <1>3, <1>4
  <1>8. \A h \in Hash : latest[h] < inserts + 1
    BY <1>1 DEF OInv
  <1>9. Listed(present') = Listed(present) \cup {arg}
    BY <1>2, <1>3, <1>4, AppendSet
  <1>10. Sorted(oldest_on_disk)'
    <2>1. \A i \in 1 .. Len(oldest_on_disk) : latest'[oldest_on_disk[i]] = latest[oldest_on_disk[i]]
      BY <1>2, <1>6, <1>7 DEF Listed
    <2> QED
      BY <1>4, <2>1 DEF OInv, Sorted
  <1>11. Sorted(present)'
    <2>1. \A i \in 1 .. Len(present) : /\ latest'[present[i]] = latest[present[i]]
                                       /\ present[i] \in Hash
      BY <1>2, <1>6, <1>7 DEF Listed
    <2>2. /\ Len(present') = Len(present) + 1
          /\ Len(present) \in Nat
          /\ \A i \in 1 .. Len(present) : present'[i] = present[i]
          /\ present'[Len(present) + 1] = arg
      BY <1>2, <1>3, <1>4, AppendSet
    <2> SUFFICES ASSUME NEW i \in 1 .. Len(present'), NEW j \in 1 .. Len(present'), i < j
                 PROVE  latest'[present'[i]] < latest'[present'[j]]
      BY DEF Sorted
    <2>3. i \in 1 .. Len(present) /\ present'[i] = present[i]
      BY <2>2
    <2>4. CASE j = Len(present) + 1
      BY <1>7, <1>8, <2>1, <2>2, <2>3, <2>4
    <2>5. CASE j # Len(present) + 1
      <3>1. j \in 1 .. Len(present) /\ present'[j] = present[j]
        BY <2>2, <2>5
      <3> QED
        BY <2>1, <2>3, <3>1 DEF OInv, Sorted
    <2> QED
      BY <2>4, <2>5
  <1>12. /\ \A h \in Hash : latest'[h] <= inserts'
         /\ \A h \in Hash : states'[h] # 0 <=> h \in Listed(present')
    BY <1>1, <1>3, <1>4, <1>7, <1>8, <1>9 DEF OInv
  <1>13. \A g \in Listed(oldest_on_disk'), h \in Listed(present') : latest'[g] < latest'[h]
    BY <1>4, <1>5, <1>6, <1>7, <1>8, <1>9 DEF OInv
  <1>14. \A h \in Listed(present') \cup Listed(oldest_on_disk') : latest'[h] > 0
    BY <1>1, <1>4, <1>5, <1>6, <1>7, <1>9 DEF OInv
  <1>15. ASSUME NEW h \in Hash, NEW g \in Listed(present') \cup Listed(oldest_on_disk'),
                h \notin Listed(present') \cup Listed(oldest_on_disk')
         PROVE  latest'[h] < latest'[g]
    BY <1>4, <1>5, <1>6, <1>7, <1>8, <1>9, <1>15 DEF OInv
  <1> QED
    BY <1>4, <1>10, <1>11, <1>12, <1>13, <1>14, <1>15 DEF OInv, is_memory_only

LEMMA NextOInv == ~Reinsert /\ BInv /\ OInv /\ [Next]_vars => OInv'
  <1> SUFFICES ASSUME ~Reinsert, BInv, OInv, [Next]_vars PROVE OInv'
    OBVIOUS
  <1> USE LimitAssumption
  <1>1. ASSUME NEW h \in Hash, Insert(h) PROVE OInv'
    BY <1>1 DEF Insert, OInv, Sorted, is_memory_only
  <1>2. CASE UpdateIntervalMineBlockTime
    BY <1>2 DEF UpdateIntervalMineBlockTime, OInv, Sorted, is_memory_only
  <1>3. CASE Clear
    BY <1>3, ListedEmpty DEF Clear, OInv, Sorted, is_memory_only, BInv, TypeOK
  <1>4. CASE EvictOldest
    BY <1>4, EvictOInv
  <1>5. CASE MemoryEnforced
    BY <1>5 DEF MemoryEnforced, OInv, Sorted, is_memory_only, memory
  <1>6. CASE PurgeOldest
    BY <1>6, PurgeOInv
  <1>7. CASE FinishInsert
    BY <1>7, InsertOInv
  <1>8. CASE FinishUpdate
    BY <1>8 DEF FinishUpdate, OInv, Sorted, is_memory_only, memory
  <1>9. ASSUME NEW w \in writes, WriteTask(w) \/ WriteFails(w) PROVE OInv'
    BY <1>9 DEF WriteTask, WriteFails, OInv, Sorted, is_memory_only, memory
  <1>10. CASE UNCHANGED vars
    BY <1>10 DEF vars, OInv, Sorted, is_memory_only, memory
  <1> QED
    BY <1>1, <1>2, <1>3, <1>4, <1>5, <1>6, <1>7, <1>8, <1>9, <1>10
       DEF Next, LockStep

(* insert and enforce_limits remove the oldest state first, as long as the *)
(* chain never goes back to a block and mines on it again.                 *)
THEOREM RemovalInOrder == ASSUME ~Reinsert PROVE Spec => []OldestRemovedFirst
  <1>1. BInv /\ OInv => OldestRemovedFirst
    <2> SUFFICES ASSUME BInv, OInv, NEW old \in Hash, NEW new \in Hash,
                        latest[old] < latest[new], Held(old)
                 PROVE  Held(new)
      BY DEF OldestRemovedFirst
    <2>1. latest \in [Hash -> Nat]
      BY LimitAssumption DEF BInv, TypeOK
    <2>2. old \in Listed(present) \cup Listed(oldest_on_disk)
      BY DEF Held, OInv
    <2>3. new \in Listed(present) \cup Listed(oldest_on_disk)
      BY <2>1, <2>2 DEF OInv
    <2> QED
      BY <2>3 DEF Held, OInv
  <1>2. BInv /\ OInv /\ [Next]_vars => OInv'
    BY NextOInv
  <1> QED
    BY InitBInv, NextBInv, InitOInv, <1>1, <1>2, PTL DEF Spec

-----------------------------------------------------------------------------
(* The disk.  A state moves from memory to a task to a file and is never   *)
(* changed, so every copy of a hash's state is the one last inserted.      *)
DInv ==
    /\ \A h \in Hash : states[h] # 0 => states[h] = latest[h]
    /\ \A w \in writes : w[2] = latest[w[1]]
    /\ NothingLostOnDisk

LEMMA InitDInv == Init => DInv
  BY DEF Init, DInv, NothingLostOnDisk

\* A hash that is being inserted for the first time is on no way to the disk.
LEMMA NewHash ==
    ASSUME BInv, OInv, DInv, FinishInsert
    PROVE  /\ arg \in Hash
           /\ arg \notin on_disk_states
           /\ \A w \in writes : w[1] # arg
  <1>1. arg \in Hash /\ latest[arg] = 0
    BY DEF FinishInsert, BInv, TypeOK, OInv
  <1>2. arg \notin on_disk_states
    BY <1>1 DEF OInv
  <1>3. ASSUME NEW w \in writes PROVE w[1] # arg
    <2>1. w[2] \in 1 .. MaxInserts
      BY DEF BInv, TypeOK
    <2> QED
      BY <1>1, <2>1, LimitAssumption DEF DInv
  <1> QED
    BY <1>1, <1>2, <1>3

LEMMA NextDInv == BInv /\ OInv /\ DInv /\ [Next]_vars => DInv'
  <1> SUFFICES ASSUME BInv, OInv, DInv, [Next]_vars PROVE DInv'
    OBVIOUS
  <1> USE LimitAssumption
  <1>t. TypeOK
    BY DEF BInv
  <1>1. ASSUME NEW h \in Hash, Insert(h) PROVE DInv'
    BY <1>1 DEF Insert, DInv, NothingLostOnDisk, disk
  <1>2. CASE UpdateIntervalMineBlockTime
    BY <1>2 DEF UpdateIntervalMineBlockTime, DInv, NothingLostOnDisk, disk
  <1>3. CASE Clear
    BY <1>3 DEF Clear, DInv, NothingLostOnDisk
  <1>4. CASE EvictOldest
    <2> DEFINE popped == IF present = <<>> THEN {} ELSE {Head(present)}
               toDisk == IF is_memory_only THEN {} ELSE {h \in popped : states[h] # 0}
    <2>1. /\ states' = [h \in Hash |-> IF h \in popped THEN 0 ELSE states[h]]
          /\ on_disk_states' = on_disk_states \cup toDisk
          /\ writes' = writes \cup {<<h, states[h]>> : h \in toDisk}
          /\ UNCHANGED <<files, failed, latest>>
      BY <1>4 DEF EvictOldest, Spawned
    <2>2. popped \subseteq Hash /\ \A h \in toDisk : h \in popped /\ states[h] # 0
      BY <1>t, TailListed DEF TypeOK
    <2>3. \A h \in toDisk : h \in Hash /\ states[h] = latest[h]
      BY <2>2 DEF DInv
    <2> HIDE DEF toDisk, popped
    <2>4. \A h \in Hash : states'[h] # 0 => states'[h] = latest'[h]
      BY <2>1 DEF DInv
    <2>5. \A w \in writes' : w[2] = latest'[w[1]]
      BY <2>1, <2>3 DEF DInv
    <2>6. ASSUME NEW h \in on_disk_states'
          PROVE  files'[h] = latest'[h] \/ <<h, latest'[h]>> \in writes' \cup failed'
      <3>1. CASE h \in toDisk
        BY <2>1, <2>3, <3>1
      <3>2. CASE h \in on_disk_states
        BY <2>1, <3>2 DEF DInv, NothingLostOnDisk
      <3> QED
        BY <2>1, <2>6, <3>1, <3>2
    <2> QED
      BY <2>4, <2>5, <2>6 DEF DInv, NothingLostOnDisk
  <1>5. CASE MemoryEnforced
    BY <1>5 DEF MemoryEnforced, DInv, NothingLostOnDisk, memory, disk
  <1>6. CASE PurgeOldest
    <2>1. /\ on_disk_states' = on_disk_states \ {Head(oldest_on_disk)}
          /\ files' = [files EXCEPT ![Head(oldest_on_disk)] = 0]
          /\ UNCHANGED <<states, writes, failed, latest>>
      BY <1>6 DEF PurgeOldest
    <2>2. \A h \in on_disk_states' : files'[h] = files[h] /\ h \in on_disk_states
      BY <1>t, <2>1 DEF TypeOK
    <2> QED
      BY <2>1, <2>2 DEF DInv, NothingLostOnDisk
  <1>7. CASE FinishInsert
    <2>1. /\ arg \in Hash
          /\ arg \notin on_disk_states
          /\ \A w \in writes : w[1] # arg
      BY <1>7, NewHash
    <2>2. /\ states' = [states EXCEPT ![arg] = inserts + 1]
          /\ latest' = [latest EXCEPT ![arg] = inserts + 1]
          /\ UNCHANGED <<on_disk_states, files, writes, failed>>
      BY <1>7 DEF FinishInsert, Stored, disk
    <2>3. \A h \in Hash \ {arg} : states'[h] = states[h] /\ latest'[h] = latest[h]
      BY <1>t, <2>2 DEF TypeOK
    <2>4. states'[arg] = latest'[arg]
      BY <1>t, <2>1, <2>2 DEF TypeOK
    <2>5. \A h \in on_disk_states : latest'[h] = latest[h]
      BY <1>t, <2>1, <2>3 DEF TypeOK
    <2>6. \A w \in writes : latest'[w[1]] = latest[w[1]]
      BY <1>t, <2>1, <2>3 DEF TypeOK
    <2> QED
      BY <2>2, <2>3, <2>4, <2>5, <2>6 DEF DInv, NothingLostOnDisk
  <1>8. CASE FinishUpdate
    BY <1>8 DEF FinishUpdate, DInv, NothingLostOnDisk, memory, disk
  <1>9. ASSUME NEW w \in writes, WriteTask(w) PROVE DInv'
    <2>1. /\ files' = [files EXCEPT ![w[1]] = w[2]]
          /\ writes' = writes \ {w}
          /\ UNCHANGED <<states, on_disk_states, failed, latest>>
      BY <1>9 DEF WriteTask, memory
    <2>2. w[1] \in Hash /\ w[2] = latest[w[1]] /\ w = <<w[1], w[2]>>
      BY <1>9, <1>t DEF TypeOK, DInv
    <2>3. files'[w[1]] = latest[w[1]] /\ \A h \in Hash \ {w[1]} : files'[h] = files[h]
      BY <1>t, <2>1, <2>2 DEF TypeOK
    <2>4. ASSUME NEW h \in on_disk_states'
          PROVE  files'[h] = latest'[h] \/ <<h, latest'[h]>> \in writes' \cup failed'
      <3>1. CASE h = w[1]
        BY <2>1, <2>3, <3>1
      <3>2. CASE h # w[1]
        <4>1. h \in Hash /\ files'[h] = files[h] /\ <<h, latest[h]>> # w
          BY <1>t, <2>1, <2>3, <3>2 DEF TypeOK
        <4> QED
          BY <2>1, <4>1 DEF DInv, NothingLostOnDisk
      <3> QED
        BY <3>1, <3>2
    <2> QED
      BY <2>1, <2>4 DEF DInv, NothingLostOnDisk
  <1>10. ASSUME NEW w \in writes, WriteFails(w) PROVE DInv'
    BY <1>10 DEF WriteFails, DInv, NothingLostOnDisk, memory
  <1>11. CASE UNCHANGED vars
    BY <1>11 DEF vars, DInv, NothingLostOnDisk, memory, disk
  <1> QED
    BY <1>1, <1>2, <1>3, <1>4, <1>5, <1>6, <1>7, <1>8, <1>9, <1>10, <1>11
       DEF Next, LockStep

(* No order of spawned writes, purges and clears loses a state the index   *)
(* lists: DiskStateCache::write and enforce_limits, as long as no hash is  *)
(* inserted twice.                                                         *)
THEOREM DiskHolds == ASSUME ~Reinsert PROVE Spec => []NothingLostOnDisk
  <1>1. DInv => NothingLostOnDisk
    BY DEF DInv
  <1>2. BInv /\ OInv /\ [Next]_vars => OInv'
    BY NextOInv
  <1> QED
    BY InitBInv, NextBInv, InitOInv, InitDInv, NextDInv, <1>1, <1>2, PTL DEF Spec

-----------------------------------------------------------------------------
(* TimeManager                                                             *)

LEMMA ModSmall == ASSUME NEW x \in 0 .. U64 - 1 PROVE AsU64(x) = x
  BY TimeAssumption DEF AsU64

LEMMA ModRange == ASSUME NEW x \in Int PROVE AsU64(x) \in 0 .. U64 - 1
  BY TimeAssumption DEF AsU64

\* The timestamp computed is a u64, and not earlier than the last one that
\* was read, if that one is not the largest u64.
LEMMA ComputedNotEarlier ==
    ASSUME TimeTypeOK
    PROVE  /\ Candidate \in 0 .. U64 - 1
           /\ NotEarlier(Candidate) \in 0 .. U64 - 1
           /\ local.last + 1 < U64 => NotEarlier(Candidate) >= local.last
  <1> USE TimeAssumption
  <1>1. /\ local.last \in 0 .. U64 - 1
        /\ local.now \in 0 .. MaxNow
        /\ local.now + offset \in Int
    BY DEF TimeTypeOK
  <1>2. Candidate \in 0 .. U64 - 1
    <2>1. CASE next_exact_timestamp # None
      BY <2>1 DEF Candidate, TimeTypeOK
    <2>2. CASE next_exact_timestamp = None /\ interval # None
      <3>1. interval \in 0 .. U64 - 1
        BY <2>2 DEF TimeTypeOK
      <3>2. SaturatingAdd(local.last, interval) \in 0 .. U64 - 1
        BY <1>1, <3>1 DEF SaturatingAdd
      <3> QED
        BY <2>2, <3>2 DEF Candidate
    <2>3. CASE next_exact_timestamp = None /\ interval = None
      BY <1>1, <2>3, ModRange DEF Candidate
    <2> QED
      BY <2>1, <2>2, <2>3
  <1>3. AsU64(local.last + 1) \in 0 .. U64 - 1
    BY <1>1, ModRange
  <1>4. local.last + 1 < U64 => AsU64(local.last + 1) = local.last + 1
    BY <1>1, ModSmall
  <1> QED
    BY <1>1, <1>2, <1>3, <1>4 DEF NotEarlier

-----------------------------------------------------------------------------
(* Unless the time was reset, the last timestamp is that of the last block *)
(* and so is the one next_timestamp has read; what it has computed is not  *)
(* earlier.  This links the reads of compute_next_timestamp to the write   *)
(* that comes three lock operations later.                                 *)
Linked ==
    /\ wasReset \/ block = last_timestamp
    /\ clock_pc = "compute" => /\ local.last <= MaxLast
                               /\ wasReset \/ local.last = block
    /\ clock_pc \in {"take", "offset", "last"} => wasReset \/ local.next >= block

TInv == TimeTypeOK /\ (MaxLast + 1 < U64 => Linked)

LEMMA InitTInv == TimeInit => TInv
  <1> SUFFICES ASSUME TimeInit PROVE TInv
    OBVIOUS
  <1> USE TimeAssumption
  <1>1. PICK start \in Resets \cup {0} :
          last_timestamp = start /\ offset = start - now /\ block = start
    BY DEF TimeInit
  <1>2. now \in 0 .. MaxNow /\ clock_pc = "idle" /\ wasReset = FALSE
    BY DEF TimeInit
  <1>3. local \in [now : 0 .. MaxNow, last : 0 .. U64 - 1, next : 0 .. U64 - 1,
                  offset : Int \cup {None}]
    BY DEF TimeInit, NoLocals
  <1>4. request \in [Requests -> [at : {"none", "exact", "offset", "take"},
                                 timestamp : 0 .. U64 - 1, now : 0 .. MaxNow]]
    BY DEF TimeInit, NoRequest
  <1>5. TimeTypeOK
    <2>1. /\ offset \in Int
          /\ last_timestamp \in 0 .. U64 - 1
          /\ block \in 0 .. U64 - 1
      BY <1>1, <1>2
    <2>2. /\ next_exact_timestamp = None
          /\ interval = None
      BY DEF TimeInit
    <2> QED
      BY <1>2, <1>3, <1>4, <2>1, <2>2, Zenon DEF TimeTypeOK
  <1>6. Linked
    BY <1>1, <1>2 DEF Linked
  <1> QED
    BY <1>5, <1>6 DEF TInv

\* The requests leave pc, local and block alone.
LEMMA RequestTInv ==
    ASSUME TInv, NEW r \in Requests, TimeRequest(r)
    PROVE  TInv'
  <1> USE TimeAssumption DEF TInv
  <1>1. UNCHANGED <<now, clock_pc, local, block>>
    BY DEF TimeRequest, IncreaseTime, SetBlockTimestampInterval, RemoveBlockTimestampInterval,
           SetNextBlockTimestamp, ReplaceExact, ResetLast, ResetOffset, ResetExact, fields,
           history
  <1>2. offset' \in Int
    BY DEF TimeTypeOK, TimeRequest, IncreaseTime, SetBlockTimestampInterval,
           RemoveBlockTimestampInterval, SetNextBlockTimestamp, ReplaceExact, ResetLast,
           ResetOffset, ResetExact, fields
  <1>3. /\ next_exact_timestamp' \in 0 .. U64 - 1 \cup {None}
        /\ interval' \in Seconds \cup {None}
    BY DEF TimeTypeOK, TimeRequest, IncreaseTime, SetBlockTimestampInterval,
           RemoveBlockTimestampInterval, SetNextBlockTimestamp, ReplaceExact, ResetLast,
           ResetOffset, ResetExact, fields
  <1>4. /\ last_timestamp' \in 0 .. U64 - 1
        /\ wasReset' \in BOOLEAN
        /\ wasReset' \/ (wasReset' = wasReset /\ last_timestamp' = last_timestamp)
    BY DEF TimeTypeOK, TimeRequest, IncreaseTime, SetBlockTimestampInterval,
           RemoveBlockTimestampInterval, SetNextBlockTimestamp, ReplaceExact, ResetLast,
           ResetOffset, ResetExact, fields, history
  <1>5. request' \in [Requests -> [at : {"none", "exact", "offset", "take"},
                                  timestamp : 0 .. U64 - 1, now : 0 .. MaxNow]]
    <2> DEFINE R == [at : {"none", "exact", "offset", "take"},
                     timestamp : 0 .. U64 - 1, now : 0 .. MaxNow]
    <2>1. request \in [Requests -> R] /\ NoRequest \in R
      BY DEF TimeTypeOK, NoRequest
    <2>2. CASE \E t \in Timestamps : SetNextBlockTimestamp(r, t)
      BY <2>1, <2>2 DEF SetNextBlockTimestamp, TimeTypeOK
    <2>3. CASE \E t \in Resets : ResetLast(r, t)
      BY <2>1, <2>3 DEF ResetLast, TimeTypeOK
    <2>4. CASE ResetOffset(r)
      BY <2>1, <2>4 DEF ResetOffset
    <2>5. CASE ReplaceExact(r) \/ ResetExact(r)
      BY <2>1, <2>5 DEF ReplaceExact, ResetExact
    <2>6. CASE UNCHANGED request
      BY <2>1, <2>6
    <2> QED
      BY <2>2, <2>3, <2>4, <2>5, <2>6
         DEF TimeRequest, IncreaseTime, SetBlockTimestampInterval, RemoveBlockTimestampInterval
  <1>6. TimeTypeOK'
    BY <1>1, <1>2, <1>3, <1>4, <1>5 DEF TimeTypeOK
  <1>7. ASSUME Linked PROVE Linked'
    BY <1>1, <1>4, <1>7 DEF Linked, TimeTypeOK
  <1> QED
    BY <1>6, <1>7

LEMMA NextTInv == TInv /\ [TimeNext]_timeVars => TInv'
  <1> SUFFICES ASSUME TInv, [TimeNext]_timeVars PROVE TInv'
    OBVIOUS
  <1> USE TimeAssumption
  <1>t. TimeTypeOK
    BY DEF TInv
  <1>1. CASE Tick
    BY <1>1 DEF TInv, TimeTypeOK, Linked, Tick, fields, history
  <1>2. CASE \E r \in Requests : TimeRequest(r)
    BY <1>2, RequestTInv
  <1>3. CASE ReadLast
    <2>1. local' = [now |-> now, last |-> last_timestamp, next |-> 0, offset |-> None]
      BY <1>3 DEF ReadLast, NoLocals
    <2> QED
      BY <1>3, <2>1 DEF TInv, TimeTypeOK, Linked, ReadLast, fields, history
  <1>4. CASE ComputeNextTimestamp
    <2> DEFINE n == NotEarlier(Candidate)
    <2>1. /\ n \in 0 .. U64 - 1
          /\ local.last + 1 < U64 => n >= local.last
      BY <1>t, ComputedNotEarlier
    <2> HIDE DEF n
    <2>2. PICK o \in Int \cup {None} :
            local' = [now |-> local.now, last |-> local.last, next |-> n, offset |-> o]
      <3>1. local.now \in Int
        BY <1>t DEF TimeTypeOK
      <3>2. (IF next_exact_timestamp = None THEN None ELSE n - local.now) \in Int \cup {None}
        BY <2>1, <3>1
      <3> QED
        BY <1>4, <3>2, Zenon DEF ComputeNextTimestamp, n
    <2>3. /\ local'.next = n
          /\ local' \in [now : 0 .. MaxNow, last : 0 .. U64 - 1, next : 0 .. U64 - 1,
                         offset : Int \cup {None}]
      BY <1>t, <2>1, <2>2 DEF TimeTypeOK
    <2>4. clock_pc = "compute" /\ clock_pc' = "take" /\ UNCHANGED <<now, fields, request, history>>
      BY <1>4 DEF ComputeNextTimestamp
    <2>5. TimeTypeOK'
      BY <1>t, <2>3, <2>4 DEF TimeTypeOK, fields, history
    <2>6. ASSUME MaxLast + 1 < U64 PROVE Linked'
      BY <1>t, <2>1, <2>3, <2>4, <2>6 DEF TInv, Linked, fields, history, TimeTypeOK
    <2> QED
      BY <2>5, <2>6 DEF TInv
  <1>5. CASE TakeNextExact
    BY <1>5 DEF TInv, TimeTypeOK, Linked, TakeNextExact, history
  <1>6. CASE StoreOffset
    BY <1>6 DEF TInv, TimeTypeOK, Linked, StoreOffset, history
  <1>7. CASE StoreLast
    <2>1. /\ clock_pc' = "idle"
          /\ last_timestamp' = local.next
          /\ block' = local.next
          /\ wasReset' = FALSE
          /\ local' = NoLocals
          /\ UNCHANGED <<now, offset, next_exact_timestamp, interval, request>>
      BY <1>7 DEF StoreLast
    <2>2. local.next \in 0 .. U64 - 1
      BY <1>t DEF TimeTypeOK
    <2>3. local' \in [now : 0 .. MaxNow, last : 0 .. U64 - 1, next : 0 .. U64 - 1,
                     offset : Int \cup {None}]
      BY <2>1 DEF NoLocals
    <2>4. TimeTypeOK'
      BY <1>t, <2>1, <2>2, <2>3 DEF TimeTypeOK
    <2>5. Linked'
      BY <2>1 DEF Linked
    <2> QED
      BY <2>4, <2>5 DEF TInv
  <1>8. CASE UNCHANGED timeVars
    BY <1>8 DEF TInv, TimeTypeOK, Linked, timeVars, fields, history
  <1> QED
    BY <1>1, <1>2, <1>3, <1>4, <1>5, <1>6, <1>7, <1>8 DEF TimeNext

(* Every variable keeps its type: in particular last_timestamp and the     *)
(* timestamp computed stay within u64.                                     *)
THEOREM TimeTypeCorrect == TimeSpec => []TimeTypeOK
  <1>1. TInv => TimeTypeOK
    BY DEF TInv
  <1> QED
    BY InitTInv, NextTInv, <1>1, PTL DEF TimeSpec

(* compute_next_timestamp's comparison makes block timestamps monotone     *)
(* whatever requests arrive between its reads and next_timestamp's writes, *)
(* as long as no block has the largest u64 as its timestamp.               *)
THEOREM TimeMonotone == ASSUME MaxLast + 1 < U64 PROVE TimeSpec => NeverBackwards
  <1>1. TInv /\ [TimeNext]_timeVars => [block' < block => wasReset]_timeVars
    <2> SUFFICES ASSUME TInv, TimeNext, block' < block PROVE wasReset
      OBVIOUS
    <2>1. block \in Int /\ TimeTypeOK /\ Linked
      BY TimeAssumption DEF TInv, TimeTypeOK
    <2>2. CASE StoreLast
      BY <2>1, <2>2 DEF StoreLast, Linked, TimeTypeOK
    <2>3. CASE block' = block
      BY <2>1, <2>3
    <2> QED
      BY <2>2, <2>3 DEF TimeNext, Tick, TimeRequest, IncreaseTime, SetBlockTimestampInterval,
         RemoveBlockTimestampInterval, SetNextBlockTimestamp, ReplaceExact, ResetLast,
         ResetOffset, ResetExact, ReadLast, ComputeNextTimestamp, TakeNextExact, StoreOffset,
         history
  <1> QED
    BY InitTInv, NextTInv, <1>1, PTL DEF TimeSpec, NeverBackwards

-----------------------------------------------------------------------------
(* Listeners                                                               *)

Block == [number : Nat \ {0}, id : Nat, logs : BOOLEAN]

(* Blocks are stored under their number, one at most is waiting to be      *)
(* announced, and the service's channel is never closed.                   *)
FeesTypeOK ==
    /\ chain \in Seq(Block)
    /\ mined \in Nat
    /\ announcing \in Seq(Block)
    /\ Len(announcing) <= 1
    /\ fees \in [queue : Seq(Block), cache : SUBSET Block, top : Nat]
    /\ \A n \in DOMAIN chain : chain[n].number = n
    /\ "fees" \in setup => <<"fees">> \in listeners

FeesInv == FeesTypeOK /\ FeesTrue

-----------------------------------------------------------------------------
(* Lemmas about the sequences and about the cache                          *)

LEMMA RangeAppend ==
    ASSUME NEW S, NEW s \in Seq(S), NEW e
    PROVE  Range(Append(s, e)) = Range(s) \cup {e}
  <1>1. DOMAIN Append(s, e) = DOMAIN s \cup {Len(s) + 1}
    OBVIOUS
  <1>2. \A n \in DOMAIN s : Append(s, e)[n] = s[n]
    OBVIOUS
  <1>3. Append(s, e)[Len(s) + 1] = e
    OBVIOUS
  <1> QED
    BY <1>1, <1>2, <1>3 DEF Range

LEMMA RangeTail ==
    ASSUME NEW S, NEW s \in Seq(S), s # <<>>
    PROVE  /\ Head(s) \in S
           /\ Tail(s) \in Seq(S)
           /\ Range(s) = {Head(s)} \cup Range(Tail(s))
  <1>1. Head(s) = s[1] /\ 1 \in DOMAIN s /\ Head(s) \in S
    OBVIOUS
  <1>2. /\ Tail(s) \in Seq(S)
        /\ DOMAIN Tail(s) = 1 .. Len(s) - 1
        /\ DOMAIN s = 1 .. Len(s)
        /\ Len(s) \in Nat
    OBVIOUS
  <1>3. \A n \in 1 .. Len(s) - 1 : Tail(s)[n] = s[n + 1]
    OBVIOUS
  <1>4. \A n \in DOMAIN s : n = 1 \/ (n - 1 \in DOMAIN Tail(s) /\ s[n] = Tail(s)[n - 1])
    BY <1>2, <1>3
  <1>5. Range(s) \subseteq {Head(s)} \cup Range(Tail(s))
    BY <1>1, <1>4, SMTT(30) DEF Range
  <1>6. Range(Tail(s)) \subseteq Range(s)
    BY <1>2, <1>3 DEF Range
  <1> QED
    BY <1>1, <1>2, <1>5, <1>6 DEF Range

\* insert_cache_entry removes no block within the limit of the one it adds.
LEMMA TrimKeeps ==
    ASSUME NEW cache \in SUBSET Block, NEW number \in Nat \ {0}, NEW b \in cache,
           b.number + FeeLimit > number
    PROVE  b \in Trimmed(cache, number)
  <1>1. b.number \in Nat \ {0}
    BY DEF Block
  <1>2. b.number > (IF number > FeeLimit THEN number - FeeLimit ELSE 0)
    BY <1>1, ListenersAssumption
  <1>3. ~(b.number <= (IF number > FeeLimit THEN number - FeeLimit ELSE 0))
    BY <1>1, <1>2, ListenersAssumption
  <1> QED
    BY <1>3 DEF Trimmed

LEMMA TrimType ==
    ASSUME NEW cache \in SUBSET Block, NEW head \in Block
    PROVE  /\ Inserted(cache, head) \in SUBSET Block
           /\ Trimmed(Inserted(cache, head), head.number) \in SUBSET Block
  BY DEF Inserted, Trimmed, CachedAt

-----------------------------------------------------------------------------
LEMMA InitFees == ListenInit => FeesInv
  <1> SUFFICES ASSUME ListenInit PROVE FeesInv
    OBVIOUS
  <1>1. FeesTypeOK
    BY DEF ListenInit, FeesTypeOK
  <1>2. DOMAIN chain = {}
    BY DEF ListenInit
  <1> QED
    BY <1>1, <1>2 DEF FeesInv, FeesTrue

LEMMA MineFees ==
    ASSUME FeesInv, NEW logs \in BOOLEAN, Mine(logs) PROVE FeesInv'
  <1> DEFINE head == [number |-> Len(chain) + 1, id |-> mined + 1, logs |-> logs]
  <1>1. /\ chain \in Seq(Block)
        /\ Len(chain) \in Nat
        /\ mined \in Nat
        /\ announcing = <<>>
        /\ \A n \in DOMAIN chain : chain[n].number = n
    BY DEF FeesInv, FeesTypeOK, Mine
  <1>2. head \in Block /\ head.number = Len(chain) + 1
    BY <1>1 DEF Block
  <1>3. /\ chain' = Append(chain, head)
        /\ announcing' = <<head>>
        /\ mined' = mined + 1
        /\ UNCHANGED <<setup, listeners, fees>>
    BY DEF Mine
  <1> HIDE DEF head
  <1>4. /\ chain' \in Seq(Block)
        /\ DOMAIN chain' = DOMAIN chain \cup {Len(chain) + 1}
        /\ \A n \in DOMAIN chain : chain'[n] = chain[n]
        /\ chain'[Len(chain) + 1] = head
    BY <1>1, <1>2, <1>3
  <1>5. FeesTypeOK'
    BY <1>1, <1>2, <1>3, <1>4 DEF FeesInv, FeesTypeOK
  <1>6. Range(announcing') = {head}
    BY <1>3 DEF Range
  <1>7. Range(announcing) = {}
    BY <1>1 DEF Range
  <1>8. FeesTrue'
    BY <1>3, <1>4, <1>6, <1>7 DEF FeesInv, FeesTrue
  <1> QED
    BY <1>5, <1>8 DEF FeesInv

LEMMA NotifyFees == ASSUME FeesInv, Notify PROVE FeesInv'
  <1>a. /\ announcing \in Seq(Block)
        /\ Len(announcing) <= 1
        /\ announcing # <<>>
        /\ fees \in [queue : Seq(Block), cache : SUBSET Block, top : Nat]
    BY DEF FeesInv, FeesTypeOK, Notify
  <1>1. /\ announcing \in Seq(Block)
        /\ Len(announcing) = 1
        /\ announcing[1] \in Block
        /\ fees.queue \in Seq(Block)
        /\ fees \in [queue : Seq(Block), cache : SUBSET Block, top : Nat]
    <2>1. Len(announcing) \in Nat /\ Len(announcing) # 0
      BY <1>a
    <2>2. Len(announcing) = 1
      <3>1. \A k \in Nat : k <= 1 /\ k # 0 => k = 1
        OBVIOUS
      <3> QED
        BY <1>a, <2>1, <3>1
    <2>3. announcing[1] \in Block
      BY <1>a, <2>2
    <2> QED
      BY <1>a, <2>2, <2>3
  <1>2. /\ announcing' = <<>>
        /\ listeners' = Reached
        /\ fees' = [fees EXCEPT !.queue = Send(fees.queue, <<"fees">>, announcing[1])]
        /\ UNCHANGED <<setup, chain, mined>>
    BY DEF Notify
  <1>3. "fees" \in setup => <<"fees">> \in Reached
    BY DEF FeesInv, FeesTypeOK, Reached, Open
  <1>4. Send(fees.queue, <<"fees">>, announcing[1]) \in Seq(Block)
    BY <1>1 DEF Send
  <1>5. FeesTypeOK'
    <2>1. announcing' \in Seq(Block) /\ Len(announcing') <= 1
      BY <1>2
    <2>2. fees' \in [queue : Seq(Block), cache : SUBSET Block, top : Nat]
      BY <1>1, <1>2, <1>4
    <2>3. "fees" \in setup' => <<"fees">> \in listeners'
      BY <1>2, <1>3
    <2> QED
      BY <1>2, <2>1, <2>2, <2>3 DEF FeesInv, FeesTypeOK
  <1>6. Range(announcing) = {announcing[1]}
    BY <1>1 DEF Range
  <1>7. /\ fees'.cache = fees.cache
        /\ fees'.top = fees.top
        /\ fees'.queue = Send(fees.queue, <<"fees">>, announcing[1])
    BY <1>1, <1>2
  <1>8. "fees" \in setup => Range(fees'.queue) = Range(fees.queue) \cup Range(announcing)
    BY <1>1, <1>3, <1>6, <1>7, RangeAppend DEF Send
  <1>9. FeesTrue'
    BY <1>2, <1>7, <1>8 DEF FeesInv, FeesTrue
  <1> QED
    BY <1>5, <1>9 DEF FeesInv

LEMMA RollbackFees ==
    ASSUME FeesInv, NEW to \in 0 .. MaxBlocks, Rollback(to) PROVE FeesInv'
  <1>1. /\ chain' = SubSeq(chain, 1, to)
        /\ to < Len(chain)
        /\ chain \in Seq(Block)
        /\ to \in Nat
        /\ UNCHANGED <<setup, mined, announcing, listeners, fees>>
    BY ListenersAssumption DEF Rollback, FeesInv, FeesTypeOK
  <1>2. /\ chain' \in Seq(Block)
        /\ DOMAIN chain' \subseteq DOMAIN chain
        /\ \A n \in DOMAIN chain' : chain'[n] = chain[n]
    BY <1>1
  <1>3. FeesTypeOK'
    BY <1>1, <1>2 DEF FeesInv, FeesTypeOK
  <1>4. FeesTrue'
    BY <1>1, <1>2 DEF FeesInv, FeesTrue
  <1> QED
    BY <1>3, <1>4 DEF FeesInv

LEMMA PollFeesFees == ASSUME FeesInv, PollFees PROVE FeesInv'
  <1> DEFINE head == Head(fees.queue)
             added == Inserted(fees.cache, head)
  <1>1. /\ fees.queue \in Seq(Block)
        /\ fees.queue # <<>>
        /\ fees.cache \in SUBSET Block
        /\ fees.top \in Nat
    BY DEF FeesInv, FeesTypeOK, PollFees
  <1>2. /\ head \in Block
        /\ Tail(fees.queue) \in Seq(Block)
        /\ Range(fees.queue) = {head} \cup Range(Tail(fees.queue))
    BY <1>1, RangeTail
  <1>3. head.number \in Nat \ {0}
    BY <1>2 DEF Block
  <1>4. UNCHANGED <<setup, chain, mined, announcing, listeners>>
    BY DEF PollFees, node
  <1>5. CASE ~StillStored(head)
    <2>1. fees' = [queue |-> Tail(fees.queue), cache |-> fees.cache, top |-> fees.top]
      BY <1>5 DEF PollFees
    <2>2. FeesTypeOK'
      <3>1. fees' \in [queue : Seq(Block), cache : SUBSET Block, top : Nat]
        BY <1>1, <1>2, <2>1
      <3> QED
        BY <1>4, <3>1 DEF FeesInv, FeesTypeOK
    <2>3. \A n \in DOMAIN chain : chain[n] # head
      BY <1>5 DEF StillStored, Range
    <2>4. fees'.queue = Tail(fees.queue) /\ fees'.cache = fees.cache /\ fees'.top = fees.top
      BY <2>1
    <2>5. FeesTrue'
      BY <1>2, <1>4, <2>3, <2>4 DEF FeesInv, FeesTrue
    <2> QED
      BY <2>2, <2>5 DEF FeesInv
  <1>6. CASE StillStored(head)
    <2> DEFINE top == IF head.number > fees.top THEN head.number ELSE fees.top
    <2>1. /\ fees'.queue = Tail(fees.queue)
          /\ fees'.cache = Trimmed(added, head.number)
          /\ fees'.top = top
          /\ fees' = [queue |-> Tail(fees.queue), cache |-> Trimmed(added, head.number), top |-> top]
      BY <1>6 DEF PollFees
    <2>2. added \in SUBSET Block /\ Trimmed(added, head.number) \in SUBSET Block
      BY <1>1, <1>2, TrimType
    <2>3. top \in Nat /\ top >= fees.top /\ top >= head.number
      BY <1>1, <1>3
    <2>4. FeesTypeOK'
      <3>1. fees' \in [queue : Seq(Block), cache : SUBSET Block, top : Nat]
        BY <1>2, <2>1, <2>2, <2>3
      <3> QED
        BY <1>4, <3>1 DEF FeesInv, FeesTypeOK
    <2>5. chain \in Seq(Block) /\ \A n \in DOMAIN chain : chain[n].number = n
      BY DEF FeesInv, FeesTypeOK
    <2>6. head.number \in DOMAIN chain /\ chain[head.number] = head
      BY <1>6, <2>5 DEF StillStored, Range
    <2>7. ASSUME "fees" \in setup, NEW n \in DOMAIN chain, n + FeeLimit > top
          PROVE  chain[n] \in fees'.cache \cup Range(fees'.queue) \cup Range(announcing)
      <3>1. n \in Nat
        BY <2>5
      <3>2. n + FeeLimit > fees.top /\ n + FeeLimit > head.number
        BY <1>1, <1>3, <2>3, <2>7, <3>1, ListenersAssumption
      <3>3. chain[n] \in fees.cache \cup Range(fees.queue) \cup Range(announcing)
        BY <2>7, <3>2 DEF FeesInv, FeesTrue
      <3>4. CASE chain[n] \in added
        <4>1. chain[n].number = n
          BY <2>5
        <4>2. chain[n] \in Trimmed(added, head.number)
          BY <1>3, <2>2, <3>2, <3>4, <4>1, TrimKeeps
        <4> QED
          BY <2>1, <4>2
      <3>5. CASE chain[n] \notin added
        <4>1. chain[n] # head
          BY <3>5 DEF Inserted
        <4>2. chain[n].number # head.number
          BY <2>5, <2>6, <4>1
        <4>3. chain[n] \notin fees.cache
          BY <3>5, <4>2 DEF Inserted, CachedAt
        <4> QED
          BY <1>2, <2>1, <3>3, <4>1, <4>3
      <3> QED
        BY <3>4, <3>5
    <2>8. FeesTrue'
      BY <1>4, <2>1, <2>7 DEF FeesTrue
    <2> QED
      BY <2>4, <2>8 DEF FeesInv
  <1> QED
    BY <1>5, <1>6

\* The other actions change neither the chain nor the fee history, and a
\* filter only adds to the senders.
LEMMA OtherFees ==
    ASSUME FeesInv, UNCHANGED <<node, fees>>, listeners \subseteq listeners'
    PROVE  FeesInv'
  <1>1. UNCHANGED <<setup, chain, mined, announcing, fees>>
    BY DEF node
  <1>2. FeesTypeOK'
    BY <1>1 DEF FeesInv, FeesTypeOK
  <1>3. FeesTrue'
    BY <1>1 DEF FeesInv, FeesTrue
  <1> QED
    BY <1>2, <1>3 DEF FeesInv

LEMMA NextFees == ASSUME FeesInv, [ListenNext]_listenVars PROVE FeesInv'
  <1>1. ASSUME NEW logs \in BOOLEAN, Mine(logs) PROVE FeesInv'
    BY <1>1, MineFees
  <1>2. CASE Notify
    BY <1>2, NotifyFees
  <1>3. ASSUME NEW to \in 0 .. MaxBlocks, Rollback(to) PROVE FeesInv'
    BY <1>3, RollbackFees
  <1>4. ASSUME NEW c \in Clients,
               \/ ReadHistoric(c)
               \/ NewFilterFrom(c)
               \/ \E of \in {"logs", "blocks"} : NewFilter(c, of)
               \/ GetFilterChanges(c)
               \/ Expire(c)
               \/ UninstallFilter(c)
        PROVE  FeesInv'
    <2>1. UNCHANGED <<node, fees>> /\ listeners \subseteq listeners'
      BY <1>4 DEF ReadHistoric, NewFilterFrom, NewFilter, Install, GetFilterChanges, Expire,
                  UninstallFilter
    <2> QED
      BY <2>1, OtherFees
  <1>5. CASE Evict \/ Poll \/ Request
    <2>1. UNCHANGED <<node, fees>> /\ listeners \subseteq listeners'
      BY <1>5 DEF Evict, Poll, PollBlock, PollEmpty, PollWiped, Polled, Request
    <2> QED
      BY <2>1, OtherFees
  <1>6. CASE PollFees
    BY <1>6, PollFeesFees
  <1>7. CASE UNCHANGED listenVars
    BY <1>7, OtherFees DEF listenVars
  <1> QED
    BY <1>1, <1>2, <1>3, <1>4, <1>5, <1>6, <1>7 DEF ListenNext

(* The fee history is never short of a block of the chain within its       *)
(* limit: the entry is there, or the block is in the service's channel, or *)
(* do_mine_block is about to announce it, in whatever order blocks are     *)
(* mined, rolled back, announced and taken out by the service.             *)
THEOREM FeesAreTrue == ListenSpec => []FeesTrue
  <1>1. ListenInit => FeesInv
    BY InitFees
  <1>2. FeesInv /\ [ListenNext]_listenVars => FeesInv'
    BY NextFees
  <1>3. FeesInv => FeesTrue
    BY DEF FeesInv
  <1> QED
    BY <1>1, <1>2, <1>3, PTL DEF ListenSpec

-----------------------------------------------------------------------------
(* The polled filters                                                      *)

\* Blocks in the order in which they were mined.
Ordered(s) == \A m, n \in DOMAIN s : m < n => s[m].id < s[n].id

Precede(s, t) == \A a \in Range(s), b \in Range(t) : a.id < b.id

\* The last block that is announced.
Announced == IF announcing = <<>> THEN mined ELSE mined - 1

UpTo(s, id) == \A b \in Range(s) : b.id <= id

FilterRecord ==
    [phase : {"none", "read", "installed"}, of : {"logs", "blocks"}, id : Nat,
     historic : Seq(Block), queue : Seq(Block), expired : BOOLEAN, told : Seq(Block),
     since : SUBSET Block, raced : BOOLEAN]

FiltersTypeOK ==
    /\ filters \in [Clients -> FilterRecord]
    /\ made \in Nat
    /\ <<"filter", 0>> \notin listeners

\* The blocks of the chain are in order, and so is the one to be announced.
BlocksInOrder ==
    /\ Ordered(chain)
    /\ UpTo(chain, mined)
    /\ announcing # <<>> => announcing[1].id = mined
    /\ Range(announcing) \subseteq Range(chain) \cup wiped

\* A filter that is being made has no channel yet.
NoChannel(f) == f.id = 0 /\ f.queue = <<>> /\ f.told = <<>>

\* What was told, the historic blocks and the channel follow each other.
InOrder(f) ==
    /\ Ordered(f.told) /\ Ordered(f.historic) /\ Ordered(f.queue)
    /\ Precede(f.told, f.historic) /\ Precede(f.told, f.queue) /\ Precede(f.historic, f.queue)
    /\ UpTo(f.told, Announced) /\ UpTo(f.historic, Announced) /\ UpTo(f.queue, Announced)

\* Every block that is due was told or will be, and what is in the channel
\* is stored unless it was rolled back.
Covered(f) ==
    /\ Due(f) \subseteq Range(f.told) \cup Range(f.historic) \cup Range(f.queue)
    /\ Range(f.queue) \subseteq Range(chain) \cup wiped
    /\ f.of = "blocks" => f.historic = <<>>

FilterOK(f) ==
    /\ f.phase # "installed" => NoChannel(f)
    /\ f.phase = "none" => f.historic = <<>> /\ f.since = {}
    /\ f.phase = "installed" => Channel(f) \in listeners
    /\ f.phase = "read" /\ ~f.raced => announcing = <<>>
    /\ ~f.raced => InOrder(f) /\ Covered(f)

FiltersInv ==
    /\ FiltersTypeOK
    /\ BlocksInOrder
    /\ \A c \in Clients : FilterOK(filters[c])

\* Positions are counted from the left: there is one for every number, and a
\* larger number is a position further right.
LEMMA NthPlace ==
    ASSUME NEW len \in Nat, NEW places \in SUBSET (1 .. len)
    PROVE  /\ IsFiniteSet(places) /\ Cardinality(places) \in Nat
           /\ \A i \in 1 .. Cardinality(places) : Nth(places, i) \in places
           /\ \A i, j \in 1 .. Cardinality(places) : i < j => Nth(places, i) < Nth(places, j)
           /\ \A n \in places : \E i \in 1 .. Cardinality(places) : Nth(places, i) = n
  <1> DEFINE k == Cardinality(places)
             Rank(n) == Cardinality({m \in places : m < n})
  <1>1. IsFiniteSet(places) /\ k \in Nat
    <2>1. IsFiniteSet(1 .. len)
      BY FS_Interval
    <2>2. IsFiniteSet(places)
      BY <2>1, FS_Subset
    <2> QED
      BY <2>2, FS_CardinalityType
  <1>2. ASSUME NEW n \in places
        PROVE  Rank(n) \in 0 .. k - 1
    <2>1. IsFiniteSet(places \ {n}) /\ Cardinality(places \ {n}) = k - 1
      BY <1>1, FS_RemoveElement
    <2>2. {m \in places : m < n} \in SUBSET (places \ {n})
      OBVIOUS
    <2>3. IsFiniteSet({m \in places : m < n}) /\ Rank(n) <= k - 1
      BY <2>1, <2>2, FS_Subset
    <2>4. Rank(n) \in Nat
      BY <2>3, FS_CardinalityType
    <2> QED
      BY <2>3, <2>4, <1>1
  <1>3. ASSUME NEW m \in places, NEW n \in places, m < n
        PROVE  Rank(m) < Rank(n)
    <2> DEFINE L(x) == {y \in places : y < x}
    <2>1. IsFiniteSet(L(n))
      BY <1>1, FS_Subset
    <2>2. m \in L(n) /\ L(m) \in SUBSET (L(n) \ {m})
      <3>1. \A y \in places : y \in Int
        OBVIOUS
      <3>2. \A y \in places : y < m => y < n /\ y # m
        BY <3>1, <1>3
      <3> QED
        BY <3>2, <1>3
    <2>3. IsFiniteSet(L(n) \ {m}) /\ Cardinality(L(n) \ {m}) = Cardinality(L(n)) - 1
      BY <2>1, <2>2, FS_RemoveElement
    <2>4. Cardinality(L(m)) <= Cardinality(L(n) \ {m})
      BY <2>2, <2>3, FS_Subset
    <2>5. Rank(m) = Cardinality(L(m)) /\ Rank(n) = Cardinality(L(n))
      OBVIOUS
    <2>6. Rank(m) \in Int /\ Rank(n) \in Int
      BY <1>2
    <2> QED
      BY <2>3, <2>4, <2>5, <2>6
  <1> HIDE DEF Rank
  <1>4. ASSUME NEW m \in places, NEW n \in places, Rank(m) = Rank(n)
        PROVE  m = n
    <2>1. Rank(m) \in Int
      BY <1>2
    <2>2. m \in Int /\ n \in Int
      OBVIOUS
    <2>3. m < n \/ n < m \/ m = n
      BY <2>2
    <2> QED
      BY <2>1, <2>3, <1>3, <1>4
  <1>5. ASSUME NEW i \in 0 .. k - 1
        PROVE  \E n \in places : Rank(n) = i
    <2> SUFFICES ASSUME \A n \in places : Rank(n) # i PROVE FALSE
      OBVIOUS
    <2> DEFINE T == (0 .. k - 1) \ {i}
               f == [n \in places |-> Rank(n)]
    <2>1. IsFiniteSet(0 .. k - 1) /\ Cardinality(0 .. k - 1) = k
      <3>1. 0 \in Int /\ k - 1 \in Int
        BY <1>1
      <3> QED
        BY <3>1, <1>1, FS_Interval
    <2>2. IsFiniteSet(T) /\ Cardinality(T) = k - 1
      BY <2>1, FS_RemoveElement
    <2>3. f \in [places -> T]
      BY <1>2
    <2>4. Cardinality(T) < Cardinality(places)
      BY <2>2, <1>1
    <2> HIDE DEF T, f, k
    <2>5. \E x, y \in places : x # y /\ f[x] = f[y]
      BY <2>2, <2>3, <2>4, <1>1, FS_PigeonHole, Zenon
    <2> QED
      BY <2>5, <1>4 DEF f
  <1>6. ASSUME NEW i \in 1 .. k
        PROVE  Nth(places, i) \in places /\ Rank(Nth(places, i)) = i - 1
    <2>1. i - 1 \in 0 .. k - 1
      BY <1>1
    <2>2. \E n \in places : Rank(n) = i - 1
      BY <2>1, <1>5
    <2> QED
      BY <2>2, Zenon DEF Nth, Rank
  <1>7. ASSUME NEW i \in 1 .. k, NEW j \in 1 .. k, i < j
        PROVE  Nth(places, i) < Nth(places, j)
    <2>1. PICK m : m = Nth(places, i)
      OBVIOUS
    <2>2. PICK n : n = Nth(places, j)
      OBVIOUS
    <2>3. m \in places /\ n \in places /\ Rank(m) = i - 1 /\ Rank(n) = j - 1
      BY <2>1, <2>2, <1>6
    <2>4. m \in Int /\ n \in Int
      BY <2>3
    <2>5. ~(n < m)
      BY <2>3, <1>3, <1>7, <1>1
    <2>6. m # n
      BY <2>3, <1>7, <1>1
    <2> QED
      BY <2>1, <2>2, <2>4, <2>5, <2>6
  <1>8. ASSUME NEW n \in places
        PROVE  \E i \in 1 .. k : Nth(places, i) = n
    <2>1. Rank(n) + 1 \in 1 .. k /\ Rank(n) \in Int
      BY <1>1, <1>2
    <2>2. PICK m : m = Nth(places, Rank(n) + 1)
      OBVIOUS
    <2>3. m \in places /\ Rank(m) = (Rank(n) + 1) - 1
      BY <2>1, <2>2, <1>6
    <2>4. Rank(m) = Rank(n)
      BY <2>1, <2>3
    <2> QED
      BY <2>1, <2>2, <2>3, <2>4, <1>4
  <1> QED
    BY <1>1, <1>6, <1>7, <1>8

\* A selection has the blocks that are among those and keeps their order.
LEMMA SelectedBlocks ==
    ASSUME NEW s \in Seq(Block), NEW those
    PROVE  /\ Selected(s, those) \in Seq(Block)
           /\ Range(Selected(s, those)) = Range(s) \cap those
           /\ Ordered(s) => Ordered(Selected(s, those))
  <1> DEFINE places == {n \in DOMAIN s : s[n] \in those}
             k == Cardinality(places)
             sel == [i \in 1 .. k |-> s[Nth(places, i)]]
  <1>1. Len(s) \in Nat /\ places \in SUBSET (1 .. Len(s)) /\ DOMAIN s = 1 .. Len(s)
    OBVIOUS
  <1>2. /\ k \in Nat
        /\ \A i \in 1 .. k : Nth(places, i) \in places
        /\ \A i, j \in 1 .. k : i < j => Nth(places, i) < Nth(places, j)
        /\ \A n \in places : \E i \in 1 .. k : Nth(places, i) = n
    <2> HIDE DEF places
    <2> QED
      BY <1>1, NthPlace
  <1>3. Selected(s, those) = sel
    BY DEF Selected
  <1>4. \A i \in 1 .. k : Nth(places, i) \in DOMAIN s /\ s[Nth(places, i)] \in those
    BY <1>2
  <1>5. \A n \in DOMAIN s : s[n] \in those => n \in places
    OBVIOUS
  <1>6. \A n \in DOMAIN s : s[n] \in Block
    OBVIOUS
  <1> HIDE DEF places, k
  <1>7. sel \in [1 .. k -> Block]
    BY <1>4, <1>6
  <1>8. sel \in Seq(Block) /\ DOMAIN sel = 1 .. k
    BY <1>2, <1>7
  <1>9. Range(sel) = Range(s) \cap those
    <2>1. ASSUME NEW b \in Range(sel)
          PROVE  b \in Range(s) \cap those
      BY <2>1, <1>4 DEF Range
    <2>2. ASSUME NEW b \in Range(s), b \in those
          PROVE  b \in Range(sel)
      <3>1. PICK n \in DOMAIN s : b = s[n]
        BY DEF Range
      <3>2. PICK i \in 1 .. k : Nth(places, i) = n
        BY <3>1, <2>2, <1>5, <1>2
      <3>3. sel[i] = b /\ i \in DOMAIN sel
        BY <3>1, <3>2
      <3> HIDE DEF sel
      <3> QED
        BY <3>3 DEF Range
    <2> QED
      BY <2>1, <2>2
  <1>10. Ordered(s) => Ordered(sel)
    <2> SUFFICES ASSUME Ordered(s), NEW m \in DOMAIN sel, NEW n \in DOMAIN sel, m < n
                 PROVE  sel[m].id < sel[n].id
      BY DEF Ordered
    <2>1. Nth(places, m) < Nth(places, n) /\ Nth(places, m) \in DOMAIN s /\ Nth(places, n) \in DOMAIN s
      BY <1>2, <1>4
    <2> QED
      BY <2>1 DEF Ordered
  <1> QED
    BY <1>3, <1>8, <1>9, <1>10

LEMMA OrderedAppend ==
    ASSUME NEW s \in Seq(Block), NEW b \in Block, Ordered(s), \A a \in Range(s) : a.id < b.id
    PROVE  Ordered(Append(s, b))
  <1>1. Len(s) \in Nat /\ DOMAIN s = 1 .. Len(s) /\ DOMAIN Append(s, b) = 1 .. Len(s) + 1
    OBVIOUS
  <1>2. /\ \A n \in DOMAIN s : Append(s, b)[n] = s[n]
        /\ Append(s, b)[Len(s) + 1] = b
    OBVIOUS
  <1>3. \A n \in DOMAIN s : s[n].id < b.id
    BY DEF Range
  <1> SUFFICES ASSUME NEW m \in DOMAIN Append(s, b), NEW n \in DOMAIN Append(s, b), m < n
               PROVE  Append(s, b)[m].id < Append(s, b)[n].id
    BY DEF Ordered
  <1>4. m \in DOMAIN s
    BY <1>1
  <1>5. n \in DOMAIN s \/ n = Len(s) + 1
    BY <1>1
  <1> QED
    BY <1>2, <1>3, <1>4, <1>5 DEF Ordered

LEMMA RangeConcat ==
    ASSUME NEW s \in Seq(Block), NEW t \in Seq(Block)
    PROVE  /\ s \o t \in Seq(Block)
           /\ Range(s \o t) = Range(s) \cup Range(t)
  <1>1. /\ Len(s) \in Nat /\ Len(t) \in Nat
        /\ DOMAIN s = 1 .. Len(s) /\ DOMAIN t = 1 .. Len(t)
        /\ s \o t \in Seq(Block)
        /\ DOMAIN (s \o t) = 1 .. Len(s) + Len(t)
    OBVIOUS
  <1>2. /\ \A n \in DOMAIN s : (s \o t)[n] = s[n]
        /\ \A n \in DOMAIN t : (s \o t)[Len(s) + n] = t[n]
    BY <1>1
  <1>3. \A n \in DOMAIN (s \o t) : n \in DOMAIN s \/ (n - Len(s) \in DOMAIN t /\ n = Len(s) + (n - Len(s)))
    BY <1>1
  <1>4. Range(s \o t) \subseteq Range(s) \cup Range(t)
    BY <1>2, <1>3 DEF Range
  <1>5. \A n \in DOMAIN s : n \in DOMAIN (s \o t)
    BY <1>1
  <1>6. \A n \in DOMAIN t : Len(s) + n \in DOMAIN (s \o t)
    BY <1>1
  <1> QED
    BY <1>1, <1>2, <1>4, <1>5, <1>6 DEF Range

LEMMA OrderedConcat ==
    ASSUME NEW s \in Seq(Block), NEW t \in Seq(Block), Ordered(s), Ordered(t), Precede(s, t)
    PROVE  Ordered(s \o t)
  <1>1. /\ Len(s) \in Nat /\ Len(t) \in Nat
        /\ DOMAIN s = 1 .. Len(s) /\ DOMAIN t = 1 .. Len(t)
        /\ DOMAIN (s \o t) = 1 .. Len(s) + Len(t)
    OBVIOUS
  <1>2. /\ \A n \in DOMAIN s : (s \o t)[n] = s[n]
        /\ \A n \in DOMAIN (s \o t) : n \notin DOMAIN s =>
              n - Len(s) \in DOMAIN t /\ (s \o t)[n] = t[n - Len(s)]
    BY <1>1
  <1>3. \A m \in DOMAIN s, n \in DOMAIN t : s[m].id < t[n].id
    BY DEF Precede, Range
  <1> SUFFICES ASSUME NEW m \in DOMAIN (s \o t), NEW n \in DOMAIN (s \o t), m < n
               PROVE  (s \o t)[m].id < (s \o t)[n].id
    BY DEF Ordered
  <1>4. CASE m \in DOMAIN s /\ n \in DOMAIN s
    BY <1>2, <1>4 DEF Ordered
  <1>5. CASE m \in DOMAIN s /\ n \notin DOMAIN s
    BY <1>2, <1>3, <1>5
  <1>6. CASE m \notin DOMAIN s
    <2>1. n \notin DOMAIN s
      BY <1>1, <1>6
    <2>2. m - Len(s) < n - Len(s)
      BY <1>1
    <2> QED
      BY <1>2, <1>6, <2>1, <2>2 DEF Ordered
  <1> QED
    BY <1>4, <1>5, <1>6

LEMMA EmptyRange == Range(<<>>) = {}
  BY DEF Range

LEMMA NoFilterOK ==
    ASSUME NEW f, f = NoFilter
    PROVE  f \in FilterRecord /\ FilterOK(f) /\ FilterOK(f)'
  <1>1. /\ f \in FilterRecord
        /\ f.phase = "none" /\ f.of = "logs" /\ f.id = 0 /\ f.historic = <<>> /\ f.queue = <<>>
        /\ f.told = <<>> /\ f.since = {}
    BY DEF NoFilter, FilterRecord
  <1>2. Ordered(<<>>)
    BY DEF Ordered
  <1>3. InOrder(f) /\ InOrder(f)'
    BY <1>1, <1>2, EmptyRange DEF InOrder, Precede, UpTo
  <1>4. Covered(f) /\ Covered(f)'
    BY <1>1, EmptyRange DEF Covered, Due
  <1> QED
    BY <1>1, <1>3, <1>4 DEF FilterOK, NoChannel

\* A filter stays as it should be when blocks are announced or rolled back
\* and channels are added.
LEMMA SameFilter ==
    ASSUME NEW f, FilterOK(f),
           f.phase = "installed" => Channel(f)' \in listeners',
           f.phase = "read" /\ ~f.raced => announcing' = <<>>,
           Announced' = Announced,
           Range(chain) \cup wiped \subseteq Range(chain') \cup wiped',
           wiped \subseteq wiped'
    PROVE  FilterOK(f)'
  <1>1. InOrder(f) => InOrder(f)'
    BY DEF InOrder, UpTo
  <1>2. Covered(f) => Covered(f)'
    BY DEF Covered, Due
  <1> QED
    BY <1>1, <1>2 DEF FilterOK, NoChannel

\* What a poll returns continues what was told, and nothing due is left out.
LEMMA ChangesFollow ==
    ASSUME FeesTypeOK, NEW f \in FilterRecord, InOrder(f), Covered(f)
    PROVE  /\ Changes(f) \in Seq(Block)
           /\ f.told \o Changes(f) \in Seq(Block)
           /\ Ordered(f.told \o Changes(f))
           /\ UpTo(f.told \o Changes(f), Announced)
           /\ Due(f) \subseteq Range(f.told \o Changes(f))
  <1>1. /\ f.told \in Seq(Block) /\ f.historic \in Seq(Block) /\ f.queue \in Seq(Block)
        /\ f.of \in {"logs", "blocks"} /\ chain \in Seq(Block)
    BY DEF FilterRecord, FeesTypeOK
  <1>2. PICK told : told = f.told
    OBVIOUS
  <1>3. PICK historic : historic = f.historic
    OBVIOUS
  <1>4. PICK queue : queue = f.queue
    OBVIOUS
  <1>5. PICK new : new = Changes(f)
    OBVIOUS
  <1>6. /\ new \in Seq(Block)
        /\ Ordered(new)
        /\ Range(new) \subseteq Range(historic) \cup Range(queue)
        /\ \A b \in Due(f) : b \in Range(historic) \cup Range(queue) => b \in Range(new)
    <2>1. CASE f.of = "blocks"
      <3>1. new = queue /\ Range(historic) = {}
        BY <1>3, <1>4, <1>5, <2>1, EmptyRange DEF Changes, Covered
      <3> QED
        BY <1>1, <1>4, <3>1 DEF InOrder
    <2>2. CASE f.of = "logs"
      <3>1. PICK kept : kept = Selected(queue, WithLogs(chain))
        OBVIOUS
      <3>2. new = historic \o kept
        BY <1>3, <1>4, <1>5, <2>2, <3>1 DEF Changes
      <3>3. /\ kept \in Seq(Block)
            /\ Range(kept) = Range(queue) \cap WithLogs(chain)
            /\ Ordered(kept)
        BY <1>1, <1>4, <3>1, SelectedBlocks DEF InOrder
      <3>4. Ordered(historic) /\ Precede(historic, kept)
        BY <1>3, <1>4, <3>3 DEF InOrder, Precede
      <3>5. Ordered(new) /\ new \in Seq(Block) /\ Range(new) = Range(historic) \cup Range(kept)
        BY <1>1, <1>3, <3>2, <3>3, <3>4, OrderedConcat, RangeConcat
      <3>6. ASSUME NEW b \in Due(f), b \in Range(queue)
            PROVE  b \in Range(kept)
        <4>1. b.logs /\ b \notin wiped
          BY <2>2 DEF Due
        <4>2. b \in Range(chain)
          BY <1>4, <3>6, <4>1 DEF Covered
        <4> QED
          BY <3>3, <3>6, <4>1, <4>2 DEF WithLogs
      <3> QED
        BY <3>3, <3>5, <3>6
    <2> QED
      BY <1>1, <2>1, <2>2
  <1>7. Precede(told, new) /\ Ordered(told)
    BY <1>2, <1>3, <1>4, <1>6 DEF InOrder, Precede
  <1>8. /\ told \o new \in Seq(Block)
        /\ Range(told \o new) = Range(told) \cup Range(new)
        /\ Ordered(told \o new)
    BY <1>1, <1>2, <1>6, <1>7, RangeConcat, OrderedConcat
  <1>9. UpTo(told \o new, Announced)
    BY <1>2, <1>3, <1>4, <1>6, <1>8 DEF InOrder, UpTo
  <1>10. Due(f) \subseteq Range(told \o new)
    BY <1>2, <1>3, <1>4, <1>6, <1>8 DEF Covered
  <1> QED
    BY <1>2, <1>5, <1>6, <1>8, <1>9, <1>10

LEMMA FiltersGiveEachOnce ==
    ASSUME FeesTypeOK, FiltersInv PROVE EachOnce
  <1> SUFFICES ASSUME NEW c \in Clients, filters[c].phase = "installed", ~filters[c].raced
               PROVE  LET all == filters[c].told \o Changes(filters[c])
                      IN /\ Due(filters[c]) \subseteq Range(all)
                         /\ Once(all)
                         /\ \A m, n \in DOMAIN all : m < n => all[m].id < all[n].id
    BY DEF EachOnce
  <1>1. PICK f \in FilterRecord : f = filters[c]
    BY DEF FiltersInv, FiltersTypeOK
  <1>2. InOrder(f) /\ Covered(f)
    BY <1>1 DEF FiltersInv, FilterOK
  <1>3. PICK all : all = f.told \o Changes(f)
    OBVIOUS
  <1>4. all \in Seq(Block) /\ Ordered(all) /\ Due(f) \subseteq Range(all)
    BY <1>2, <1>3, ChangesFollow
  <1>5. ASSUME NEW m \in DOMAIN all, NEW n \in DOMAIN all, all[m] = all[n]
        PROVE  m = n
    <2>0. m \in Int /\ n \in Int /\ all[m] \in Block
      BY <1>4
    <2>1. m \in Int /\ n \in Int /\ all[m].id \in Int
      BY <2>0 DEF Block
    <2>2. ~(m < n) /\ ~(n < m)
      BY <1>4, <1>5, <2>1 DEF Ordered
    <2> QED
      BY <2>1, <2>2
  <1>6. Once(all)
    BY <1>5 DEF Once
  <1> QED
    BY <1>1, <1>3, <1>4, <1>6 DEF Ordered

-----------------------------------------------------------------------------
LEMMA InitFilters == ListenInit => FiltersInv
  <1> SUFFICES ASSUME ListenInit PROVE FiltersInv
    OBVIOUS
  <1>1. \A c \in Clients : filters[c] = NoFilter
    BY DEF ListenInit
  <1>2. PICK none : none = NoFilter
    OBVIOUS
  <1>3. \A c \in Clients : filters[c] \in FilterRecord /\ FilterOK(filters[c])
    BY <1>1, <1>2, NoFilterOK
  <1>4. <<"filter", 0>> \notin listeners
    <2>1. \A l : <<l>> # <<"filter", 0>>
      OBVIOUS
    <2> QED
      BY <2>1 DEF ListenInit
  <1>5. FiltersTypeOK
    BY <1>3, <1>4 DEF ListenInit, FiltersTypeOK
  <1>6. BlocksInOrder
    BY EmptyRange DEF ListenInit, BlocksInOrder, Ordered, UpTo
  <1> QED
    BY <1>3, <1>5, <1>6 DEF FiltersInv

\* A step that leaves the blocks alone.
LEMMA SameBlocks ==
    ASSUME BlocksInOrder, UNCHANGED node
    PROVE  BlocksInOrder' /\ Announced' = Announced
  BY DEF BlocksInOrder, Announced, node, Ordered, UpTo, Range

\* A step of one client.
LEMMA OneFilter ==
    ASSUME FiltersInv, NEW c \in Clients, NEW g \in FilterRecord,
           UNCHANGED node, filters' = [filters EXCEPT ![c] = g],
           made' \in Nat, listeners \subseteq listeners', <<"filter", 0>> \notin listeners',
           FilterOK(g)'
    PROVE  FiltersInv'
  <1>1. FiltersTypeOK'
    BY DEF FiltersInv, FiltersTypeOK
  <1>2. BlocksInOrder' /\ Announced' = Announced
    BY SameBlocks DEF FiltersInv
  <1>3. ASSUME NEW d \in Clients
        PROVE  FilterOK(filters[d])' 
    <2>1. CASE d = c
      BY <2>1 DEF FiltersInv, FiltersTypeOK
    <2>2. CASE d # c
      <3>1. PICK f : f = filters[d]
        OBVIOUS
      <3>2. filters'[d] = f
        BY <2>2, <3>1 DEF FiltersInv, FiltersTypeOK
      <3>3. FilterOK(f)
        BY <3>1 DEF FiltersInv
      <3>4. chain' = chain /\ wiped' = wiped /\ announcing' = announcing
        BY DEF node
      <3>5. /\ f.phase = "installed" => Channel(f)' \in listeners'
            /\ f.phase = "read" /\ ~f.raced => announcing' = <<>>
        BY <3>3, <3>4 DEF FilterOK, Channel
      <3>6. FilterOK(f)'
        BY <1>2, <3>3, <3>4, <3>5, SameFilter
      <3> QED
        BY <3>2, <3>6
    <2> QED
      BY <2>1, <2>2
  <1> QED
    BY <1>1, <1>2, <1>3 DEF FiltersInv

-----------------------------------------------------------------------------
LEMMA MineFilters ==
    ASSUME FeesTypeOK, FiltersInv, NEW logs \in BOOLEAN, Mine(logs) PROVE FiltersInv'
  <1>1. PICK fresh : fresh = [number |-> Len(chain) + 1, id |-> mined + 1, logs |-> logs]
    OBVIOUS
  <1>2. /\ chain \in Seq(Block) /\ mined \in Nat /\ announcing = <<>>
        /\ chain' = Append(chain, fresh) /\ announcing' = <<fresh>> /\ mined' = mined + 1
        /\ wiped' = wiped /\ made' = made /\ listeners' = listeners
    BY <1>1 DEF Mine, FeesTypeOK
  <1>3. fresh \in Block /\ fresh.id = mined + 1
    BY <1>1, <1>2 DEF Block
  <1>4. Range(chain') = Range(chain) \cup {fresh}
    BY <1>2, <1>3, RangeAppend
  <1>5. Announced' = Announced
    BY <1>2 DEF Announced
  <1>6. BlocksInOrder'
    <2>1. \A a \in Range(chain) : a.id <= mined /\ a.id \in Nat
      <3>1. \A a \in Range(chain) : a \in Block
        BY <1>2 DEF Range
      <3> QED
        BY <3>1 DEF FiltersInv, BlocksInOrder, UpTo, Block
    <2>2. \A a \in Range(chain) : a.id < fresh.id
      BY <1>2, <1>3, <2>1
    <2>3. Ordered(chain')
      BY <1>2, <1>3, <2>2, OrderedAppend DEF FiltersInv, BlocksInOrder
    <2>4. UpTo(chain', mined')
      BY <1>2, <1>3, <1>4, <2>1 DEF UpTo
    <2>5. Range(announcing') = {fresh}
      BY <1>2 DEF Range
    <2> QED
      BY <1>2, <1>3, <1>4, <2>3, <2>4, <2>5 DEF BlocksInOrder
  <1>7. ASSUME NEW c \in Clients
        PROVE  filters'[c] \in FilterRecord /\ FilterOK(filters[c])'
    <2>1. PICK f \in FilterRecord : f = filters[c]
      BY DEF FiltersInv, FiltersTypeOK
    <2>2. PICK g : g = [f EXCEPT !.raced = f.raced \/ f.phase = "read"]
      OBVIOUS
    <2>3. filters'[c] = g
      BY <2>1, <2>2 DEF Mine
    <2>4. FilterOK(f)
      BY <2>1 DEF FiltersInv
    <2>5. g \in FilterRecord
      BY <2>2 DEF FilterRecord
    <2>6. CASE f.phase = "read"
      <3>1. /\ g.phase = "read" /\ g.raced
            /\ g.id = f.id /\ g.queue = f.queue /\ g.told = f.told
        BY <2>2, <2>6 DEF FilterRecord
      <3> QED
        BY <2>3, <2>4, <2>5, <2>6, <3>1 DEF FilterOK, NoChannel
    <2>7. CASE f.phase # "read"
      <3>1. g = f
        BY <2>2, <2>7 DEF FilterRecord
      <3>2. f.phase = "installed" => Channel(f)' \in listeners'
        BY <1>2, <2>4 DEF FilterOK, Channel
      <3>3. FilterOK(f)'
        BY <1>2, <1>4, <1>5, <2>4, <2>7, <3>2, SameFilter
      <3> QED
        BY <2>3, <2>5, <3>1, <3>3
    <2> QED
      BY <2>6, <2>7
  <1>8. FiltersTypeOK'
    <2>1. filters' \in [Clients -> FilterRecord]
      BY <1>7 DEF Mine
    <2> QED
      BY <1>2, <2>1 DEF FiltersInv, FiltersTypeOK
  <1> QED
    BY <1>6, <1>7, <1>8 DEF FiltersInv

LEMMA RollbackFilters ==
    ASSUME FeesTypeOK, FiltersInv, NEW to \in 0 .. MaxBlocks, Rollback(to) PROVE FiltersInv'
  <1>1. /\ chain \in Seq(Block) /\ to \in Nat /\ to < Len(chain) /\ Len(chain) \in Nat
        /\ chain' = SubSeq(chain, 1, to)
        /\ wiped' = wiped \cup {chain[n] : n \in to + 1 .. Len(chain)}
        /\ UNCHANGED <<mined, announcing, filters, made, listeners>>
    BY ListenersAssumption DEF Rollback, FeesTypeOK
  <1>2. DOMAIN chain' = 1 .. to /\ \A n \in 1 .. to : chain'[n] = chain[n]
    BY <1>1
  <1>3. DOMAIN chain = 1 .. Len(chain)
    BY <1>1
  <1>4. \A n \in DOMAIN chain : n \in 1 .. to \/ n \in to + 1 .. Len(chain)
    BY <1>1, <1>3
  <1>5. Range(chain) \cup wiped \subseteq Range(chain') \cup wiped'
    <2>1. ASSUME NEW b \in Range(chain)
          PROVE  b \in Range(chain') \cup wiped'
      <3>1. PICK n \in DOMAIN chain : b = chain[n]
        BY DEF Range
      <3>2. CASE n \in 1 .. to
        BY <1>2, <3>1, <3>2 DEF Range
      <3>3. CASE n \in to + 1 .. Len(chain)
        BY <1>1, <3>1, <3>3
      <3> QED
        BY <1>4, <3>2, <3>3
    <2> QED
      BY <1>1, <2>1
  <1>6. Range(chain') \subseteq Range(chain)
    <2>1. \A n \in 1 .. to : n \in DOMAIN chain
      BY <1>1, <1>3
    <2> QED
      BY <1>2, <2>1 DEF Range
  <1>7. BlocksInOrder'
    <2>1. Ordered(chain')
      <3>1. \A n \in 1 .. to : n \in DOMAIN chain
        BY <1>1, <1>3
      <3>2. Ordered(chain)
        BY DEF FiltersInv, BlocksInOrder
      <3> QED
        BY <1>2, <3>1, <3>2 DEF Ordered
    <2>2. UpTo(chain', mined')
      BY <1>1, <1>6 DEF FiltersInv, BlocksInOrder, UpTo
    <2> QED
      BY <1>1, <1>5, <2>1, <2>2 DEF FiltersInv, BlocksInOrder
  <1>8. ASSUME NEW c \in Clients
        PROVE  FilterOK(filters[c])'
    <2>1. PICK f : f = filters[c]
      OBVIOUS
    <2>2. FilterOK(f)
      BY <2>1 DEF FiltersInv
    <2>3. Announced' = Announced
      BY <1>1 DEF Announced
    <2>4. /\ f.phase = "installed" => Channel(f)' \in listeners'
          /\ f.phase = "read" /\ ~f.raced => announcing' = <<>>
      BY <1>1, <2>2 DEF FilterOK, Channel
    <2>5. FilterOK(f)'
      BY <1>1, <1>5, <2>2, <2>3, <2>4, SameFilter
    <2> QED
      BY <1>1, <2>1, <2>5
  <1> QED
    BY <1>1, <1>7, <1>8 DEF FiltersInv, FiltersTypeOK

LEMMA NotifyFilters ==
    ASSUME FeesTypeOK, FiltersInv, Notify PROVE FiltersInv'
  <1>1. PICK news : news = announcing[1]
    OBVIOUS
  <1>2. /\ news \in Block /\ news.id = mined /\ mined \in Nat
        /\ news \in Range(chain) \cup wiped
        /\ announcing # <<>> /\ announcing' = <<>>
        /\ Announced = mined - 1 /\ Announced' = mined
        /\ UNCHANGED <<chain, mined, wiped, made>>
    <2>1. announcing \in Seq(Block) /\ announcing # <<>> /\ announcing' = <<>>
      BY DEF FeesTypeOK, Notify
    <2>2. 1 \in DOMAIN announcing /\ announcing[1] \in Block
      BY <2>1
    <2>3. news \in Range(announcing)
      BY <1>1, <2>2 DEF Range
    <2>4. mined \in Nat /\ mined' = mined
      BY DEF FeesTypeOK, Notify
    <2> QED
      BY <1>1, <2>1, <2>2, <2>3, <2>4 DEF FiltersInv, BlocksInOrder, Announced, Notify
  <1>3. BlocksInOrder'
    <2>1. Range(announcing') = {}
      BY <1>2, EmptyRange
    <2> QED
      BY <1>2, <2>1 DEF FiltersInv, BlocksInOrder, Ordered, UpTo
  <1>4. ASSUME NEW c \in Clients
        PROVE  filters'[c] \in FilterRecord /\ FilterOK(filters[c])'
    <2>1. PICK f \in FilterRecord : f = filters[c]
      BY DEF FiltersInv, FiltersTypeOK
    <2>2. PICK g : g = [f EXCEPT !.queue = Send(f.queue, Channel(f), news),
                                 !.since = IF f.phase = "installed"
                                           THEN f.since \cup {news} ELSE f.since]
      OBVIOUS
    <2>3. filters'[c] = g
      BY <1>1, <2>1, <2>2 DEF Notify
    <2>4. FilterOK(f)
      BY <2>1 DEF FiltersInv
    <2>5. /\ f.queue \in Seq(Block) /\ f.told \in Seq(Block) /\ f.historic \in Seq(Block)
          /\ f.since \in SUBSET Block
      BY DEF FilterRecord
    <2>6. CASE f.phase # "installed"
      <3>1. Channel(f) \notin Reached
        BY <2>4, <2>6 DEF FilterOK, NoChannel, Channel, Reached, FiltersInv, FiltersTypeOK
      <3>2. g = f
        BY <2>2, <2>6, <3>1 DEF Send, FilterRecord
      <3>3. f.phase = "read" => f.raced
        BY <1>2, <2>4 DEF FilterOK
      <3>4. CASE f.raced
        BY <2>3, <2>4, <2>6, <3>2, <3>4 DEF FilterOK, NoChannel
      <3>5. CASE ~f.raced
        <4>1. /\ f.phase = "none" /\ f.historic = <<>> /\ f.queue = <<>> /\ f.told = <<>>
              /\ f.since = {} /\ f.id = 0
          BY <2>4, <2>6, <3>3, <3>5 DEF FilterOK, NoChannel, FilterRecord
        <4>2. InOrder(f)'
          BY <4>1, EmptyRange DEF InOrder, Ordered, Precede, UpTo
        <4>3. Covered(f)'
          BY <4>1, EmptyRange DEF Covered, Due
        <4>4. FilterOK(f)'
          BY <4>1, <4>2, <4>3 DEF FilterOK, NoChannel
        <4> QED
          BY <2>3, <3>2, <4>4
      <3> QED
        BY <3>4, <3>5
    <2>7. CASE f.phase = "installed"
      <3>1. Channel(f) \in Reached
        BY <2>1, <2>4, <2>7 DEF FilterOK, Reached, Open
      <3>2. PICK queue : queue = Append(f.queue, news)
        OBVIOUS
      <3>3. queue \in Seq(Block) /\ Range(queue) = Range(f.queue) \cup {news}
        BY <1>2, <2>5, <3>2, RangeAppend
      <3>4. g = [f EXCEPT !.queue = queue, !.since = f.since \cup {news}]
        BY <2>2, <2>7, <3>1, <3>2 DEF Send
      <3>5. /\ g \in FilterRecord
            /\ g.phase = "installed" /\ g.queue = queue /\ g.since = f.since \cup {news}
            /\ g.id = f.id /\ g.told = f.told /\ g.historic = f.historic /\ g.of = f.of
            /\ g.raced = f.raced
        BY <1>2, <2>5, <2>7, <3>3, <3>4 DEF FilterRecord
      <3>6. Channel(g)' \in listeners'
        BY <3>1, <3>5 DEF Channel, Notify
      <3>7. ASSUME ~f.raced
            PROVE  InOrder(g)' /\ Covered(g)'
        <4>1. InOrder(f) /\ Covered(f)
          BY <2>4, <3>7 DEF FilterOK
        <4>2. \A b \in Range(f.told) \cup Range(f.historic) \cup Range(f.queue) :
                 b.id \in Nat /\ b.id <= mined - 1
          <5>1. \A b \in Range(f.told) \cup Range(f.historic) \cup Range(f.queue) : b \in Block
            BY <2>5 DEF Range
          <5> QED
            BY <1>2, <4>1, <5>1 DEF InOrder, UpTo, Block
        <4>3. \A b \in Range(f.told) \cup Range(f.historic) \cup Range(f.queue) :
                 b.id < news.id /\ b.id <= mined
          BY <1>2, <4>2
        <4>4. Ordered(queue)
          BY <1>2, <2>5, <3>2, <4>1, <4>3, OrderedAppend DEF InOrder
        <4>5. Precede(f.told, queue) /\ Precede(f.historic, queue)
          BY <3>3, <4>1, <4>3 DEF InOrder, Precede
        <4>6. /\ \A b \in Range(f.told) : b.id <= mined
              /\ \A b \in Range(f.historic) : b.id <= mined
              /\ \A b \in Range(queue) : b.id <= mined
          BY <1>2, <3>3, <4>3
        <4>7. InOrder(g)'
          BY <1>2, <3>5, <4>1, <4>4, <4>5, <4>6 DEF InOrder, UpTo
        <4>8. Covered(g)'
          BY <1>2, <3>3, <3>5, <4>1 DEF Covered, Due
        <4> QED
          BY <4>7, <4>8
      <3> QED
        BY <2>3, <3>5, <3>6, <3>7 DEF FilterOK
    <2> QED
      BY <2>6, <2>7
  <1>5. FiltersTypeOK'
    <2>1. filters' \in [Clients -> FilterRecord]
      BY <1>4 DEF Notify
    <2>2. <<"filter", 0>> \notin listeners'
      BY DEF FiltersInv, FiltersTypeOK, Notify, Reached
    <2> QED
      BY <1>2, <2>1, <2>2 DEF FiltersInv, FiltersTypeOK
  <1> QED
    BY <1>3, <1>4, <1>5 DEF FiltersInv

LEMMA ReadFilters ==
    ASSUME FeesTypeOK, FiltersInv, NEW c \in Clients, ReadHistoric(c) PROVE FiltersInv'
  <1>1. PICK historic : historic = Logged(chain)
    OBVIOUS
  <1>2. PICK g : g = [NoFilter EXCEPT !.phase = "read", !.historic = historic,
                                      !.since = Range(chain), !.raced = announcing # <<>>]
    OBVIOUS
  <1>3. /\ chain \in Seq(Block) /\ mined \in Nat
        /\ Ordered(chain) /\ UpTo(chain, mined)
    BY DEF FeesTypeOK, FiltersInv, BlocksInOrder
  <1>4. /\ historic \in Seq(Block)
        /\ Range(historic) = Range(chain) \cap WithLogs(chain)
        /\ Ordered(historic)
    BY <1>1, <1>3, SelectedBlocks DEF Logged
  <1>5. Range(chain) \subseteq Block
    BY <1>3 DEF Range
  <1>6. /\ g \in FilterRecord
        /\ g.phase = "read" /\ g.of = "logs" /\ g.id = 0 /\ g.queue = <<>> /\ g.told = <<>>
        /\ g.historic = historic /\ g.since = Range(chain) /\ g.raced = (announcing # <<>>)
    <2>1. g = [phase |-> "read", of |-> "logs", id |-> 0, historic |-> historic, queue |-> <<>>,
               expired |-> FALSE, told |-> <<>>, since |-> Range(chain),
               raced |-> announcing # <<>>]
      BY <1>2 DEF NoFilter
    <2>2. (announcing # <<>>) \in BOOLEAN /\ <<>> \in Seq(Block)
      OBVIOUS
    <2>3. g \in FilterRecord
      BY <2>1, <2>2, <1>4, <1>5 DEF FilterRecord
    <2> QED
      BY <2>1, <2>3
  <1>7. UNCHANGED <<node, made, listeners>> /\ filters' = [filters EXCEPT ![c] = g]
    BY <1>1, <1>2 DEF ReadHistoric
  <1>8. chain' = chain /\ wiped' = wiped /\ announcing' = announcing /\ mined' = mined
    BY <1>7 DEF node
  <1>9. ASSUME ~g.raced
        PROVE  InOrder(g)' /\ Covered(g)'
    <2>1. announcing = <<>> /\ Announced' = mined
      BY <1>6, <1>8, <1>9 DEF Announced
    <2>2. InOrder(g)'
      BY <1>3, <1>4, <1>6, <2>1, EmptyRange DEF InOrder, Ordered, Precede, UpTo
    <2>3. Covered(g)'
      BY <1>4, <1>6, <1>8, EmptyRange DEF Covered, Due, WithLogs
    <2> QED
      BY <2>2, <2>3
  <1>10. FilterOK(g)'
    BY <1>6, <1>8, <1>9 DEF FilterOK, NoChannel
  <1> QED
    BY <1>6, <1>7, <1>10, OneFilter DEF FiltersInv, FiltersTypeOK

LEMMA InstallFilters ==
    ASSUME FiltersInv, NEW c \in Clients, NEW f \in FilterRecord, f.phase # "installed",
           FilterOK(f), Install(c, f)
    PROVE  FiltersInv'
  <1>1. PICK g : g = [f EXCEPT !.phase = "installed", !.id = made + 1]
    OBVIOUS
  <1>2. /\ made \in Nat /\ made' = made + 1 /\ UNCHANGED node
        /\ filters' = [filters EXCEPT ![c] = g]
        /\ listeners' = listeners \cup {<<"filter", made + 1>>}
    BY <1>1 DEF Install, FiltersInv, FiltersTypeOK
  <1>3. /\ g \in FilterRecord
        /\ g.phase = "installed" /\ g.id = made + 1
        /\ g.of = f.of /\ g.historic = f.historic /\ g.queue = f.queue /\ g.told = f.told
        /\ g.since = f.since /\ g.raced = f.raced
    <2>1. g = [phase |-> "installed", of |-> f.of, id |-> made + 1, historic |-> f.historic,
               queue |-> f.queue, expired |-> f.expired, told |-> f.told, since |-> f.since,
               raced |-> f.raced]
      BY <1>1 DEF FilterRecord
    <2>2. made + 1 \in Nat
      BY <1>2
    <2>3. g \in FilterRecord
      BY <2>1, <2>2 DEF FilterRecord
    <2> QED
      BY <2>1, <2>3
  <1>4. <<"filter", 0>> \notin listeners'
    <2>1. <<"filter", made + 1>> # <<"filter", 0>>
      BY <1>2
    <2> QED
      BY <1>2, <2>1 DEF FiltersInv, FiltersTypeOK
  <1>5. chain' = chain /\ wiped' = wiped /\ Announced' = Announced
    BY <1>2, SameBlocks DEF node, FiltersInv
  <1>6. ASSUME ~g.raced
        PROVE  InOrder(g)' /\ Covered(g)'
    <2>1. InOrder(f) /\ Covered(f)
      BY <1>3, <1>6 DEF FilterOK
    <2>2. InOrder(g)'
      BY <1>3, <1>5, <2>1 DEF InOrder
    <2>3. Covered(g)'
      BY <1>3, <1>5, <2>1 DEF Covered, Due
    <2> QED
      BY <2>2, <2>3
  <1>7. Channel(g)' \in listeners'
    BY <1>2, <1>3 DEF Channel
  <1>8. FilterOK(g)'
    BY <1>3, <1>6, <1>7 DEF FilterOK
  <1>9. made' \in Nat /\ listeners \subseteq listeners'
    BY <1>2
  <1> QED
    BY <1>2, <1>3, <1>4, <1>8, <1>9, OneFilter

LEMMA NewFilters ==
    ASSUME FiltersInv, NEW c \in Clients,
           NewFilterFrom(c) \/ \E of \in {"logs", "blocks"} : NewFilter(c, of)
    PROVE  FiltersInv'
  <1>1. CASE NewFilterFrom(c)
    <2>1. PICK f \in FilterRecord : f = filters[c]
      BY DEF FiltersInv, FiltersTypeOK
    <2>2. f.phase # "installed" /\ FilterOK(f) /\ Install(c, f)
      BY <1>1, <2>1 DEF NewFilterFrom, FiltersInv
    <2> QED
      BY <2>2, InstallFilters
  <1>2. CASE \E of \in {"logs", "blocks"} : NewFilter(c, of)
    <2>1. PICK of \in {"logs", "blocks"} : NewFilter(c, of)
      BY <1>2
    <2>2. PICK f : f = [NoFilter EXCEPT !.of = of]
      OBVIOUS
    <2>3. /\ f \in FilterRecord
          /\ f.phase = "none" /\ f.id = 0 /\ f.historic = <<>> /\ f.queue = <<>>
          /\ f.told = <<>> /\ f.since = {}
      <3>1. f = [phase |-> "none", of |-> of, id |-> 0, historic |-> <<>>, queue |-> <<>>,
                 expired |-> FALSE, told |-> <<>>, since |-> {}, raced |-> FALSE]
        BY <2>2 DEF NoFilter
      <3>2. <<>> \in Seq(Block)
        OBVIOUS
      <3>3. f \in FilterRecord
        BY <3>1, <3>2 DEF FilterRecord
      <3> QED
        BY <3>1, <3>3
    <2>4. InOrder(f) /\ Covered(f)
      BY <2>3, EmptyRange DEF InOrder, Ordered, Precede, UpTo, Covered, Due
    <2>5. FilterOK(f)
      BY <2>3, <2>4 DEF FilterOK, NoChannel
    <2> QED
      BY <2>1, <2>2, <2>3, <2>5, InstallFilters DEF NewFilter
  <1> QED
    BY <1>1, <1>2

LEMMA PollFilters ==
    ASSUME FeesTypeOK, FiltersInv, NEW c \in Clients, GetFilterChanges(c) PROVE FiltersInv'
  <1>1. PICK f \in FilterRecord : f = filters[c]
    BY DEF FiltersInv, FiltersTypeOK
  <1>2. f.phase = "installed" /\ FilterOK(f)
    BY <1>1 DEF GetFilterChanges, FiltersInv
  <1>3. PICK all : all = f.told \o Changes(f)
    OBVIOUS
  <1>4. PICK g : g = [f EXCEPT !.historic = <<>>, !.queue = <<>>, !.expired = FALSE, !.told = all]
    OBVIOUS
  <1>5. UNCHANGED <<node, made, listeners>> /\ filters' = [filters EXCEPT ![c] = g]
    BY <1>1, <1>3, <1>4 DEF GetFilterChanges, HistoricLeft
  <1>6. chain' = chain /\ wiped' = wiped /\ Announced' = Announced
    BY <1>5, SameBlocks DEF node, FiltersInv
  <1>7. all \in Seq(Block)
    <2>1. /\ f.told \in Seq(Block) /\ f.historic \in Seq(Block) /\ f.queue \in Seq(Block)
      BY DEF FilterRecord
    <2>2. Selected(f.queue, WithLogs(chain)) \in Seq(Block)
      BY <2>1, SelectedBlocks
    <2>3. Changes(f) \in Seq(Block)
      BY <2>1, <2>2, RangeConcat DEF Changes
    <2> QED
      BY <1>3, <2>1, <2>3, RangeConcat
  <1>8. /\ g \in FilterRecord
        /\ g.phase = "installed" /\ g.id = f.id /\ g.of = f.of /\ g.since = f.since
        /\ g.raced = f.raced /\ g.historic = <<>> /\ g.queue = <<>> /\ g.told = all
    <2>1. g = [phase |-> f.phase, of |-> f.of, id |-> f.id, historic |-> <<>>, queue |-> <<>>,
               expired |-> FALSE, told |-> all, since |-> f.since, raced |-> f.raced]
      BY <1>4 DEF FilterRecord
    <2>2. <<>> \in Seq(Block)
      OBVIOUS
    <2>3. g \in FilterRecord
      BY <2>1, <2>2, <1>7 DEF FilterRecord
    <2> QED
      BY <2>1, <2>3, <1>2
  <1>9. ASSUME ~g.raced
        PROVE  InOrder(g)' /\ Covered(g)'
    <2>1. InOrder(f) /\ Covered(f)
      BY <1>2, <1>8, <1>9 DEF FilterOK
    <2>2. Ordered(all) /\ UpTo(all, Announced) /\ Due(f) \subseteq Range(all)
      BY <1>3, <2>1, ChangesFollow
    <2>3. InOrder(g)'
      BY <1>6, <1>8, <2>2, EmptyRange DEF InOrder, Ordered, Precede, UpTo
    <2>4. Covered(g)'
      BY <1>6, <1>8, <2>2, EmptyRange DEF Covered, Due
    <2> QED
      BY <2>3, <2>4
  <1>10. Channel(g)' \in listeners'
    BY <1>2, <1>5, <1>8 DEF FilterOK, Channel
  <1>11. FilterOK(g)'
    BY <1>8, <1>9, <1>10 DEF FilterOK
  <1> QED
    BY <1>5, <1>8, <1>11, OneFilter DEF FiltersInv, FiltersTypeOK

LEMMA ExpireFilters ==
    ASSUME FiltersInv, NEW c \in Clients, Expire(c) PROVE FiltersInv'
  <1>1. PICK f \in FilterRecord : f = filters[c]
    BY DEF FiltersInv, FiltersTypeOK
  <1>2. PICK g : g = [f EXCEPT !.expired = TRUE]
    OBVIOUS
  <1>3. /\ f.phase = "installed" /\ FilterOK(f)
        /\ UNCHANGED <<node, made, listeners>> /\ filters' = [filters EXCEPT ![c] = g]
    BY <1>1, <1>2 DEF Expire, FiltersInv, FiltersTypeOK
  <1>4. /\ g \in FilterRecord
        /\ g.phase = f.phase /\ g.id = f.id /\ g.of = f.of /\ g.since = f.since
        /\ g.raced = f.raced /\ g.historic = f.historic /\ g.queue = f.queue /\ g.told = f.told
    BY <1>2 DEF FilterRecord
  <1>5. chain' = chain /\ wiped' = wiped /\ Announced' = Announced
    BY <1>3, SameBlocks DEF node, FiltersInv
  <1>6. ASSUME ~g.raced
        PROVE  InOrder(g)' /\ Covered(g)'
    <2>1. InOrder(f) /\ Covered(f)
      BY <1>3, <1>4, <1>6 DEF FilterOK
    <2>2. InOrder(g)'
      BY <1>4, <1>5, <2>1 DEF InOrder
    <2>3. Covered(g)'
      BY <1>4, <1>5, <2>1 DEF Covered, Due
    <2> QED
      BY <2>2, <2>3
  <1>7. Channel(g)' \in listeners'
    BY <1>3, <1>4 DEF FilterOK, Channel
  <1>8. FilterOK(g)'
    BY <1>3, <1>4, <1>6, <1>7 DEF FilterOK
  <1> QED
    BY <1>3, <1>4, <1>8, OneFilter DEF FiltersInv, FiltersTypeOK

LEMMA UninstallFilters ==
    ASSUME FiltersInv, NEW c \in Clients, UninstallFilter(c) PROVE FiltersInv'
  <1>1. PICK g : g = NoFilter
    OBVIOUS
  <1>2. g \in FilterRecord /\ FilterOK(g)'
    BY <1>1, NoFilterOK
  <1>3. UNCHANGED <<node, made, listeners>> /\ filters' = [filters EXCEPT ![c] = g]
    BY <1>1 DEF UninstallFilter
  <1> QED
    BY <1>2, <1>3, OneFilter DEF FiltersInv, FiltersTypeOK

\* The other listeners, and the filters that are evicted.
LEMMA OtherFilters ==
    ASSUME FiltersInv, UNCHANGED <<node, made, listeners>>,
           DOMAIN filters' = Clients,
           \A c \in Clients : filters'[c] = filters[c] \/ filters'[c] = NoFilter,
           filters' \in [Clients -> FilterRecord]
    PROVE  FiltersInv'
  <1>1. BlocksInOrder' /\ Announced' = Announced
    BY SameBlocks DEF FiltersInv
  <1>2. chain' = chain /\ wiped' = wiped /\ announcing' = announcing
    BY DEF node
  <1>3. ASSUME NEW c \in Clients
        PROVE  FilterOK(filters[c])'
    <2>1. PICK f : f = filters'[c]
      OBVIOUS
    <2>2. CASE f = filters[c]
      <3>1. FilterOK(f)
        BY <2>2 DEF FiltersInv
      <3>2. /\ f.phase = "installed" => Channel(f)' \in listeners'
            /\ f.phase = "read" /\ ~f.raced => announcing' = <<>>
        BY <1>2, <3>1 DEF FilterOK, Channel
      <3>3. FilterOK(f)'
        BY <1>1, <1>2, <3>1, <3>2, SameFilter
      <3> QED
        BY <2>1, <3>3
    <2>3. CASE f = NoFilter
      BY <2>1, <2>3, NoFilterOK
    <2> QED
      BY <2>1, <2>2, <2>3
  <1> QED
    BY <1>1, <1>3 DEF FiltersInv, FiltersTypeOK

LEMMA NextFilters ==
    ASSUME FeesInv, FiltersInv, [ListenNext]_listenVars PROVE FiltersInv'
  <1>0. FeesTypeOK
    BY DEF FeesInv
  <1>1. ASSUME NEW logs \in BOOLEAN, Mine(logs) PROVE FiltersInv'
    BY <1>0, <1>1, MineFilters
  <1>2. CASE Notify
    BY <1>0, <1>2, NotifyFilters
  <1>3. ASSUME NEW to \in 0 .. MaxBlocks, Rollback(to) PROVE FiltersInv'
    BY <1>0, <1>3, RollbackFilters
  <1>4. ASSUME NEW c \in Clients,
               \/ ReadHistoric(c)
               \/ NewFilterFrom(c)
               \/ \E of \in {"logs", "blocks"} : NewFilter(c, of)
               \/ GetFilterChanges(c)
               \/ Expire(c)
               \/ UninstallFilter(c)
        PROVE  FiltersInv'
    BY <1>0, <1>4, ReadFilters, NewFilters, PollFilters, ExpireFilters, UninstallFilters
  <1>5. CASE Evict
    <2>1. PICK none : none = NoFilter
      OBVIOUS
    <2>2. NoFilter \in FilterRecord
      BY <2>1, NoFilterOK
    <2>3. /\ filters' = [c \in Clients |-> IF filters[c].expired THEN NoFilter ELSE filters[c]]
          /\ UNCHANGED <<node, made, listeners>>
      BY <1>5 DEF Evict
    <2>4. filters \in [Clients -> FilterRecord]
      BY DEF FiltersInv, FiltersTypeOK
    <2>5. /\ DOMAIN filters' = Clients
          /\ \A c \in Clients : filters'[c] = filters[c] \/ filters'[c] = NoFilter
      BY <2>3
    <2>6. \A c \in Clients : filters'[c] \in FilterRecord
      BY <2>2, <2>4, <2>5
    <2>7. filters' \in [Clients -> FilterRecord]
      BY <2>3, <2>6
    <2> QED
      BY <2>3, <2>5, <2>7, OtherFilters
  <1>6. CASE UNCHANGED <<node, filters, made, listeners>>
    <2>1. /\ filters' = filters /\ filters \in [Clients -> FilterRecord]
          /\ UNCHANGED <<node, made, listeners>>
      BY <1>6 DEF FiltersInv, FiltersTypeOK
    <2>2. DOMAIN filters' = Clients
      BY <2>1
    <2> QED
      BY <2>1, <2>2, OtherFilters
  <1>7. Poll \/ Request \/ PollFees \/ UNCHANGED listenVars
           => UNCHANGED <<node, filters, made, listeners>>
    BY DEF Poll, PollBlock, PollEmpty, PollWiped, Polled, Request, PollFees, listenVars, node
  <1> QED
    BY <1>1, <1>2, <1>3, <1>4, <1>5, <1>6, <1>7 DEF ListenNext

(* The polled filters tell each block announced since they were made once  *)
(* and in order, whatever is rolled back or evicted in between, for any    *)
(* number of clients, blocks, rollbacks and polls (filter.rs).  This holds *)
(* of all filters but those that are being made while a block is stored.   *)
THEOREM EachOnceTrue == ListenSpec => []EachOnce
  <1>1. FeesInv /\ FiltersInv => EachOnce
    BY FiltersGiveEachOnce DEF FeesInv
  <1>2. FeesInv /\ FiltersInv /\ [ListenNext]_listenVars => FeesInv' /\ FiltersInv'
    BY NextFees, NextFilters
  <1>3. ListenInit => FeesInv /\ FiltersInv
    BY InitFees, InitFilters
  <1> QED
    BY <1>1, <1>2, <1>3, PTL DEF ListenSpec
=============================================================================
