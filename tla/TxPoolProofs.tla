---------------------------- MODULE TxPoolProofs ----------------------------
(***************************************************************************)
(* TxPool keeps its bookkeeping consistent, for every set of transactions, *)
(* every bound and every interleaving of the handlers; the node around it  *)
(* (AnvilNode) implements it and feeds the executor in nonce order.        *)
(***************************************************************************)
EXTENDS AnvilNode, SequenceTheorems, FiniteSetTheorems, WellFoundedInduction, TLAPS

-----------------------------------------------------------------------------
(* Markers.                                                                *)

(* A transaction's own marker and, past nonce 0, its predecessor's marker   *)
(* are known markers, and the two differ (to_marker).                       *)
LEMMA MarkerFacts ==
    \A t \in Txs :
        /\ t.nonce \in Nat
        /\ Marker(t) \in Markers
        /\ t.nonce > 0 => PrevMarker(t) \in Markers
        /\ PrevMarker(t) # Marker(t)
BY TxsAssumption DEF Marker, PrevMarker, Markers

(* Removing one occurrence from a list of unlocks keeps its type and no     *)
(* other entry grows.                                                       *)
LEMMA RemoveOneFacts ==
    ASSUME NEW u \in [Txs -> Nat], NEW S
    PROVE  /\ RemoveOne(u, S) \in [Txs -> Nat]
           /\ \A d \in Txs : RemoveOne(u, S)[d] <= u[d]
           /\ \A d \in Txs : d \notin S => RemoveOne(u, S)[d] = u[d]
BY DEF RemoveOne

-----------------------------------------------------------------------------
(* Queues of batches.                                                      *)

(* Appending a batch adds its members (Push models VecDeque::extend).       *)
LEMMA PushFacts ==
    ASSUME NEW q \in Seq(SUBSET PoolTransaction), NEW b \in SUBSET PoolTransaction
    PROVE  /\ Push(q, b) \in Seq(SUBSET PoolTransaction)
           /\ Items(Push(q, b)) = Items(q) \cup b
<1>1. CASE b = {}
  BY <1>1 DEF Push
<1>2. CASE b # {}
  <2>. DEFINE r == Append(q, b)
  <2>1. r \in Seq(SUBSET PoolTransaction) /\ Len(r) = Len(q) + 1 /\ r[Len(r)] = b
        /\ \A i \in 1 .. Len(q) : r[i] = q[i]
    BY AppendProperties
  <2>2. DOMAIN q = 1 .. Len(q) /\ DOMAIN r = 1 .. (Len(q) + 1) /\ Len(q) \in Nat
    BY <2>1, LenProperties
  <2>3. Items(r) = Items(q) \cup b
    BY <2>1, <2>2 DEF Items
  <2>. QED BY <1>2, <2>1, <2>3 DEF Push
<1>. QED BY <1>1, <1>2

(* Popping takes p away and nothing else, and keeps the queue well formed.  *)
LEMMA PopFacts ==
    ASSUME NEW q \in Seq(SUBSET PoolTransaction), NEW p \in Head(q), q # <<>>,
           BatchesOK(q)
    PROVE  /\ Pop(q, p) \in Seq(SUBSET PoolTransaction)
           /\ p \in Items(q) /\ p \in PoolTransaction
           /\ Items(Pop(q, p)) = Items(q) \ {p}
           /\ \A r \in Items(Pop(q, p)) : r.tx # p.tx
           /\ BatchesOK(Pop(q, p))
<1>1. /\ Pop(q, p) \in Seq(SUBSET PoolTransaction)
      /\ DOMAIN q = 1 .. Len(q) /\ Len(q) \in Nat \ {0}
      /\ DOMAIN Pop(q, p) = 1 .. Len(Pop(q, p))
      /\ p \in q[1]
      /\ \/ /\ q[1] = {p} /\ Len(Pop(q, p)) = Len(q) - 1
            /\ \A i \in 1 .. (Len(q) - 1) : Pop(q, p)[i] = q[i + 1]
         \/ /\ q[1] # {p} /\ Len(Pop(q, p)) = Len(q)
            /\ Pop(q, p)[1] = q[1] \ {p}
            /\ \A i \in 2 .. Len(q) : Pop(q, p)[i] = q[i]
  <2>1. /\ Head(q) = q[1] /\ Tail(q) \in Seq(SUBSET PoolTransaction) /\ Len(Tail(q)) = Len(q) - 1
        /\ \A i \in 1 .. Len(Tail(q)) : Tail(q)[i] = q[i + 1]
        /\ DOMAIN q = 1 .. Len(q) /\ Len(q) \in Nat \ {0}
        /\ Head(q) \in SUBSET PoolTransaction
    BY HeadTailProperties, LenProperties, EmptySeq
  <2>2. CASE Head(q) = {p}
    BY <2>1, <2>2, LenProperties DEF Pop
  <2>3. CASE Head(q) # {p}
    <3>. DEFINE h == <<Head(q) \ {p}>>
    <3>1. h \in Seq(SUBSET PoolTransaction) /\ Len(h) = 1 /\ h[1] = q[1] \ {p}
      BY <2>1
    <3>2. /\ h \o Tail(q) \in Seq(SUBSET PoolTransaction)
          /\ Len(h \o Tail(q)) = Len(h) + Len(Tail(q))
          /\ \A i \in 1 .. (Len(h) + Len(Tail(q))) :
                (h \o Tail(q))[i] = IF i <= Len(h) THEN h[i]
                                    ELSE Tail(q)[i - Len(h)]
      BY <2>1, <3>1, ConcatProperties
    <3>3. (h \o Tail(q))[1] = q[1] \ {p}
      BY <2>1, <3>1, <3>2
    <3>4. \A i \in 2 .. Len(q) : (h \o Tail(q))[i] = q[i]
      BY <2>1, <3>1, <3>2
    <3>5. Pop(q, p) = h \o Tail(q)
      BY <2>3 DEF Pop
    <3>6. /\ Pop(q, p) \in Seq(SUBSET PoolTransaction) /\ Len(Pop(q, p)) = Len(q)
          /\ Pop(q, p)[1] = q[1] \ {p}
          /\ \A i \in 2 .. Len(q) : Pop(q, p)[i] = q[i]
      BY <2>1, <3>1, <3>2, <3>3, <3>4, <3>5
    <3>7. DOMAIN Pop(q, p) = 1 .. Len(Pop(q, p))
      BY <3>6, LenProperties
    <3>. QED BY <2>1, <2>3, <3>6, <3>7
  <2>. QED BY <2>2, <2>3
<1>. DEFINE r == Pop(q, p)
<1>. HIDE DEF r
<1>2. /\ r \in Seq(SUBSET PoolTransaction)
      /\ DOMAIN q = 1 .. Len(q) /\ Len(q) \in Nat \ {0}
      /\ DOMAIN r = 1 .. Len(r)
      /\ p \in q[1]
  BY <1>1, Zenon DEF r
<1>3. \/ /\ q[1] = {p} /\ Len(r) = Len(q) - 1
         /\ \A i \in 1 .. (Len(q) - 1) : r[i] = q[i + 1]
      \/ /\ q[1] # {p} /\ Len(r) = Len(q) /\ r[1] = q[1] \ {p}
         /\ \A i \in 2 .. Len(q) : r[i] = q[i]
  BY <1>1, Zenon DEF r
<1>4. p \in Items(q) /\ p \in PoolTransaction
  <2>1. 1 \in DOMAIN q
    BY <1>2
  <2>2. q[1] \in SUBSET PoolTransaction
    BY <1>2, <2>1, ElementOfSeq
  <2>. QED BY <1>2, <2>1, <2>2 DEF Items
<1>5. \A i \in DOMAIN q : q[i] # {}
  BY DEF BatchesOK
<1>6. \A i, j \in DOMAIN q : \A x \in q[i], y \in q[j] :
         x.tx = y.tx => i = j /\ x = y
  BY DEF BatchesOK
<1>7. CASE q[1] = {p} /\ Len(r) = Len(q) - 1
           /\ \A i \in 1 .. (Len(q) - 1) : r[i] = q[i + 1]
  <2>0. Len(r) \in Nat /\ 1 \in DOMAIN q
    BY <1>2, <1>7
  <2>1. \A i \in DOMAIN r : i \in Nat /\ i + 1 \in DOMAIN q /\ i + 1 # 1 /\ r[i] = q[i + 1]
    BY <1>2, <1>7
  <2>2. ASSUME NEW i \in DOMAIN r, NEW x \in r[i]
        PROVE  x.tx # p.tx /\ x \in Items(q)
    <3>1. i + 1 \in DOMAIN q /\ i + 1 # 1 /\ x \in q[i + 1]
      BY <2>1, <2>2
    <3>2. x.tx # p.tx
      BY <1>2, <1>6, <2>0, <3>1, Zenon
    <3>. QED BY <3>1, <3>2 DEF Items
  <2>3. Items(r) \subseteq Items(q) \ {p}
    BY <2>2 DEF Items
  <2>4. ASSUME NEW x \in Items(q), x # p
        PROVE  x \in Items(r)
    <3>1. PICK i \in DOMAIN q : x \in q[i]
      BY <2>4 DEF Items
    <3>2. i # 1
      BY <1>7, <2>4, <3>1
    <3>3. i - 1 \in DOMAIN r /\ x \in r[i - 1]
      BY <1>2, <1>7, <3>1, <3>2
    <3>. QED BY <3>3 DEF Items
  <2>5. \A x \in Items(r) : x.tx # p.tx
    BY <2>2 DEF Items
  <2>6. \A i, j \in DOMAIN r : \A x \in r[i], y \in r[j] :
           x.tx = y.tx => i = j /\ x = y
    <3>. SUFFICES ASSUME NEW i \in DOMAIN r, NEW j \in DOMAIN r,
                         NEW x \in r[i], NEW y \in r[j], x.tx = y.tx
                  PROVE  i = j /\ x = y
      OBVIOUS
    <3>1. i + 1 \in DOMAIN q /\ j + 1 \in DOMAIN q /\ x \in q[i + 1] /\ y \in q[j + 1]
      BY <2>1
    <3>2. i + 1 = j + 1 /\ x = y
      BY <1>6, <3>1, Zenon
    <3>. QED BY <2>1, <3>2
  <2>7. BatchesOK(r)
    BY <1>5, <2>1, <2>6 DEF BatchesOK
  <2>. QED BY <1>2, <1>4, <2>3, <2>4, <2>5, <2>7 DEF r
<1>8. CASE /\ q[1] # {p} /\ Len(r) = Len(q) /\ r[1] = q[1] \ {p}
           /\ \A i \in 2 .. Len(q) : r[i] = q[i]
  <2>1. DOMAIN r = DOMAIN q /\ 1 \in DOMAIN q
    BY <1>2, <1>8
  <2>2. \A i \in DOMAIN q : i # 1 => i \in 2 .. Len(q)
    BY <1>2
  <2>3. \A i \in DOMAIN q : i # 1 => r[i] = q[i] /\ p \notin q[i]
    BY <1>2, <1>6, <1>8, <2>1, <2>2, Zenon
  <2>4. \A i \in DOMAIN r : r[i] = q[i] \ {p}
    BY <1>8, <2>1, <2>3
  <2>5. Items(r) = Items(q) \ {p}
    BY <2>1, <2>4 DEF Items
  <2>6. ASSUME NEW i \in DOMAIN q, NEW x \in q[i], x # p
        PROVE  x.tx # p.tx
    BY <1>2, <1>6, <2>1, <2>6, Zenon
  <2>7. \A x \in Items(r) : x.tx # p.tx
    BY <2>1, <2>4, <2>6 DEF Items
  <2>8. \A i \in DOMAIN r : r[i] # {}
    BY <1>2, <1>5, <1>8, <2>1, <2>3
  <2>9. BatchesOK(r)
    BY <1>6, <2>1, <2>4, <2>8 DEF BatchesOK
  <2>. QED BY <1>2, <1>4, <2>5, <2>7, <2>9 DEF r
<1>. QED BY <1>3, <1>7, <1>8

(* Appending a batch of new transactions keeps a queue well formed.         *)
LEMMA PushWellFormed ==
    ASSUME NEW q \in Seq(SUBSET PoolTransaction), NEW b \in SUBSET PoolTransaction,
           BatchesOK(q),
           \A x, y \in b : x.tx = y.tx => x = y,
           \A x \in b, y \in Items(q) : x.tx # y.tx
    PROVE  BatchesOK(Push(q, b))
<1>1. CASE b = {}
  BY <1>1 DEF Push
<1>2. CASE b # {}
  <2>. DEFINE r == Append(q, b)
  <2>1. Len(r) = Len(q) + 1 /\ r[Len(r)] = b /\ \A i \in 1 .. Len(q) : r[i] = q[i]
    BY AppendProperties
  <2>2. DOMAIN q = 1 .. Len(q) /\ DOMAIN r = 1 .. (Len(q) + 1) /\ Len(q) \in Nat
    BY <2>1, LenProperties, AppendProperties
  <2>. HIDE DEF r
  <2>3. \A i \in DOMAIN r : r[i] # {}
    BY <1>2, <2>1, <2>2 DEF BatchesOK
  <2>4. ASSUME NEW i \in DOMAIN r, NEW j \in DOMAIN r,
               NEW x \in r[i], NEW y \in r[j], x.tx = y.tx
        PROVE  i = j /\ x = y
    <3>1. CASE i \in DOMAIN q /\ j \in DOMAIN q
      BY <2>1, <2>2, <2>4, <3>1 DEF BatchesOK
    <3>2. CASE i \notin DOMAIN q /\ j \notin DOMAIN q
      BY <2>1, <2>2, <2>4, <3>2
    <3>3. CASE i \in DOMAIN q /\ j \notin DOMAIN q
      BY <2>1, <2>2, <2>4, <3>3 DEF Items
    <3>4. CASE i \notin DOMAIN q /\ j \in DOMAIN q
      BY <2>1, <2>2, <2>4, <3>4 DEF Items
    <3>. QED BY <3>1, <3>2, <3>3, <3>4
  <2>. QED BY <1>2, <2>3, <2>4 DEF BatchesOK, Push, r
<1>. QED BY <1>1, <1>2

-----------------------------------------------------------------------------
(* PendingTransactions.                                                    *)

PendingInv == PendingTypeOK /\ WaitingIndexed /\ WaitingHasPrev

(* mark_and_unlock(m) takes exactly the transactions that wait for m out of *)
(* the queue and keeps the rest indexed.                                    *)
LEMMA MarkAndUnlockFacts ==
    ASSUME PendingInv, NEW m \in Markers, MarkAndUnlock(m)
    PROVE  /\ PendingInv'
           /\ required_markers'[m] = {}
           /\ \A k \in Markers : required_markers'[k] \subseteq required_markers[k]
           /\ waiting_queue' = waiting_queue \ required_markers[m]
           /\ required_markers[m] \subseteq waiting_queue
<1>1. PendingTypeOK'
  BY DEF PendingInv, PendingTypeOK, MarkAndUnlock
<1>2. /\ required_markers' = [required_markers EXCEPT ![m] = {}]
      /\ waiting_queue' = waiting_queue \ required_markers[m]
      /\ required_markers \in [Markers -> SUBSET Txs]
  BY DEF MarkAndUnlock, PendingInv, PendingTypeOK
<1>3. \A k \in Markers :
         required_markers[k] = {t \in waiting_queue : PrevMarker(t) = k}
  BY DEF PendingInv, WaitingIndexed
<1>4. \A k \in Markers :
         required_markers'[k] = {t \in waiting_queue' : PrevMarker(t) = k}
  BY <1>2, <1>3
<1>5. WaitingHasPrev'
  BY <1>2 DEF PendingInv, WaitingHasPrev
<1>6. WaitingIndexed'
  BY <1>4 DEF WaitingIndexed
<1>. QED BY <1>1, <1>2, <1>3, <1>5, <1>6 DEF PendingInv

(* PendingTransactions::add_transaction indexes the new waiter.             *)
LEMMA PendingAddFacts ==
    ASSUME PendingInv, NEW t \in Txs, t.nonce > 0, PendingAdd(t)
    PROVE  /\ PendingInv'
           /\ waiting_queue' = waiting_queue \cup {t}
           /\ required_markers' =
                [required_markers EXCEPT ![PrevMarker(t)] = @ \cup {t}]
<1>1. Marker(t) \in Markers /\ PrevMarker(t) \in Markers
  BY MarkerFacts
<1>2. PendingTypeOK'
  BY <1>1 DEF PendingInv, PendingTypeOK, PendingAdd
<1>3. /\ required_markers' = [required_markers EXCEPT ![PrevMarker(t)] = @ \cup {t}]
      /\ waiting_queue' = waiting_queue \cup {t}
      /\ required_markers \in [Markers -> SUBSET Txs]
  BY DEF PendingAdd, PendingInv, PendingTypeOK
<1>4. \A k \in Markers :
         required_markers[k] = {u \in waiting_queue : PrevMarker(u) = k}
  BY DEF PendingInv, WaitingIndexed
<1>5. WaitingIndexed'
  BY <1>1, <1>3, <1>4 DEF WaitingIndexed
<1>6. WaitingHasPrev'
  BY <1>3 DEF PendingInv, WaitingHasPrev
<1>. QED BY <1>2, <1>3, <1>5, <1>6 DEF PendingInv

(* PendingTransactions::remove.                                             *)
LEMMA PendingRemoveFacts ==
    ASSUME PendingInv, NEW hashes, PendingRemove(hashes)
    PROVE  /\ PendingInv'
           /\ waiting_queue' \subseteq waiting_queue
           /\ \A k \in Markers : required_markers'[k] \subseteq required_markers[k]
<1>1. PendingTypeOK'
  BY DEF PendingInv, PendingTypeOK, PendingRemove
<1>2. /\ required_markers' =
           [k \in Markers |-> required_markers[k] \ (hashes \cap waiting_queue)]
      /\ waiting_queue' = waiting_queue \ (hashes \cap waiting_queue)
  BY DEF PendingRemove
<1>3. \A k \in Markers :
         required_markers[k] = {u \in waiting_queue : PrevMarker(u) = k}
  BY DEF PendingInv, WaitingIndexed
<1>4. WaitingIndexed'
  BY <1>2, <1>3 DEF WaitingIndexed
<1>5. WaitingHasPrev'
  BY <1>2 DEF PendingInv, WaitingHasPrev
<1>. QED BY <1>1, <1>2, <1>4, <1>5 DEF PendingInv

-----------------------------------------------------------------------------
(* ReadyTransactions.                                                      *)

ReadyInv == ReadyTypeOK /\ MarkersMatchReady /\ Linked

(* The ready transactions reached from `hashes' are ready, include the ready *)
(* ones among them and are closed under unlocks (remove_with_markers).       *)
LEMMA ReachableFacts ==
    ASSUME NEW hashes
    PROVE  /\ Reachable(hashes) \subseteq DOMAIN ready_tx
           /\ hashes \cap DOMAIN ready_tx \subseteq Reachable(hashes)
           /\ Closed(Reachable(hashes))
<1>1. Reachable(hashes) \subseteq DOMAIN ready_tx
  BY DEF Reachable
<1>2. hashes \cap DOMAIN ready_tx \subseteq Reachable(hashes)
  BY Zenon DEF Reachable
<1>3. ASSUME NEW h \in Reachable(hashes), NEW d \in DOMAIN ready_tx,
             ready_tx[h].unlocks[d] > 0
      PROVE  d \in Reachable(hashes)
  BY <1>3, Zenon DEF Reachable, Closed
<1>. QED BY <1>1, <1>2, <1>3 DEF Closed

(* A removal changes at most a transaction's unlocks of itself.             *)
LEMMA AfterRemovalFacts ==
    ASSUME ReadyTypeOK, NEW h \in DOMAIN ready_tx, NEW gone
    PROVE  /\ AfterRemoval(h, gone) \in ReadyTransaction
           /\ AfterRemoval(h, gone).requires = ready_tx[h].requires
           /\ AfterRemoval(h, gone).requires_offset = ready_tx[h].requires_offset
           /\ \A d \in Txs : AfterRemoval(h, gone).unlocks[d] <= ready_tx[h].unlocks[d]
           /\ \A d \in Txs : d # h =>
                 AfterRemoval(h, gone).unlocks[d] = ready_tx[h].unlocks[d]
<1>. DEFINE u == RemoveOne(ready_tx[h].unlocks, {h})
            e == [ready_tx[h] EXCEPT !.unlocks = u]
<1>1. ready_tx[h] \in ReadyTransaction
  BY DEF ReadyTypeOK
<1>2. ready_tx[h].unlocks \in [Txs -> Nat]
  BY <1>1 DEF ReadyTransaction
<1>3. /\ u \in [Txs -> Nat]
      /\ \A d \in Txs : u[d] <= ready_tx[h].unlocks[d]
      /\ \A d \in Txs : d # h => u[d] = ready_tx[h].unlocks[d]
  BY <1>2 DEF RemoveOne
<1>4. AfterRemoval(h, gone) \in {ready_tx[h], e}
  BY DEF AfterRemoval
<1>. HIDE DEF u
<1>5. /\ e \in ReadyTransaction /\ e.unlocks = u
      /\ e.requires = ready_tx[h].requires
      /\ e.requires_offset = ready_tx[h].requires_offset
  BY <1>1, <1>3 DEF ReadyTransaction
<1>. HIDE DEF e
<1>6. CASE AfterRemoval(h, gone) = ready_tx[h]
  BY <1>1, <1>2, <1>6
<1>7. CASE AfterRemoval(h, gone) = e
  BY <1>3, <1>5, <1>7
<1>. QED BY <1>4, <1>6, <1>7

(* remove_with_markers keeps the ready transactions consistent: what hung   *)
(* on a removed transaction is removed as well.                             *)
LEMMA RemoveWithMarkersFacts ==
    ASSUME ReadyInv, NEW hashes, RemoveWithMarkers(hashes)
    PROVE  /\ ReadyInv'
           /\ DOMAIN ready_tx' \subseteq DOMAIN ready_tx
           /\ \A m \in Markers : provided_markers'[m] # NoTx =>
                 provided_markers'[m] = provided_markers[m]
<1>. DEFINE gone == Reachable(hashes)
<1>0. gone \subseteq DOMAIN ready_tx /\ Closed(gone)
  BY ReachableFacts
<1>. HIDE DEF gone
<1>1. /\ ready_tx' = [h \in DOMAIN ready_tx \ gone |-> AfterRemoval(h, gone)]
      /\ provided_markers' =
           [m \in Markers |-> IF \E h \in gone : Marker(h) = m
                              THEN NoTx ELSE provided_markers[m]]
      /\ independent_transactions' = independent_transactions \ gone
      /\ id' = id
  BY DEF RemoveWithMarkers, gone
<1>2. DOMAIN ready_tx' = DOMAIN ready_tx \ gone
  BY <1>1
<1>3. \A h \in DOMAIN ready_tx \ gone :
         /\ ready_tx'[h] \in ReadyTransaction
         /\ ready_tx'[h].requires = ready_tx[h].requires
         /\ ready_tx'[h].requires_offset = ready_tx[h].requires_offset
         /\ \A d \in Txs : ready_tx'[h].unlocks[d] <= ready_tx[h].unlocks[d]
         /\ \A d \in Txs : d # h => ready_tx'[h].unlocks[d] = ready_tx[h].unlocks[d]
  BY <1>1, AfterRemovalFacts DEF ReadyInv
<1>4. ReadyTypeOK'
  BY <1>1, <1>2, <1>3 DEF ReadyInv, ReadyTypeOK
<1>5. /\ DOMAIN ready_tx \subseteq Txs
      /\ \A m \in Markers : provided_markers[m] # NoTx =>
            provided_markers[m] \in DOMAIN ready_tx /\ Marker(provided_markers[m]) = m
      /\ \A h \in DOMAIN ready_tx : Marker(h) \in Markers /\ provided_markers[Marker(h)] = h
  BY MarkerFacts DEF ReadyInv, ReadyTypeOK, MarkersMatchReady, InReady
<1>6. \A m \in Markers : /\ provided_markers'[m] # NoTx =>
                             /\ provided_markers'[m] = provided_markers[m]
                             /\ provided_markers[m] \notin gone
                         /\ provided_markers[m] \in DOMAIN ready_tx \ gone =>
                               provided_markers'[m] = provided_markers[m]
  BY <1>0, <1>1, <1>5
<1>7. \A h \in DOMAIN ready_tx' : provided_markers'[Marker(h)] = h
  BY <1>2, <1>5, <1>6
<1>8. MarkersMatchReady'
  BY <1>2, <1>5, <1>6, <1>7 DEF MarkersMatchReady, InReady
<1>9. ASSUME NEW h \in DOMAIN ready_tx'
      PROVE  /\ RequiresPrev(h, ready_tx'[h].requires)
             /\ \A d \in Txs : ready_tx'[h].unlocks[d] > 0 => PrevMarker(d) = Marker(h)
             /\ h \notin independent_transactions' =>
                  /\ h.nonce > 0
                  /\ ready_tx'[h].requires = {PrevMarker(h)}
                  /\ ready_tx'[h].requires_offset = 0
                  /\ provided_markers'[PrevMarker(h)] \in DOMAIN ready_tx'
                  /\ ready_tx'[provided_markers'[PrevMarker(h)]].unlocks[h] > 0
  <2>1. h \in DOMAIN ready_tx /\ h \notin gone /\ h \in Txs
        /\ ready_tx[h] \in ReadyTransaction /\ ready_tx'[h] \in ReadyTransaction
    BY <1>2, <1>3, <1>5 DEF ReadyInv, ReadyTypeOK
  <2>2. RequiresPrev(h, ready_tx'[h].requires)
    BY <1>3, <2>1 DEF ReadyInv, Linked
  <2>3. ASSUME NEW d \in Txs, ready_tx'[h].unlocks[d] > 0
        PROVE  PrevMarker(d) = Marker(h)
    <3>1. ready_tx'[h].unlocks[d] <= ready_tx[h].unlocks[d]
          /\ ready_tx[h].unlocks[d] \in Nat /\ ready_tx'[h].unlocks[d] \in Nat
      BY <1>3, <2>1 DEF ReadyTransaction
    <3>2. ready_tx[h].unlocks[d] > 0
      BY <2>3, <3>1
    <3>. QED BY <2>1, <3>2 DEF ReadyInv, Linked
  <2>4. ASSUME h \notin independent_transactions'
        PROVE  /\ h.nonce > 0
               /\ ready_tx'[h].requires = {PrevMarker(h)}
               /\ ready_tx'[h].requires_offset = 0
               /\ provided_markers'[PrevMarker(h)] \in DOMAIN ready_tx'
               /\ ready_tx'[provided_markers'[PrevMarker(h)]].unlocks[h] > 0
    <3>. DEFINE q == provided_markers[PrevMarker(h)]
    <3>1. /\ h.nonce > 0
          /\ ready_tx[h].requires = {PrevMarker(h)}
          /\ ready_tx[h].requires_offset = 0
          /\ q \in DOMAIN ready_tx
          /\ ready_tx[q].unlocks[h] > 0
      BY <1>1, <2>1, <2>4 DEF ReadyInv, Linked, InReady
    <3>2. q \notin gone
      BY <1>0, <2>1, <3>1 DEF Closed
    <3>3. PrevMarker(h) \in Markers /\ PrevMarker(h) # Marker(h)
      BY <2>1, <3>1, MarkerFacts
    <3>4. provided_markers'[PrevMarker(h)] = q /\ q # h
      BY <1>5, <1>6, <3>1, <3>2, <3>3, TxsAssumption
    <3>. QED BY <1>2, <1>3, <2>1, <3>1, <3>2, <3>4
  <2>. QED BY <2>2, <2>3, <2>4
<1>10. (independent_transactions \subseteq DOMAIN ready_tx)'
  BY <1>1, <1>2 DEF ReadyInv, Linked
<1>11. Linked'
  BY <1>9, <1>10 DEF Linked, InReady
<1>. QED BY <1>2, <1>4, <1>6, <1>8, <1>11 DEF ReadyInv

(* ReadyTransactions::add_transaction, with or without a replacement, keeps *)
(* the ready transactions consistent: a replacement takes over the unlocks  *)
(* of what it replaces.                                                     *)
LEMMA ReadyAddFacts ==
    ASSUME ReadyInv, NEW p \in PoolTransaction, RequiresPrev(p.tx, p.requires),
           p.tx \notin DOMAIN ready_tx, ReadyAdd(p)
    PROVE  /\ ReadyInv'
           /\ DOMAIN ready_tx' \subseteq DOMAIN ready_tx \cup {p.tx}
           /\ p.tx \in DOMAIN ready_tx'
           /\ provided_markers' = [provided_markers EXCEPT ![Marker(p.tx)] = p.tx]
<1>. DEFINE t == p.tx
            o == provided_markers[Marker(t)]
            old == Replaced(t)
            carried == IF old = {} THEN NoUnlocks ELSE ready_tx[o].unlocks
            entry == [id |-> id, requires |-> p.requires, unlocks |-> carried,
                      requires_offset |->
                        IF \E m \in p.requires : provided_markers[m] = NoTx
                        THEN 1 ELSE 0]
<1>0. t \in Txs /\ p.requires \in SUBSET Markers /\ Marker(t) \in Markers
  BY MarkerFacts DEF PoolTransaction
<1>1. /\ DOMAIN ready_tx \subseteq Txs
      /\ \A m \in Markers : provided_markers[m] # NoTx =>
            provided_markers[m] \in DOMAIN ready_tx /\ Marker(provided_markers[m]) = m
      /\ \A h \in DOMAIN ready_tx : Marker(h) \in Markers /\ provided_markers[Marker(h)] = h
      /\ provided_markers \in [Markers -> Txs \cup {NoTx}]
      /\ NoTx \notin Txs
      /\ independent_transactions \subseteq DOMAIN ready_tx
  BY MarkerFacts, TxsAssumption
     DEF ReadyInv, ReadyTypeOK, MarkersMatchReady, InReady, Linked
<1>2. \A h \in old : h = o /\ h \in DOMAIN ready_tx /\ Marker(h) = Marker(t)
  BY <1>0, <1>1 DEF Replaced
<1>3. o \in DOMAIN ready_tx => o \in old
  BY DEF Replaced
<1>4. /\ carried \in [Txs -> Nat]
      /\ \A d \in Txs : carried[d] > 0 =>
            PrevMarker(d) = Marker(t) /\ o \in old /\ carried[d] = ready_tx[o].unlocks[d]
      /\ o \in old => carried = ready_tx[o].unlocks
  <2>1. CASE old = {}
    BY <2>1 DEF NoUnlocks
  <2>2. CASE old # {}
    <3>1. o \in old /\ o \in DOMAIN ready_tx /\ Marker(o) = Marker(t)
      BY <1>2, <2>2
    <3>2. ready_tx[o] \in ReadyTransaction
          /\ \A d \in Txs : ready_tx[o].unlocks[d] > 0 => PrevMarker(d) = Marker(o)
      BY <3>1 DEF ReadyInv, ReadyTypeOK, Linked
    <3>3. carried = ready_tx[o].unlocks
      BY <2>2
    <3>4. ready_tx[o].unlocks \in [Txs -> Nat]
      BY <3>2 DEF ReadyTransaction
    <3>. QED BY <3>1, <3>2, <3>3, <3>4
  <2>. QED BY <2>1, <2>2
<1>. HIDE DEF carried
<1>5. entry \in ReadyTransaction /\ entry.requires = p.requires /\ entry.unlocks = carried
      /\ (entry.requires_offset = 0 \/ \E m \in p.requires : provided_markers[m] = NoTx)
  BY <1>0, <1>4 DEF ReadyTransaction, ReadyInv, ReadyTypeOK
<1>6. /\ ready_tx' =
           [h \in (DOMAIN ready_tx \ old) \cup {t} |->
              CASE h = t -> entry
                [] h # t /\ h \in Providers(p) ->
                     [AfterRemoval(h, old) EXCEPT !.unlocks[t] = @ + 1]
                [] OTHER -> AfterRemoval(h, old)]
      /\ provided_markers' = [provided_markers EXCEPT ![Marker(t)] = t]
      /\ independent_transactions' =
           (independent_transactions \ old) \cup (IF Providers(p) = {} THEN {t} ELSE {})
      /\ id' = id + 1
  BY Zenon DEF ReadyAdd, carried
<1>7. DOMAIN ready_tx' = (DOMAIN ready_tx \ old) \cup {t} /\ ready_tx'[t] = entry
  BY <1>6, Zenon
<1>. HIDE DEF entry
<1>8. ASSUME NEW h \in DOMAIN ready_tx \ old
      PROVE  /\ h # t
             /\ ready_tx'[h] \in ReadyTransaction
             /\ ready_tx'[h].requires = ready_tx[h].requires
             /\ ready_tx'[h].requires_offset = ready_tx[h].requires_offset
             /\ \A d \in Txs : d # t => ready_tx'[h].unlocks[d] <= ready_tx[h].unlocks[d]
             /\ \A d \in Txs : d # h =>
                   ready_tx'[h].unlocks[d] =
                     ready_tx[h].unlocks[d]
                       + (IF d = t /\ h \in Providers(p) THEN 1 ELSE 0)
  <2>. DEFINE a == AfterRemoval(h, old)
  <2>1. /\ a \in ReadyTransaction
        /\ a.requires = ready_tx[h].requires
        /\ a.requires_offset = ready_tx[h].requires_offset
        /\ \A d \in Txs : a.unlocks[d] <= ready_tx[h].unlocks[d]
        /\ \A d \in Txs : d # h => a.unlocks[d] = ready_tx[h].unlocks[d]
    BY AfterRemovalFacts DEF ReadyInv
  <2>2. h # t
    OBVIOUS
  <2>3. ready_tx'[h] = IF h \in Providers(p) THEN [a EXCEPT !.unlocks[t] = @ + 1] ELSE a
    BY <1>6, <2>2, Zenon
  <2>. HIDE DEF a
  <2>4. ready_tx[h] \in ReadyTransaction
    BY DEF ReadyInv, ReadyTypeOK
  <2>5. CASE h \in Providers(p)
    BY <1>0, <2>1, <2>2, <2>3, <2>4, <2>5 DEF ReadyTransaction
  <2>6. CASE h \notin Providers(p)
    BY <1>0, <2>1, <2>2, <2>3, <2>4, <2>6 DEF ReadyTransaction
  <2>. QED BY <2>2, <2>5, <2>6
<1>9. ReadyTypeOK'
  <2>1. \A h \in DOMAIN ready_tx' : ready_tx'[h] \in ReadyTransaction
    BY <1>5, <1>7, <1>8
  <2>2. ready_tx' \in [DOMAIN ready_tx' -> ReadyTransaction]
    BY <1>6, <2>1, Zenon
  <2>3. id' \in Nat /\ provided_markers' \in [Markers -> Txs \cup {NoTx}]
    BY <1>0, <1>1, <1>6 DEF ReadyInv, ReadyTypeOK
  <2>4. DOMAIN ready_tx' \subseteq Txs /\ independent_transactions' \subseteq Txs
    BY <1>0, <1>1, <1>6, <1>7
  <2>. QED BY <2>2, <2>3, <2>4 DEF ReadyTypeOK
<1>10. MarkersMatchReady'
  <2>1. ASSUME NEW m \in Markers, provided_markers'[m] # NoTx
        PROVE  provided_markers'[m] \in DOMAIN ready_tx' /\ Marker(provided_markers'[m]) = m
    <3>1. CASE m = Marker(t)
      BY <1>0, <1>1, <1>6, <1>7, <3>1
    <3>2. CASE m # Marker(t)
      BY <1>0, <1>1, <1>2, <1>6, <1>7, <2>1, <3>2
    <3>. QED BY <3>1, <3>2
  <2>2. ASSUME NEW h \in DOMAIN ready_tx'
        PROVE  provided_markers'[Marker(h)] = h
    <3>1. CASE h = t
      BY <1>0, <1>1, <1>6, <3>1
    <3>2. CASE h # t
      BY <1>0, <1>1, <1>3, <1>6, <1>7, <3>2
    <3>. QED BY <3>1, <3>2
  <2>. QED BY <2>1, <2>2 DEF MarkersMatchReady, InReady
<1>11. independent_transactions' \subseteq DOMAIN ready_tx'
  BY <1>1, <1>6, <1>7
<1>12. /\ RequiresPrev(t, ready_tx'[t].requires)
       /\ \A d \in Txs : ready_tx'[t].unlocks[d] > 0 => PrevMarker(d) = Marker(t)
  <2>1. ready_tx'[t].requires = p.requires /\ ready_tx'[t].unlocks = carried
    BY <1>5, <1>7
  <2>2. \A d \in Txs : carried[d] > 0 => PrevMarker(d) = Marker(t)
    BY <1>4, Zenon
  <2>. HIDE DEF t
  <2>. QED BY <2>1, <2>2 DEF t
<1>13. ASSUME t \notin independent_transactions'
       PROVE  /\ t.nonce > 0
              /\ ready_tx'[t].requires = {PrevMarker(t)}
              /\ ready_tx'[t].requires_offset = 0
              /\ provided_markers'[PrevMarker(t)] \in DOMAIN ready_tx'
              /\ ready_tx'[provided_markers'[PrevMarker(t)]].unlocks[t] > 0
  <2>. DEFINE q == provided_markers[PrevMarker(t)]
  <2>1. Providers(p) # {}
    BY <1>6, <1>13
  <2>2. p.requires = {PrevMarker(t)} /\ t.nonce > 0 /\ q # NoTx /\ q \in Providers(p)
    BY <2>1 DEF Providers, RequiresPrev
  <2>3. PrevMarker(t) \in Markers /\ PrevMarker(t) # Marker(t)
    BY <1>0, <2>2, MarkerFacts
  <2>4. q \in DOMAIN ready_tx /\ Marker(q) = PrevMarker(t) /\ q \notin old /\ q # t
    BY <1>1, <1>2, <2>2, <2>3
  <2>5. provided_markers'[PrevMarker(t)] = q
    BY <1>1, <1>6, <2>3
  <2>6. ready_tx'[t].requires_offset = 0
    BY <1>5, <1>7, <2>2
  <2>7. ready_tx[q] \in ReadyTransaction
    BY <2>4 DEF ReadyInv, ReadyTypeOK
  <2>8. ready_tx[q].unlocks[t] \in Nat
    BY <1>0, <2>7 DEF ReadyTransaction
  <2>9. ready_tx'[q].unlocks[t] = ready_tx[q].unlocks[t] + 1
    BY <1>0, <1>8, <2>2, <2>4
  <2>. QED BY <1>5, <1>7, <2>2, <2>4, <2>5, <2>6, <2>8, <2>9
<1>14. ASSUME NEW h \in DOMAIN ready_tx', h # t
       PROVE  /\ RequiresPrev(h, ready_tx'[h].requires)
              /\ \A d \in Txs : ready_tx'[h].unlocks[d] > 0 => PrevMarker(d) = Marker(h)
              /\ h \notin independent_transactions' =>
                  /\ h.nonce > 0
                  /\ ready_tx'[h].requires = {PrevMarker(h)}
                  /\ ready_tx'[h].requires_offset = 0
                  /\ provided_markers'[PrevMarker(h)] \in DOMAIN ready_tx'
                  /\ ready_tx'[provided_markers'[PrevMarker(h)]].unlocks[h] > 0
  <2>1. h \in DOMAIN ready_tx \ old /\ h \in Txs /\ ready_tx[h] \in ReadyTransaction
        /\ ready_tx'[h] \in ReadyTransaction
    BY <1>1, <1>7, <1>8, <1>14 DEF ReadyInv, ReadyTypeOK
  <2>2. RequiresPrev(h, ready_tx'[h].requires)
    BY <1>8, <2>1 DEF ReadyInv, Linked
  <2>3. ASSUME NEW d \in Txs, ready_tx'[h].unlocks[d] > 0
        PROVE  PrevMarker(d) = Marker(h)
    <3>1. ready_tx[h].unlocks[d] \in Nat /\ ready_tx'[h].unlocks[d] \in Nat
          /\ (d # t => ready_tx'[h].unlocks[d] <= ready_tx[h].unlocks[d])
          /\ (d = t => ready_tx'[h].unlocks[d] = ready_tx[h].unlocks[d]
                          + (IF h \in Providers(p) THEN 1 ELSE 0))
      BY <1>8, <2>1 DEF ReadyTransaction
    <3>2. CASE ready_tx[h].unlocks[d] > 0
      BY <2>1, <3>2 DEF ReadyInv, Linked
    <3>3. CASE d = t /\ h \in Providers(p)
      <4>1. PICK m \in p.requires : h = provided_markers[m]
        BY <3>3 DEF Providers
      <4>2. m = PrevMarker(t) /\ m \in Markers /\ h # NoTx
        BY <1>0, <1>1, <2>1, <4>1 DEF RequiresPrev
      <4>. QED BY <1>1, <3>3, <4>1, <4>2
    <3>. QED BY <2>3, <3>1, <3>2, <3>3
  <2>4. ASSUME h \notin independent_transactions'
        PROVE  /\ h.nonce > 0
               /\ ready_tx'[h].requires = {PrevMarker(h)}
               /\ ready_tx'[h].requires_offset = 0
               /\ provided_markers'[PrevMarker(h)] \in DOMAIN ready_tx'
               /\ ready_tx'[provided_markers'[PrevMarker(h)]].unlocks[h] > 0
    <3>. DEFINE q == provided_markers[PrevMarker(h)]
    <3>1. /\ h.nonce > 0
          /\ ready_tx[h].requires = {PrevMarker(h)}
          /\ ready_tx[h].requires_offset = 0
          /\ q \in DOMAIN ready_tx
          /\ ready_tx[q].unlocks[h] > 0
      BY <1>6, <2>1, <2>4 DEF ReadyInv, Linked, InReady
    <3>2. PrevMarker(h) \in Markers /\ PrevMarker(h) # Marker(h)
      BY <2>1, <3>1, MarkerFacts
    <3>3. Marker(q) = PrevMarker(h) /\ q # h
      BY <1>1, <3>1, <3>2
    <3>4. CASE PrevMarker(h) = Marker(t)
      <4>1. q = o /\ o \in old
        BY <1>3, <3>1, <3>4
      <4>2. provided_markers'[PrevMarker(h)] = t
        BY <1>0, <1>1, <1>6, <3>4
      <4>3. ready_tx'[t].unlocks[h] > 0
        <5>1. ready_tx'[t].unlocks = ready_tx[o].unlocks
          BY <1>4, <1>5, <1>7, <4>1, Zenon
        <5>. QED BY <3>1, <4>1, <5>1
      <4>. QED BY <1>7, <1>8, <2>1, <3>1, <4>2, <4>3
    <3>5. CASE PrevMarker(h) # Marker(t)
      <4>1. provided_markers'[PrevMarker(h)] = q /\ q \notin old
        BY <1>1, <1>2, <1>6, <3>1, <3>2, <3>3, <3>5
      <4>2. ready_tx'[q].unlocks[h] > 0
        <5>1. ready_tx[q] \in ReadyTransaction /\ q \in DOMAIN ready_tx \ old
          BY <3>1, <4>1 DEF ReadyInv, ReadyTypeOK
        <5>2. ready_tx[q].unlocks[h] \in Nat
          BY <2>1, <5>1 DEF ReadyTransaction
        <5>3. ready_tx'[q].unlocks[h] = ready_tx[q].unlocks[h] + 0
          BY <1>8, <1>14, <2>1, <3>3, <5>1
        <5>. QED BY <3>1, <5>2, <5>3
      <4>. QED BY <1>7, <1>8, <2>1, <3>1, <4>1, <4>2
    <3>. QED BY <3>4, <3>5
  <2>. QED BY <2>2, <2>3, <2>4
<1>15. Linked'
  BY <1>7, <1>11, <1>12, <1>13, <1>14 DEF Linked, InReady
<1>. QED BY <1>6, <1>7, <1>9, <1>10, <1>15 DEF ReadyInv

(* The markers that prune_tags prunes run up to m without a gap: with a     *)
(* pruned marker other than m, the next marker is pruned too.               *)
LEMMA PrunedMarkersFacts ==
    ASSUME NEW m \in Markers, NEW h \in Txs, PrevMarker(h) \in PrunedMarkers(m),
           PrevMarker(h) # m
    PROVE  Marker(h) \in PrunedMarkers(m)
<1>1. /\ m = <<m[1], m[2]>> /\ m[1] \in Int
      /\ Marker(h) \in Markers /\ h.nonce \in Nat
  BY TxsAssumption, MarkerFacts DEF Markers, Marker, PrevMarker
<1>2. /\ h.from = m[2] /\ h.nonce - 1 <= m[1]
      /\ \A j \in (h.nonce - 1) .. (m[1] - 1) :
            /\ <<j, m[2]>> \in Markers
            /\ LeadsOnlyTo(<<j, m[2]>>, <<j + 1, m[2]>>)
  BY DEF PrunedMarkers, PrevMarker
<1>3. h.nonce - 1 # m[1]
  BY <1>1, <1>2 DEF PrevMarker
<1>4. h.nonce <= m[1]
      /\ \A j \in h.nonce .. (m[1] - 1) : j \in (h.nonce - 1) .. (m[1] - 1)
  BY <1>1, <1>2, <1>3
<1>5. Marker(h)[1] = h.nonce /\ Marker(h)[2] = h.from
  BY DEF Marker
<1>. QED BY <1>1, <1>2, <1>4, <1>5 DEF PrunedMarkers

(* prune_tags keeps the ready transactions consistent: the walk back from m *)
(* stops before it would orphan a transaction it does not remove, and what  *)
(* the provider of m unlocked becomes independent.                          *)
LEMMA PruneTagsFacts ==
    ASSUME ReadyInv, NEW m \in Markers, PruneTags(m)
    PROVE  /\ ReadyInv'
           /\ DOMAIN ready_tx' \subseteq DOMAIN ready_tx
           /\ \A k \in Markers : provided_markers'[k] # NoTx =>
                 provided_markers'[k] = provided_markers[k]
<1>. DEFINE K == PrunedMarkers(m)
            gone == {provided_markers[k] : k \in K} \cap DOMAIN ready_tx
            tip == provided_markers[m]
            freed(h) == IF InReady(tip) THEN ready_tx[tip].unlocks[h] ELSE 0
            dropped(h) == {d \in gone : \E k \in ready_tx[d].requires :
                                            provided_markers[k] = h}
<1>0. /\ ready_tx' =
           [h \in DOMAIN ready_tx \ gone |->
              [ready_tx[h] EXCEPT
                  !.requires_offset = @ + freed(h),
                  !.unlocks = RemoveOne(@, dropped(h))]]
      /\ provided_markers' =
           [k \in Markers |-> IF k \in K THEN NoTx ELSE provided_markers[k]]
      /\ independent_transactions' =
           (independent_transactions \ gone)
             \cup {h \in DOMAIN ready_tx \ gone :
                      /\ freed(h) > 0
                      /\ ready_tx[h].requires # {}
                      /\ ready_tx[h].requires_offset = 0}
      /\ id' = id
  BY Zenon DEF PruneTags
<1>1. /\ DOMAIN ready_tx \subseteq Txs
      /\ \A k \in Markers : provided_markers[k] # NoTx =>
            provided_markers[k] \in DOMAIN ready_tx /\ Marker(provided_markers[k]) = k
      /\ \A h \in DOMAIN ready_tx : Marker(h) \in Markers /\ provided_markers[Marker(h)] = h
      /\ provided_markers \in [Markers -> Txs \cup {NoTx}]
      /\ NoTx \notin Txs
      /\ independent_transactions \subseteq DOMAIN ready_tx
      /\ \A h \in DOMAIN ready_tx : ready_tx[h] \in ReadyTransaction
  BY MarkerFacts, TxsAssumption
     DEF ReadyInv, ReadyTypeOK, MarkersMatchReady, InReady, Linked
<1>2. K \subseteq Markers
  BY DEF PrunedMarkers
<1>3. \A h \in DOMAIN ready_tx : h \in gone <=> Marker(h) \in K
  BY <1>1, <1>2
<1>4. \A h \in Txs : freed(h) \in Nat
  BY <1>1 DEF ReadyTransaction, InReady
<1>5. DOMAIN ready_tx' = DOMAIN ready_tx \ gone
  BY <1>0
<1>6. ASSUME NEW h \in DOMAIN ready_tx \ gone
      PROVE  /\ ready_tx'[h] \in ReadyTransaction
             /\ ready_tx'[h].requires = ready_tx[h].requires
             /\ ready_tx'[h].requires_offset = ready_tx[h].requires_offset + freed(h)
             /\ \A d \in Txs : ready_tx'[h].unlocks[d] <= ready_tx[h].unlocks[d]
             /\ \A d \in Txs : d \notin gone =>
                   ready_tx'[h].unlocks[d] = ready_tx[h].unlocks[d]
  <2>. DEFINE u == RemoveOne(ready_tx[h].unlocks, dropped(h))
  <2>1. /\ ready_tx[h] \in ReadyTransaction /\ h \in Txs
        /\ ready_tx[h].unlocks \in [Txs -> Nat]
    BY <1>1 DEF ReadyTransaction
  <2>2. /\ u \in [Txs -> Nat]
        /\ \A d \in Txs : u[d] <= ready_tx[h].unlocks[d]
        /\ \A d \in Txs : d \notin dropped(h) => u[d] = ready_tx[h].unlocks[d]
    <3>. HIDE DEF dropped
    <3>. QED BY <2>1 DEF RemoveOne
  <2>3. \A d \in Txs : d \notin gone => d \notin dropped(h)
    OBVIOUS
  <2>4. ready_tx'[h] = [ready_tx[h] EXCEPT !.requires_offset = @ + freed(h), !.unlocks = u]
    BY <1>0, Zenon
  <2>5. freed(h) \in Nat
    BY <1>4, <2>1
  <2>. HIDE DEF u, freed, dropped, gone
  <2>6. /\ ready_tx'[h] \in ReadyTransaction /\ ready_tx'[h].unlocks = u
        /\ ready_tx'[h].requires = ready_tx[h].requires
        /\ ready_tx'[h].requires_offset = ready_tx[h].requires_offset + freed(h)
    <3>. DEFINE e == ready_tx[h]
                n == e.requires_offset + freed(h)
    <3>1. e \in ReadyTransaction /\ n \in Nat /\ e = ready_tx[h]
      BY <2>1, <2>5 DEF ReadyTransaction
    <3>2. ready_tx'[h] = [e EXCEPT !.requires_offset = n, !.unlocks = u]
      BY <2>4, Zenon
    <3>3. n = ready_tx[h].requires_offset + freed(h)
      OBVIOUS
    <3>. HIDE DEF n, e
    <3>. DEFINE f == [e EXCEPT !.requires_offset = n]
    <3>4. ready_tx'[h] = [f EXCEPT !.unlocks = u]
      BY <3>2
    <3>5. f \in ReadyTransaction /\ f.requires = e.requires /\ f.requires_offset = n
      BY <3>1 DEF ReadyTransaction
    <3>. HIDE DEF f
    <3>. QED BY <2>2, <3>1, <3>3, <3>4, <3>5 DEF ReadyTransaction
  <2>. QED BY <2>2, <2>3, <2>6
<1>. HIDE DEF K, gone, freed, dropped
<1>7. ReadyTypeOK'
  <2>1. ready_tx' \in [DOMAIN ready_tx' -> ReadyTransaction]
    BY <1>0, <1>5, <1>6, Zenon
  <2>2. id' \in Nat /\ provided_markers' \in [Markers -> Txs \cup {NoTx}]
    BY <1>0, <1>1 DEF ReadyInv, ReadyTypeOK
  <2>3. DOMAIN ready_tx' \subseteq Txs /\ independent_transactions' \subseteq Txs
    BY <1>0, <1>1, <1>5
  <2>. QED BY <2>1, <2>2, <2>3 DEF ReadyTypeOK
<1>8. \A k \in Markers :
         /\ k \in K => provided_markers'[k] = NoTx
         /\ k \notin K => provided_markers'[k] = provided_markers[k]
  BY <1>0
<1>9. MarkersMatchReady'
  <2>1. ASSUME NEW k \in Markers, provided_markers'[k] # NoTx
        PROVE  provided_markers'[k] \in DOMAIN ready_tx' /\ Marker(provided_markers'[k]) = k
    BY <1>1, <1>3, <1>5, <1>8, <2>1
  <2>2. ASSUME NEW h \in DOMAIN ready_tx'
        PROVE  provided_markers'[Marker(h)] = h
    BY <1>1, <1>3, <1>5, <1>8
  <2>. QED BY <2>1, <2>2 DEF MarkersMatchReady, InReady
<1>10. independent_transactions' \subseteq DOMAIN ready_tx'
  BY <1>0, <1>1, <1>5
<1>11. ASSUME NEW h \in DOMAIN ready_tx'
       PROVE  /\ RequiresPrev(h, ready_tx'[h].requires)
              /\ \A d \in Txs : ready_tx'[h].unlocks[d] > 0 => PrevMarker(d) = Marker(h)
              /\ h \notin independent_transactions' =>
                  /\ h.nonce > 0
                  /\ ready_tx'[h].requires = {PrevMarker(h)}
                  /\ ready_tx'[h].requires_offset = 0
                  /\ provided_markers'[PrevMarker(h)] \in DOMAIN ready_tx'
                  /\ ready_tx'[provided_markers'[PrevMarker(h)]].unlocks[h] > 0
  <2>1. /\ h \in DOMAIN ready_tx \ gone /\ h \in Txs
        /\ ready_tx[h] \in ReadyTransaction /\ ready_tx'[h] \in ReadyTransaction
    BY <1>1, <1>5, <1>6
  <2>2. RequiresPrev(h, ready_tx'[h].requires)
    BY <1>6, <2>1 DEF ReadyInv, Linked
  <2>3. ASSUME NEW d \in Txs, ready_tx'[h].unlocks[d] > 0
        PROVE  PrevMarker(d) = Marker(h)
    <3>1. /\ ready_tx'[h].unlocks[d] <= ready_tx[h].unlocks[d]
          /\ ready_tx[h].unlocks[d] \in Nat /\ ready_tx'[h].unlocks[d] \in Nat
      BY <1>6, <2>1 DEF ReadyTransaction
    <3>2. ready_tx[h].unlocks[d] > 0
      BY <2>3, <3>1
    <3>. QED BY <2>1, <3>2 DEF ReadyInv, Linked
  <2>4. ASSUME h \notin independent_transactions'
        PROVE  /\ h.nonce > 0
               /\ ready_tx'[h].requires = {PrevMarker(h)}
               /\ ready_tx'[h].requires_offset = 0
               /\ provided_markers'[PrevMarker(h)] \in DOMAIN ready_tx'
               /\ ready_tx'[provided_markers'[PrevMarker(h)]].unlocks[h] > 0
    <3>. DEFINE q == provided_markers[PrevMarker(h)]
    <3>1. /\ h.nonce > 0
          /\ ready_tx[h].requires = {PrevMarker(h)}
          /\ ready_tx[h].requires_offset = 0
          /\ q \in DOMAIN ready_tx
          /\ ready_tx[q].unlocks[h] > 0
      BY <1>0, <2>1, <2>4 DEF ReadyInv, Linked, InReady
    <3>2. PrevMarker(h) \in Markers /\ Marker(q) = PrevMarker(h)
      BY <1>1, <2>1, <3>1, MarkerFacts
    <3>3. freed(h) = 0
      <4>1. ~(freed(h) > 0)
        BY <1>0, <2>1, <2>4, <3>1
      <4>. QED BY <1>4, <2>1, <4>1
    <3>4. PrevMarker(h) # m
      BY <3>1, <3>3 DEF freed, InReady
    <3>5. PrevMarker(h) \notin K
      BY <1>1, <1>3, <2>1, <3>4, PrunedMarkersFacts DEF K
    <3>6. provided_markers'[PrevMarker(h)] = q /\ q \in DOMAIN ready_tx \ gone
      BY <1>3, <1>8, <3>1, <3>2, <3>5
    <3>7. ready_tx'[q].unlocks[h] = ready_tx[q].unlocks[h]
      BY <1>6, <2>1, <3>6
    <3>8. ready_tx'[h].requires_offset = 0
      BY <1>6, <2>1, <3>1, <3>3
    <3>. QED BY <1>5, <1>6, <2>1, <3>1, <3>6, <3>7, <3>8
  <2>. QED BY <2>2, <2>3, <2>4
<1>12. Linked'
  BY <1>10, <1>11 DEF Linked, InReady
<1>. QED BY <1>5, <1>7, <1>8, <1>9, <1>12 DEF ReadyInv

-----------------------------------------------------------------------------
(* The parts of the inductive invariant.                                    *)

(* IInv is a statement on the ready transactions, one on the waiting ones,  *)
(* one on the locals, and what relates the three.                           *)
LEMMA IInvParts ==
    /\ IInv <=> /\ ReadyInv /\ PendingInv /\ LocalsTypeOK
                /\ InOnePlace /\ NoSatisfiedWaiter /\ LocalsOK
                /\ NoCyclicTransaction
    /\ IInv' <=> /\ ReadyInv' /\ PendingInv' /\ LocalsTypeOK'
                 /\ InOnePlace' /\ NoSatisfiedWaiter' /\ LocalsOK'
                 /\ NoCyclicTransaction'
BY DEF IInv, ReadyInv, PendingInv, TypeOK

(* The empty queue holds nothing (VecDeque::new).                           *)
LEMMA EmptyQueue ==
    /\ <<>> \in Seq(SUBSET PoolTransaction)
    /\ Items(<<>>) = {}
    /\ BatchesOK(<<>>)
BY DEF Items, BatchesOK

(* A queue with one transaction (VecDeque::from([tx])).                     *)
LEMMA SingletonQueue ==
    ASSUME NEW p \in PoolTransaction
    PROVE  /\ <<{p}>> \in Seq(SUBSET PoolTransaction)
           /\ <<{p}>> # <<>>
           /\ Items(<<{p}>>) = {p}
           /\ BatchesOK(<<{p}>>)
<1>. DEFINE q == <<{p}>>
<1>1. q \in Seq(SUBSET PoolTransaction) /\ DOMAIN q = {1} /\ q[1] = {p} /\ q # <<>>
  OBVIOUS
<1>. HIDE DEF q
<1>2. Items(q) = {p}
  BY <1>1 DEF Items
<1>3. BatchesOK(q)
  BY <1>1 DEF BatchesOK
<1>. QED BY <1>1, <1>2, <1>3 DEF q

(* What waits for m, as the batch mark_and_unlock returns.                  *)
LEMMA UnlockedFacts ==
    ASSUME PendingInv, NEW m \in Markers
    PROVE  /\ Unlocked(m) \in SUBSET PoolTransaction
           /\ \A x \in Unlocked(m) :
                 /\ x.tx \in required_markers[m] /\ x.tx \in waiting_queue
                 /\ x.tx \in Txs /\ x.tx.nonce > 0 /\ PrevMarker(x.tx) = m
                 /\ RequiresPrev(x.tx, x.requires)
           /\ \A x, y \in Unlocked(m) : x.tx = y.tx => x = y
<1>1. ASSUME NEW x \in Unlocked(m)
      PROVE  /\ x \in PoolTransaction
             /\ x.tx \in required_markers[m] /\ x.tx \in waiting_queue
             /\ x.tx \in Txs /\ x.tx.nonce > 0 /\ PrevMarker(x.tx) = m
             /\ RequiresPrev(x.tx, x.requires)
             /\ x = Waiting(x.tx)
  <2>1. PICK t \in required_markers[m] : x = Waiting(t)
    BY DEF Unlocked
  <2>2. x.tx = t /\ x.requires = {PrevMarker(t)}
    BY <2>1 DEF Waiting
  <2>3. t \in waiting_queue /\ PrevMarker(t) = m /\ t \in Txs
    BY DEF PendingInv, PendingTypeOK, WaitingIndexed
  <2>4. t.nonce > 0
    BY <2>3 DEF PendingInv, WaitingHasPrev
  <2>5. x \in PoolTransaction
    BY <2>1, <2>3 DEF PoolTransaction, Waiting
  <2>. QED BY <2>1, <2>2, <2>3, <2>4, <2>5 DEF RequiresPrev
<1>. QED BY <1>1

(* Taking unlocked transactions out of the waiting ones into a handler's    *)
(* queue.                                                                   *)
LEMMA InOnePlaceStep ==
    ASSUME InOnePlace, NEW S, S \subseteq waiting_queue,
           waiting_queue' \subseteq waiting_queue \ S,
           NEW R, DOMAIN ready_tx' \subseteq DOMAIN ready_tx \cup R,
           R \cap waiting_queue = {},
           InFlight' \subseteq (InFlight \ R) \cup S
    PROVE  InOnePlace'
BY DEF InOnePlace

(* Waiters stay unsatisfied when markers only get lost.                     *)
LEMMA NoSatisfiedWaiterStep ==
    ASSUME NoSatisfiedWaiter,
           \A m \in Markers : provided_markers'[m] # NoTx =>
               provided_markers'[m] = provided_markers[m],
           \A m \in Markers : required_markers'[m] \subseteq required_markers[m]
    PROVE  NoSatisfiedWaiter'
BY DEF NoSatisfiedWaiter

-----------------------------------------------------------------------------
(* One lemma per handler.                                                   *)

(* Handlers that only take transactions out of an idle pool: remove_invalid *)
(* (and remove_transactions_by_address), drop_transaction.                  *)
LEMMA RemovalPreserves ==
    ASSUME IInv, NEW hashes, RemoveWithMarkers(hashes),
           PendingRemove(hashes) \/ UNCHANGED pendingVars,
           UNCHANGED <<lockVars, to_notify>>
    PROVE  IInv'
<1>1. ReadyInv /\ PendingInv /\ LocalsTypeOK /\ InOnePlace /\ NoSatisfiedWaiter
      /\ LocalsOK /\ NoCyclicTransaction
  BY IInvParts
<1>2. /\ ReadyInv' /\ DOMAIN ready_tx' \subseteq DOMAIN ready_tx
      /\ \A m \in Markers : provided_markers'[m] # NoTx =>
            provided_markers'[m] = provided_markers[m]
  BY <1>1, RemoveWithMarkersFacts
<1>3. /\ PendingInv' /\ waiting_queue' \subseteq waiting_queue
      /\ \A k \in Markers : required_markers'[k] \subseteq required_markers[k]
  <2>1. CASE PendingRemove(hashes)
    BY <1>1, <2>1, PendingRemoveFacts
  <2>2. CASE UNCHANGED pendingVars
    BY <1>1, <2>2 DEF PendingInv, pendingVars, PendingTypeOK, WaitingIndexed, WaitingHasPrev
  <2>. QED BY <2>1, <2>2
<1>4. LocalsTypeOK' /\ LocalsOK' /\ NoCyclicTransaction' /\ InFlight' = InFlight
  BY <1>1 DEF lockVars, LocalsTypeOK, LocalsOK, NoCyclicTransaction, InFlight
<1>5. InOnePlace'
  BY <1>1, <1>2, <1>3, <1>4 DEF InOnePlace
<1>6. NoSatisfiedWaiter'
  BY <1>1, <1>2, <1>3, NoSatisfiedWaiterStep
<1>. QED BY <1>2, <1>3, <1>4, <1>5, <1>6, IInvParts

(* clear() leaves an empty pool.                                            *)
LEMMA ClearPreserves ==
    ASSUME IInv, Clear
    PROVE  IInv'
<1>1. ReadyInv /\ LocalsTypeOK /\ InOnePlace /\ LocalsOK /\ NoCyclicTransaction
  BY IInvParts
<1>2. DOMAIN ready_tx' = {}
  BY DEF Clear
<1>3. ReadyInv'
  <2>1. ready_tx' \in [DOMAIN ready_tx' -> ReadyTransaction]
    BY DEF Clear
  <2>2. ReadyTypeOK'
    BY <1>1, <1>2, <2>1 DEF Clear, ReadyInv, ReadyTypeOK
  <2>3. MarkersMatchReady'
    BY <1>2 DEF Clear, MarkersMatchReady
  <2>4. Linked'
    BY <1>2 DEF Clear, Linked
  <2>. QED BY <2>2, <2>3, <2>4 DEF ReadyInv
<1>4. PendingInv'
  BY DEF Clear, PendingInv, PendingTypeOK, WaitingIndexed, WaitingHasPrev
<1>5. LocalsTypeOK' /\ LocalsOK' /\ NoCyclicTransaction' /\ InFlight' = InFlight
  BY <1>1 DEF Clear, lockVars, LocalsTypeOK, LocalsOK, NoCyclicTransaction, InFlight
<1>6. InOnePlace'
  BY <1>1, <1>2, <1>5 DEF Clear, InOnePlace
<1>7. NoSatisfiedWaiter'
  BY DEF Clear, NoSatisfiedWaiter
<1>. QED BY <1>3, <1>4, <1>5, <1>6, <1>7, IInvParts

(* add_transaction: a transaction is parked because nothing provides what   *)
(* it requires, or becomes the first to import.                             *)
LEMMA AddTransactionPreserves ==
    ASSUME IInv, NEW p \in Submissions, AddTransaction(p)
    PROVE  IInv'
<1>. DEFINE t == p.tx
<1>0. /\ ReadyInv /\ PendingInv /\ LocalsTypeOK /\ InOnePlace /\ NoSatisfiedWaiter
      /\ LocalsOK /\ NoCyclicTransaction
  BY IInvParts
<1>1. p \in PoolTransaction /\ t \in Txs /\ RequiresPrev(t, p.requires)
  <2>1. CASE p \in {[tx |-> u, requires |-> {}] : u \in Txs}
    BY <2>1 DEF PoolTransaction, RequiresPrev
  <2>2. CASE p \in {Waiting(u) : u \in {v \in Txs : v.nonce > 0}}
    BY <2>2, MarkerFacts DEF PoolTransaction, RequiresPrev, Waiting
  <2>. QED BY <2>1, <2>2 DEF Submissions
<1>2. /\ op = "idle" /\ tx_queue = <<>> /\ imports = <<>> /\ markers = <<>>
      /\ ready = NoReady /\ t \notin waiting_queue /\ t \notin DOMAIN ready_tx
  BY <1>0 DEF AddTransaction, LocalsOK, Contains, InReady
<1>3. InFlight = {}
  BY <1>2, EmptyQueue DEF InFlight
<1>4. CASE /\ \E m \in p.requires : provided_markers[m] = NoTx
           /\ PendingAdd(t)
           /\ UNCHANGED <<readyVars, lockVars, to_notify>>
  <2>1. t.nonce > 0 /\ provided_markers[PrevMarker(t)] = NoTx
        /\ PrevMarker(t) \in Markers
    BY <1>1, <1>4, MarkerFacts DEF RequiresPrev
  <2>2. /\ PendingInv' /\ waiting_queue' = waiting_queue \cup {t}
        /\ required_markers' = [required_markers EXCEPT ![PrevMarker(t)] = @ \cup {t}]
    BY <1>0, <1>1, <1>4, <2>1, PendingAddFacts
  <2>3. ReadyInv'
    BY <1>0, <1>4 DEF readyVars, ReadyInv, ReadyTypeOK, MarkersMatchReady, InReady, Linked
  <2>4. /\ LocalsTypeOK' /\ LocalsOK' /\ NoCyclicTransaction' /\ InFlight' = InFlight
        /\ DOMAIN ready_tx' = DOMAIN ready_tx /\ provided_markers' = provided_markers
    BY <1>0, <1>4 DEF lockVars, readyVars, LocalsTypeOK, LocalsOK, NoCyclicTransaction, InFlight
  <2>5. InOnePlace'
    BY <1>0, <1>2, <1>3, <2>2, <2>4 DEF InOnePlace
  <2>6. NoSatisfiedWaiter'
    BY <1>0, <2>1, <2>2, <2>4 DEF NoSatisfiedWaiter, PendingInv, PendingTypeOK
  <2>. QED BY <2>2, <2>3, <2>4, <2>5, <2>6, IInvParts
<1>5. CASE /\ op' = "add" /\ tx_queue' = <<{p}>> /\ is_new_tx' = TRUE
           /\ ready' = [NoReady EXCEPT !.hash = p.tx]
           /\ UNCHANGED <<readyVars, pendingVars, markers, imports, to_notify>>
  <2>1. ReadyInv' /\ PendingInv' /\ NoSatisfiedWaiter'
        /\ DOMAIN ready_tx' = DOMAIN ready_tx /\ waiting_queue' = waiting_queue
    BY <1>0, <1>5 DEF readyVars, pendingVars, ReadyInv, ReadyTypeOK, MarkersMatchReady,
       InReady, Linked, PendingInv, PendingTypeOK, WaitingIndexed, WaitingHasPrev,
       NoSatisfiedWaiter
  <2>2. /\ tx_queue' \in Seq(SUBSET PoolTransaction) /\ tx_queue' # <<>>
        /\ Items(tx_queue') = {p} /\ BatchesOK(tx_queue')
    BY <1>1, <1>5, SingletonQueue
  <2>3. /\ imports' = <<>> /\ markers' = <<>> /\ Items(imports') = {}
        /\ BatchesOK(imports')
    BY <1>2, <1>5, EmptyQueue
  <2>4. ready' = [hash |-> t, promoted |-> {}, removed |-> {}]
    BY <1>5 DEF NoReady
  <2>5. LocalsTypeOK'
    BY <1>0, <1>1, <1>2, <1>5, <2>2, <2>4 DEF LocalsTypeOK
  <2>6. LocalsOK'
    <3>1. t # NoTx
      BY <1>1, TxsAssumption
    <3>2. \A x \in Items(tx_queue') \cup Items(imports') :
             x = p /\ RequiresPrev(x.tx, x.requires)
      BY <1>1, <2>2, <2>3
    <3>3. ready'.hash = t /\ ready'.removed = {}
      BY <2>4
    <3>. QED BY <1>1, <1>5, <2>2, <2>3, <3>1, <3>2, <3>3 DEF LocalsOK
  <2>7. NoCyclicTransaction'
    BY <2>4 DEF NoCyclicTransaction
  <2>8. InFlight' = {t}
    BY <2>2, <2>3 DEF InFlight
  <2>9. InOnePlace'
    BY <1>0, <1>2, <2>1, <2>8 DEF InOnePlace
  <2>. QED BY <2>1, <2>5, <2>6, <2>7, <2>9, IInvParts
<1>. QED BY <1>4, <1>5 DEF AddTransaction

(* One iteration of add_ready_transaction.  The submitted transaction and   *)
(* those it unlocks have growing nonces, so a promotion never replaces the  *)
(* submitted one.                                                           *)
LEMMA AddReadyTransactionPreserves ==
    ASSUME IInv, AddReadyTransaction
    PROVE  IInv'
<1>0. /\ ReadyInv /\ PendingInv /\ LocalsTypeOK /\ InOnePlace /\ NoSatisfiedWaiter
      /\ LocalsOK /\ NoCyclicTransaction
  BY IInvParts
<1>1. /\ tx_queue # <<>> /\ is_new_tx' = FALSE
      /\ op' = op /\ markers' = markers /\ imports' = imports /\ to_notify' = to_notify
  BY DEF AddReadyTransaction
<1>2. PICK p \in Head(tx_queue) :
         /\ MarkAndUnlock(Marker(p.tx))
         /\ \/ /\ ~Underpriced(p.tx)
               /\ ReadyAdd(p)
               /\ tx_queue' = Requeued(p)
               /\ ready' = [ready EXCEPT
                              !.promoted = IF is_new_tx THEN @ ELSE @ \cup {p.tx},
                              !.removed = @ \cup Replaced(p.tx)]
            \/ /\ Underpriced(p.tx)
               /\ tx_queue' = IF is_new_tx THEN <<>> ELSE Requeued(p)
               /\ ready' = IF is_new_tx THEN NoReady ELSE ready
               /\ UNCHANGED readyVars
  BY Zenon DEF AddReadyTransaction
<1>. DEFINE t == p.tx
            m == Marker(t)
            rest == Pop(tx_queue, p)
<1>3. /\ tx_queue \in Seq(SUBSET PoolTransaction) /\ BatchesOK(tx_queue)
      /\ imports \in Seq(SUBSET PoolTransaction) /\ BatchesOK(imports)
      /\ \A x \in Items(tx_queue) \cup Items(imports) : RequiresPrev(x.tx, x.requires)
      /\ \A x \in Items(tx_queue), y \in Items(imports) : x.tx # y.tx
      /\ op # "idle" /\ markers = <<>> /\ ready.hash \in Txs
      /\ op = "add" => imports = <<>>
      /\ is_new_tx => ready.removed = {} /\ \A x \in Items(tx_queue) : x.tx = ready.hash
      /\ ~is_new_tx => \A x \in Items(tx_queue) : x.tx.nonce > ready.hash.nonce
      /\ ready \in [hash : Txs \cup {NoTx}, promoted : SUBSET Txs, removed : SUBSET Txs]
      /\ is_new_tx \in BOOLEAN
  BY <1>0, <1>1 DEF LocalsOK, LocalsTypeOK
<1>4. /\ rest \in Seq(SUBSET PoolTransaction) /\ p \in Items(tx_queue)
      /\ p \in PoolTransaction /\ Items(rest) = Items(tx_queue) \ {p}
      /\ \A r \in Items(rest) : r.tx # t
      /\ BatchesOK(rest)
  BY <1>1, <1>3, PopFacts
<1>. HIDE DEF rest
<1>5. /\ t \in Txs /\ m \in Markers /\ RequiresPrev(t, p.requires)
      /\ t \notin waiting_queue /\ t \notin DOMAIN ready_tx
  BY <1>0, <1>3, <1>4, MarkerFacts DEF PoolTransaction, InOnePlace, InFlight
<1>6. /\ PendingInv' /\ required_markers'[m] = {}
      /\ \A k \in Markers : required_markers'[k] \subseteq required_markers[k]
      /\ waiting_queue' = waiting_queue \ required_markers[m]
      /\ required_markers[m] \subseteq waiting_queue
  BY <1>0, <1>2, <1>5, MarkAndUnlockFacts
<1>7. /\ Unlocked(m) \in SUBSET PoolTransaction
      /\ \A x \in Unlocked(m) :
            /\ x.tx \in required_markers[m] /\ x.tx \in waiting_queue
            /\ x.tx \in Txs /\ x.tx.nonce > 0 /\ PrevMarker(x.tx) = m
            /\ RequiresPrev(x.tx, x.requires)
      /\ \A x, y \in Unlocked(m) : x.tx = y.tx => x = y
  BY <1>0, <1>5, UnlockedFacts
<1>8. \A x \in Unlocked(m) : x.tx.nonce = t.nonce + 1
  <2>. SUFFICES ASSUME NEW x \in Unlocked(m)
                PROVE  x.tx.nonce = t.nonce + 1
    OBVIOUS
  <2>1. x.tx.nonce \in Nat /\ t.nonce \in Nat
    BY <1>5, <1>7, MarkerFacts
  <2>2. <<x.tx.nonce - 1, x.tx.from>> = <<t.nonce, t.from>>
    BY <1>7 DEF Marker, PrevMarker
  <2>. QED BY <2>1, <2>2
<1>9. \A x \in Unlocked(m), y \in Items(rest) \cup Items(imports) : x.tx # y.tx
  BY <1>0, <1>4, <1>7 DEF InOnePlace, InFlight
<1>10. /\ Requeued(p) \in Seq(SUBSET PoolTransaction)
       /\ Items(Requeued(p)) = Items(rest) \cup Unlocked(m)
       /\ BatchesOK(Requeued(p))
  BY <1>4, <1>7, <1>9, PushFacts, PushWellFormed DEF Requeued, rest
<1>11. \A x \in Items(Requeued(p)) : x.tx.nonce > ready.hash.nonce
  <2>1. t.nonce \in Nat /\ ready.hash.nonce \in Nat
    BY <1>3, <1>5, MarkerFacts
  <2>2. CASE is_new_tx
    <3>1. t = ready.hash /\ Items(rest) = {}
      BY <1>3, <1>4, <2>2
    <3>. QED BY <1>8, <1>10, <2>1, <3>1
  <2>3. CASE ~is_new_tx
    BY <1>3, <1>4, <1>8, <1>10, <2>1, <2>3
  <2>. QED BY <2>2, <2>3
<1>12. \A h \in Replaced(t) : h \in DOMAIN ready_tx /\ h \in Txs /\ Marker(h) = Marker(t)
  BY <1>0, <1>5, TxsAssumption
     DEF Replaced, ReadyInv, ReadyTypeOK, MarkersMatchReady, InReady
<1>13. ready.hash \notin Replaced(t)
  <2>1. CASE is_new_tx
    BY <1>3, <1>4, <1>5, <1>12, <2>1
  <2>2. CASE ~is_new_tx
    <3>1. t.nonce > ready.hash.nonce /\ t.nonce \in Nat /\ ready.hash.nonce \in Nat
      BY <1>3, <1>4, <1>5, <2>2, MarkerFacts
    <3>2. \A h \in Replaced(t) : h.nonce = t.nonce
      BY <1>12 DEF Marker
    <3>. QED BY <3>1, <3>2
  <2>. QED BY <2>1, <2>2
<1>14. ASSUME tx_queue' = Requeued(p), ready'.hash = ready.hash,
              ready' \in [hash : Txs \cup {NoTx}, promoted : SUBSET Txs, removed : SUBSET Txs]
       PROVE  LocalsTypeOK' /\ LocalsOK' /\ InFlight' \subseteq (InFlight \ {t}) \cup required_markers[m]
  <2>1. \A x \in Items(tx_queue') \cup Items(imports') : RequiresPrev(x.tx, x.requires)
    BY <1>1, <1>3, <1>4, <1>7, <1>10, <1>14
  <2>2. \A x \in Items(tx_queue'), y \in Items(imports') : x.tx # y.tx
    BY <1>1, <1>3, <1>4, <1>9, <1>10, <1>14
  <2>3. \A x \in Items(tx_queue') : x.tx.nonce > ready'.hash.nonce
    BY <1>11, <1>14
  <2>4. BatchesOK(tx_queue') /\ BatchesOK(imports')
    BY <1>1, <1>3, <1>10, <1>14
  <2>5. ready'.hash \in Txs /\ ready'.hash # NoTx
    BY <1>3, <1>14, TxsAssumption
  <2>6. LocalsOK'
    BY <1>1, <1>3, <2>1, <2>2, <2>3, <2>4, <2>5 DEF LocalsOK
  <2>7. LocalsTypeOK'
    BY <1>0, <1>1, <1>10, <1>14 DEF LocalsTypeOK
  <2>8. InFlight' \subseteq (InFlight \ {t}) \cup required_markers[m]
    BY <1>1, <1>3, <1>4, <1>7, <1>10, <1>14 DEF InFlight
  <2>. QED BY <2>6, <2>7, <2>8
<1>15. CASE /\ ReadyAdd(p)
            /\ tx_queue' = Requeued(p)
            /\ ready' = [ready EXCEPT
                           !.promoted = IF is_new_tx THEN @ ELSE @ \cup {t},
                           !.removed = @ \cup Replaced(t)]
  <2>1. /\ ReadyInv' /\ DOMAIN ready_tx' \subseteq DOMAIN ready_tx \cup {t}
        /\ provided_markers' = [provided_markers EXCEPT ![m] = t]
    BY <1>0, <1>4, <1>5, <1>15, ReadyAddFacts
  <2>2. /\ ready'.hash = ready.hash /\ ready'.removed = ready.removed \cup Replaced(t)
        /\ ready' \in [hash : Txs \cup {NoTx}, promoted : SUBSET Txs, removed : SUBSET Txs]
    <3>. DEFINE added == IF is_new_tx THEN ready.promoted ELSE ready.promoted \cup {t}
                r1 == [ready EXCEPT !.promoted = added]
    <3>1. ready' = [r1 EXCEPT !.removed = r1.removed \cup Replaced(t)]
      BY <1>3, <1>15
    <3>2. added \in SUBSET Txs /\ Replaced(t) \in SUBSET Txs
      BY <1>3, <1>5, <1>12
    <3>. HIDE DEF added
    <3>3. r1.hash = ready.hash /\ r1.removed = ready.removed
          /\ r1 \in [hash : Txs \cup {NoTx}, promoted : SUBSET Txs, removed : SUBSET Txs]
      BY <1>3, <3>2
    <3>. HIDE DEF r1
    <3>. QED BY <3>1, <3>2, <3>3
  <2>3. LocalsTypeOK' /\ LocalsOK' /\ InFlight' \subseteq (InFlight \ {t}) \cup required_markers[m]
    BY <1>14, <1>15, <2>2
  <2>4. NoCyclicTransaction'
    BY <1>0, <1>13, <2>2 DEF NoCyclicTransaction
  <2>5. InOnePlace'
    BY <1>0, <1>5, <1>6, <2>1, <2>3 DEF InOnePlace
  <2>6. NoSatisfiedWaiter'
    BY <1>0, <1>6, <2>1 DEF NoSatisfiedWaiter, ReadyInv, ReadyTypeOK
  <2>. QED BY <1>6, <2>1, <2>3, <2>4, <2>5, <2>6, IInvParts
<1>16. CASE /\ tx_queue' = IF is_new_tx THEN <<>> ELSE Requeued(p)
            /\ ready' = IF is_new_tx THEN NoReady ELSE ready
            /\ UNCHANGED readyVars
  <2>1. /\ ReadyInv' /\ DOMAIN ready_tx' = DOMAIN ready_tx
        /\ provided_markers' = provided_markers
    BY <1>0, <1>16 DEF readyVars, ReadyInv, ReadyTypeOK, MarkersMatchReady, InReady, Linked
  <2>2. NoSatisfiedWaiter'
    BY <1>0, <1>6, <2>1 DEF NoSatisfiedWaiter
  <2>3. /\ LocalsTypeOK' /\ LocalsOK' /\ NoCyclicTransaction'
        /\ InFlight' \subseteq InFlight \cup required_markers[m]
    <3>1. CASE is_new_tx
      <4>1. tx_queue' = <<>> /\ ready' = NoReady
        BY <1>16, <3>1
      <4>2. LocalsTypeOK' /\ NoCyclicTransaction'
        BY <1>0, <1>1, <4>1, EmptyQueue DEF LocalsTypeOK, NoReady, NoCyclicTransaction
      <4>3. LocalsOK'
        BY <1>1, <1>3, <4>1, EmptyQueue DEF LocalsOK, NoReady
      <4>4. InFlight' \subseteq InFlight
        BY <1>1, <4>1, EmptyQueue DEF InFlight
      <4>. QED BY <4>2, <4>3, <4>4
    <3>2. CASE ~is_new_tx
      BY <1>0, <1>3, <1>14, <1>16, <3>2 DEF NoCyclicTransaction
    <3>. QED BY <1>3, <3>1, <3>2
  <2>4. InOnePlace'
    BY <1>0, <1>6, <2>1, <2>3 DEF InOnePlace
  <2>. QED BY <1>6, <2>1, <2>2, <2>3, <2>4, IInvParts
<1>. QED BY <1>2, <1>15, <1>16

(* The end of add_ready_transaction: the cycle branch is never taken, so    *)
(* only the locals change.                                                  *)
LEMMA FinishAddReadyPreserves ==
    ASSUME IInv, FinishAddReady
    PROVE  IInv'
<1>0. /\ ReadyInv /\ PendingInv /\ LocalsTypeOK /\ InOnePlace /\ NoSatisfiedWaiter
      /\ LocalsOK /\ NoCyclicTransaction
  BY IInvParts
<1>1. /\ op \in {"add", "prune"} /\ tx_queue = <<>> /\ tx_queue' = tx_queue
      /\ is_new_tx' = is_new_tx /\ markers' = markers /\ imports' = imports
      /\ op' = (IF op = "add" THEN "idle" ELSE op) /\ ready' = NoReady
      /\ UNCHANGED pendingVars /\ UNCHANGED readyVars
  BY <1>0 DEF FinishAddReady, NoCyclicTransaction
<1>2. /\ ReadyInv' /\ PendingInv' /\ NoSatisfiedWaiter'
      /\ DOMAIN ready_tx' = DOMAIN ready_tx /\ waiting_queue' = waiting_queue
  BY <1>0, <1>1 DEF readyVars, pendingVars, ReadyInv, ReadyTypeOK, MarkersMatchReady,
     InReady, Linked, PendingInv, PendingTypeOK, WaitingIndexed, WaitingHasPrev,
     NoSatisfiedWaiter
<1>3. to_notify' \subseteq Txs
  BY <1>0 DEF FinishAddReady, LocalsTypeOK
<1>4. LocalsTypeOK' /\ NoCyclicTransaction'
  BY <1>0, <1>1, <1>3 DEF LocalsTypeOK, NoReady, NoCyclicTransaction
<1>5. LocalsOK'
  BY <1>0, <1>1, EmptyQueue DEF LocalsOK, NoReady
<1>6. InOnePlace'
  BY <1>0, <1>1, <1>2 DEF InOnePlace, InFlight
<1>. QED BY <1>2, <1>4, <1>5, <1>6, IInvParts

(* prune_markers starts, and ends.                                          *)
LEMMA PruneBoundariesPreserve ==
    ASSUME IInv, (\E ms \in MarkerBatches : PruneMarkers(ms)) \/ FinishPrune
    PROVE  IInv'
<1>0. /\ ReadyInv /\ PendingInv /\ LocalsTypeOK /\ InOnePlace /\ NoSatisfiedWaiter
      /\ LocalsOK /\ NoCyclicTransaction
  BY IInvParts
<1>1. /\ UNCHANGED <<readyVars, pendingVars, tx_queue, is_new_tx, ready, imports, to_notify>>
      /\ tx_queue = <<>> /\ ready = NoReady /\ imports = <<>>
      /\ \/ op' = "idle" /\ markers' = <<>>
         \/ op' = "prune" /\ \E ms \in MarkerBatches : markers' = ms
  BY <1>0 DEF PruneMarkers, FinishPrune, LocalsOK
<1>2. MarkerBatches \subseteq Seq(Markers)
  BY BoundsAssumption DEF MarkerBatches
<1>3. ReadyInv' /\ PendingInv' /\ NoSatisfiedWaiter' /\ InOnePlace' /\ NoCyclicTransaction'
  BY <1>0, <1>1 DEF readyVars, pendingVars, ReadyInv, ReadyTypeOK, MarkersMatchReady,
     InReady, Linked, PendingInv, PendingTypeOK, WaitingIndexed, WaitingHasPrev,
     NoSatisfiedWaiter, InOnePlace, InFlight, NoCyclicTransaction
<1>4. LocalsTypeOK'
  <2>1. op' \in {"idle", "add", "prune"} /\ markers' \in Seq(Markers)
    <3>1. <<>> \in Seq(Markers)
      OBVIOUS
    <3>. QED BY <1>1, <1>2, <3>1, Zenon
  <2>. QED BY <1>0, <1>1, <2>1 DEF LocalsTypeOK
<1>5. LocalsOK'
  BY <1>0, <1>1, EmptyQueue DEF LocalsOK
<1>. QED BY <1>3, <1>4, <1>5, IInvParts

(* One pruned marker: its provider goes, what waited for it is to import.   *)
LEMMA PruneMarkerPreserves ==
    ASSUME IInv, PruneMarker
    PROVE  IInv'
<1>0. /\ ReadyInv /\ PendingInv /\ LocalsTypeOK /\ InOnePlace /\ NoSatisfiedWaiter
      /\ LocalsOK /\ NoCyclicTransaction
  BY IInvParts
<1>. DEFINE m == Head(markers)
<1>1. /\ op = "prune" /\ markers # <<>> /\ MarkAndUnlock(m) /\ PruneTags(m)
      /\ imports' = Push(imports, Unlocked(m)) /\ markers' = Tail(markers)
      /\ op' = op /\ tx_queue' = tx_queue /\ is_new_tx' = is_new_tx
      /\ ready' = ready /\ to_notify' = to_notify
  BY DEF PruneMarker
<1>2. /\ m \in Markers /\ Tail(markers) \in Seq(Markers)
      /\ tx_queue = <<>> /\ ready = NoReady
      /\ imports \in Seq(SUBSET PoolTransaction) /\ BatchesOK(imports)
      /\ \A x \in Items(imports) : RequiresPrev(x.tx, x.requires)
  BY <1>0, <1>1 DEF LocalsTypeOK, LocalsOK
<1>. HIDE DEF m
<1>3. /\ PendingInv'
      /\ \A k \in Markers : required_markers'[k] \subseteq required_markers[k]
      /\ waiting_queue' = waiting_queue \ required_markers[m]
      /\ required_markers[m] \subseteq waiting_queue
  BY <1>0, <1>1, <1>2, MarkAndUnlockFacts
<1>4. /\ ReadyInv' /\ DOMAIN ready_tx' \subseteq DOMAIN ready_tx
      /\ \A k \in Markers : provided_markers'[k] # NoTx =>
            provided_markers'[k] = provided_markers[k]
  BY <1>0, <1>1, <1>2, PruneTagsFacts
<1>5. /\ Unlocked(m) \in SUBSET PoolTransaction
      /\ \A x \in Unlocked(m) :
            /\ x.tx \in required_markers[m] /\ x.tx \in waiting_queue
            /\ RequiresPrev(x.tx, x.requires)
      /\ \A x, y \in Unlocked(m) : x.tx = y.tx => x = y
  BY <1>0, <1>2, UnlockedFacts
<1>6. \A x \in Unlocked(m), y \in Items(imports) : x.tx # y.tx
  BY <1>0, <1>5 DEF InOnePlace, InFlight
<1>7. /\ imports' \in Seq(SUBSET PoolTransaction) /\ BatchesOK(imports')
      /\ Items(imports') = Items(imports) \cup Unlocked(m)
  BY <1>1, <1>2, <1>5, <1>6, PushFacts, PushWellFormed
<1>8. NoSatisfiedWaiter'
  BY <1>0, <1>3, <1>4, NoSatisfiedWaiterStep
<1>9. InFlight' \subseteq InFlight \cup required_markers[m]
  BY <1>1, <1>5, <1>7 DEF InFlight
<1>10. InOnePlace'
  BY <1>0, <1>3, <1>4, <1>9 DEF InOnePlace
<1>11. LocalsTypeOK' /\ NoCyclicTransaction'
  BY <1>0, <1>1, <1>2, <1>7 DEF LocalsTypeOK, NoCyclicTransaction
<1>12. LocalsOK'
  BY <1>0, <1>1, <1>2, <1>5, <1>7, EmptyQueue DEF LocalsOK
<1>. QED BY <1>3, <1>4, <1>8, <1>10, <1>11, <1>12, IInvParts

(* prune_markers hands one unlocked transaction to add_ready_transaction.   *)
LEMMA ImportUnlockedPreserves ==
    ASSUME IInv, ImportUnlocked
    PROVE  IInv'
<1>0. /\ ReadyInv /\ PendingInv /\ LocalsTypeOK /\ InOnePlace /\ NoSatisfiedWaiter
      /\ LocalsOK /\ NoCyclicTransaction
  BY IInvParts
<1>1. /\ op = "prune" /\ markers = <<>> /\ tx_queue = <<>> /\ imports # <<>>
      /\ is_new_tx' = TRUE /\ op' = op /\ markers' = markers /\ to_notify' = to_notify
      /\ UNCHANGED <<readyVars, pendingVars>>
  BY DEF ImportUnlocked
<1>2. PICK p \in Head(imports) :
         /\ tx_queue' = <<{p}>>
         /\ ready' = [NoReady EXCEPT !.hash = p.tx]
         /\ imports' = Pop(imports, p)
  BY DEF ImportUnlocked
<1>3. /\ imports \in Seq(SUBSET PoolTransaction) /\ BatchesOK(imports)
      /\ \A x \in Items(imports) : RequiresPrev(x.tx, x.requires)
  BY <1>0 DEF LocalsTypeOK, LocalsOK
<1>4. /\ imports' \in Seq(SUBSET PoolTransaction) /\ p \in Items(imports)
      /\ p \in PoolTransaction /\ Items(imports') = Items(imports) \ {p}
      /\ \A r \in Items(imports') : r.tx # p.tx
      /\ BatchesOK(imports')
  BY <1>1, <1>2, <1>3, PopFacts
<1>5. /\ tx_queue' \in Seq(SUBSET PoolTransaction) /\ tx_queue' # <<>>
      /\ Items(tx_queue') = {p} /\ BatchesOK(tx_queue')
  BY <1>2, <1>4, SingletonQueue
<1>6. ready' = [hash |-> p.tx, promoted |-> {}, removed |-> {}] /\ p.tx \in Txs /\ p.tx # NoTx
  BY <1>2, <1>4, TxsAssumption DEF NoReady, PoolTransaction
<1>7. ReadyInv' /\ PendingInv' /\ NoSatisfiedWaiter'
      /\ DOMAIN ready_tx' = DOMAIN ready_tx /\ waiting_queue' = waiting_queue
  BY <1>0, <1>1 DEF readyVars, pendingVars, ReadyInv, ReadyTypeOK, MarkersMatchReady,
     InReady, Linked, PendingInv, PendingTypeOK, WaitingIndexed, WaitingHasPrev,
     NoSatisfiedWaiter
<1>8. InFlight' \subseteq InFlight
  BY <1>4, <1>5 DEF InFlight
<1>9. InOnePlace'
  BY <1>0, <1>7, <1>8 DEF InOnePlace
<1>10. LocalsTypeOK' /\ NoCyclicTransaction'
  BY <1>0, <1>1, <1>4, <1>5, <1>6 DEF LocalsTypeOK, NoCyclicTransaction
<1>11. LocalsOK'
  <2>1. \A x \in Items(tx_queue') \cup Items(imports') : RequiresPrev(x.tx, x.requires)
    BY <1>3, <1>4, <1>5
  <2>2. \A x \in Items(tx_queue'), y \in Items(imports') : x.tx # y.tx
    BY <1>4, <1>5
  <2>3. ready'.hash = p.tx /\ ready'.removed = {}
    BY <1>6
  <2>. QED BY <1>1, <1>4, <1>5, <1>6, <2>1, <2>2, <2>3 DEF LocalsOK
<1>. QED BY <1>7, <1>9, <1>10, <1>11, IInvParts

-----------------------------------------------------------------------------
(* The invariant.                                                           *)

(* The empty pool satisfies the invariant.                                  *)
LEMMA InitInv == Init => IInv
<1>. SUFFICES ASSUME Init PROVE IInv
  OBVIOUS
<1>1. DOMAIN ready_tx = {} /\ ready_tx \in [DOMAIN ready_tx -> ReadyTransaction]
  BY DEF Init
<1>2. ReadyTypeOK /\ PendingTypeOK
  BY <1>1 DEF Init, ReadyTypeOK, PendingTypeOK
<1>3. LocalsTypeOK
  <2>1. /\ ready \in [hash : Txs \cup {NoTx}, promoted : SUBSET Txs, removed : SUBSET Txs]
        /\ markers \in Seq(Markers)
    BY DEF Init, NoReady
  <2>2. op \in {"idle", "add", "prune"} /\ is_new_tx \in BOOLEAN /\ to_notify \subseteq Txs
    BY DEF Init
  <2>3. tx_queue \in Seq(SUBSET PoolTransaction) /\ imports \in Seq(SUBSET PoolTransaction)
    BY EmptyQueue DEF Init
  <2>. QED BY <2>1, <2>2, <2>3 DEF LocalsTypeOK
<1>4. MarkersMatchReady /\ Linked
  BY <1>1 DEF Init, MarkersMatchReady, Linked
<1>5. WaitingIndexed /\ WaitingHasPrev /\ NoSatisfiedWaiter
  BY DEF Init, WaitingIndexed, WaitingHasPrev, NoSatisfiedWaiter
<1>6. InOnePlace
  BY <1>1, EmptyQueue DEF Init, InOnePlace, InFlight
<1>7. LocalsOK /\ NoCyclicTransaction
  BY EmptyQueue DEF Init, LocalsOK, NoReady, NoCyclicTransaction
<1>. QED BY <1>2, <1>3, <1>4, <1>5, <1>6, <1>7 DEF IInv, TypeOK

(* Every handler of the pool preserves the invariant.                       *)
LEMMA NextInv == IInv /\ [Next]_poolVars => IInv'
<1>. SUFFICES ASSUME IInv, [Next]_poolVars PROVE IInv'
  OBVIOUS
<1>1. CASE \E p \in Submissions : AddTransaction(p)
  BY <1>1, AddTransactionPreserves
<1>2. CASE HoldingLock
  BY <1>2, AddReadyTransactionPreserves, FinishAddReadyPreserves, PruneMarkerPreserves,
     ImportUnlockedPreserves, PruneBoundariesPreserve DEF HoldingLock
<1>3. CASE (\E t \in Txs : NotifyListener(t)) \/ UNCHANGED poolVars
  <2>1. UNCHANGED <<readyVars, pendingVars, lockVars>> /\ (to_notify' \subseteq to_notify)
    BY <1>3 DEF NotifyListener, poolVars
  <2>. QED BY <2>1 DEF IInv, TypeOK, ReadyTypeOK, PendingTypeOK, LocalsTypeOK,
       MarkersMatchReady, WaitingIndexed, WaitingHasPrev, InOnePlace, NoSatisfiedWaiter,
       Linked, LocalsOK, NoCyclicTransaction, InReady, InFlight,
       readyVars, pendingVars, lockVars
<1>4. CASE \E ms \in MarkerBatches : PruneMarkers(ms)
  BY <1>4, PruneBoundariesPreserve
<1>5. CASE \E hashes \in SUBSET Txs : RemoveInvalid(hashes)
  BY <1>5, RemovalPreserves DEF RemoveInvalid
<1>6. CASE \E s \in Senders : RemoveTransactionsByAddress(s)
  BY <1>6, RemovalPreserves DEF RemoveTransactionsByAddress, RemoveInvalid
<1>7. CASE \E t \in Txs : DropTransaction(t)
  BY <1>7, RemovalPreserves DEF DropTransaction
<1>8. CASE Clear
  BY <1>8, ClearPreserves
<1>. QED BY <1>1, <1>2, <1>3, <1>4, <1>5, <1>6, <1>7, <1>8 DEF Next

(* In every reachable state the pool satisfies the inductive invariant.     *)
THEOREM Invariance == Spec => []IInv
BY InitInv, NextInv, PTL DEF Spec

(* Every structure of the pool keeps its type.                              *)
THEOREM TypeCorrect == Spec => []TypeOK
<1>1. IInv => TypeOK
  BY DEF IInv
<1>. QED BY <1>1, Invariance, PTL

(* provided_markers and the ready transactions always agree, so neither the *)
(* assert_eq! of prune_tags nor the expect of add_transaction can fail.     *)
THEOREM MarkersAgree == Spec => []MarkersMatchReady
<1>1. IInv => MarkersMatchReady
  BY DEF IInv
<1>. QED BY <1>1, Invariance, PTL

(* No transaction waits for a marker a ready transaction provides.          *)
THEOREM WaitersUnsatisfied == Spec => []NoSatisfiedWaiter
<1>1. IInv => NoSatisfiedWaiter
  BY DEF IInv
<1>. QED BY <1>1, Invariance, PTL

(* A transaction is waiting, ready or in flight, never two of these.        *)
THEOREM OnePlace == Spec => []InOnePlace
<1>1. IInv => InOnePlace
  BY DEF IInv
<1>. QED BY <1>1, Invariance, PTL

(* required_markers indexes exactly the waiting transactions.               *)
THEOREM WaitingIndex == Spec => []WaitingIndexed
<1>1. IInv => WaitingIndexed
  BY DEF IInv
<1>. QED BY <1>1, Invariance, PTL

(* The CyclicTransaction error of add_ready_transaction is never returned.  *)
THEOREM NoCycle == Spec => []NoCyclicTransaction
<1>1. IInv => NoCyclicTransaction
  BY DEF IInv
<1>. QED BY <1>1, Invariance, PTL

(* A ready transaction is reached from an independent one: of the ready     *)
(* transactions that are not, one with the lowest nonce would hang on a     *)
(* provider with a lower nonce that is not reached either.                  *)
LEMMA LinkedYields == IInv => EveryReadyYielded
<1>. SUFFICES ASSUME IInv,
                     NEW S \in SUBSET DOMAIN ready_tx,
                     independent_transactions \cap DOMAIN ready_tx \subseteq S,
                     Closed(S),
                     NEW d \in DOMAIN ready_tx, d \notin S
              PROVE  FALSE
  BY Zenon DEF EveryReadyYielded, Reachable
<1>. DEFINE N == {n \in Nat : \E h \in DOMAIN ready_tx \ S : h.nonce = n}
<1>1. DOMAIN ready_tx \subseteq Txs
  BY DEF IInv, TypeOK, ReadyTypeOK
<1>2. d.nonce \in N
  BY <1>1, MarkerFacts
<1>3. PICK n \in N : \A k \in N : n <= k
  <2>. DEFINE less == {ss \in Nat \X Nat : ss[1] < ss[2]}
  <2>1. IsWellFoundedOn(less, Nat)
    BY NatLessThanWellFounded, Zenon DEF OpToRel
  <2>2. N \subseteq Nat /\ N # {}
    BY <1>2
  <2>3. PICK n \in N : \A k \in N : ~(<<k, n>> \in less)
    <3>. HIDE DEF less, N
    <3>. QED BY <2>1, <2>2, WFMin, Zenon
  <2>4. \A k \in N : n \in Nat /\ k \in Nat /\ ~(k < n)
    BY <2>2, <2>3
  <2>5. \A k \in N : n <= k
    <3>. HIDE DEF N
    <3>. QED BY <2>4
  <2>. QED BY <2>5, Zenon
<1>4. PICK h \in DOMAIN ready_tx \ S : h.nonce = n
  BY <1>3
<1>. DEFINE q == provided_markers[PrevMarker(h)]
<1>5. /\ h \in Txs /\ h.nonce > 0 /\ q \in DOMAIN ready_tx /\ ready_tx[q].unlocks[h] > 0
  BY <1>1 DEF IInv, Linked, InReady
<1>6. q \notin S
  BY <1>5 DEF Closed
<1>7. PrevMarker(h) = Marker(q) /\ q \in Txs
  BY <1>1, <1>5 DEF IInv, Linked
<1>8. q.nonce = h.nonce - 1 /\ q.nonce \in Nat /\ h.nonce \in Nat
  BY <1>5, <1>7, MarkerFacts DEF Marker, PrevMarker
<1>9. q.nonce \in N
  BY <1>5, <1>6, <1>8
<1>. QED BY <1>3, <1>4, <1>8, <1>9

(* The iterator the miner drains yields every ready transaction.            *)
THEOREM AllReadyYielded == Spec => []EveryReadyYielded
BY Invariance, LinkedYields, PTL

-----------------------------------------------------------------------------
(* What leaves the pool while transactions are promoted.                    *)

\* What a transaction that leaves the pool has been outbid by.
Outbid(t) == \E h \in DOMAIN ready_tx' : Marker(h) = Marker(t) /\ h.price >= t.price

(* One turn of add_ready_transaction loses the transaction it replaces, or  *)
(* the one it imports if that is underpriced.  An underpriced submission    *)
(* drops the queue with what it has just unlocked; but then its marker was  *)
(* provided, so nothing waited for it, and the queue held nothing else.     *)
LEMMA AddReadyLosesNothing ==
    ASSUME IInv, AddReadyTransaction
    PROVE  \A t \in Known \ Known' : Outbid(t)
<1>0. /\ ReadyInv /\ PendingInv /\ LocalsTypeOK /\ InOnePlace /\ NoSatisfiedWaiter
      /\ LocalsOK
  BY IInvParts
<1>1. /\ tx_queue # <<>>
      /\ imports' = imports
  BY DEF AddReadyTransaction
<1>2. PICK p \in Head(tx_queue) :
         /\ MarkAndUnlock(Marker(p.tx))
         /\ \/ ~Underpriced(p.tx) /\ ReadyAdd(p) /\ tx_queue' = Requeued(p)
            \/ /\ Underpriced(p.tx)
               /\ tx_queue' = IF is_new_tx THEN <<>> ELSE Requeued(p)
               /\ UNCHANGED readyVars
  BY Zenon DEF AddReadyTransaction
<1>3. PICK t, m, rest : t = p.tx /\ m = Marker(t) /\ rest = Pop(tx_queue, p)
  OBVIOUS
<1>4. /\ tx_queue \in Seq(SUBSET PoolTransaction) /\ BatchesOK(tx_queue)
      /\ \A x \in Items(tx_queue) \cup Items(imports) : RequiresPrev(x.tx, x.requires)
      /\ is_new_tx => \A x \in Items(tx_queue) : x.tx = ready.hash
  BY <1>0, <1>1 DEF LocalsOK, LocalsTypeOK
<1>5. /\ rest \in Seq(SUBSET PoolTransaction) /\ p \in Items(tx_queue)
      /\ p \in PoolTransaction /\ Items(rest) = Items(tx_queue) \ {p}
  BY <1>1, <1>3, <1>4, PopFacts
<1>6. t \in Txs /\ m \in Markers /\ t \notin DOMAIN ready_tx
  BY <1>0, <1>3, <1>5, MarkerFacts DEF PoolTransaction, InOnePlace, InFlight
<1>7. waiting_queue' = waiting_queue \ required_markers[m]
  BY <1>0, <1>2, <1>3, <1>6, MarkAndUnlockFacts
<1>8. Unlocked(m) \in SUBSET PoolTransaction
  BY <1>0, <1>6, UnlockedFacts
<1>9. \A w \in required_markers[m] : \E x \in Unlocked(m) : x.tx = w
  <2>1. \A w : Waiting(w).tx = w
    BY DEF Waiting
  <2>2. \A w \in required_markers[m] : Waiting(w) \in Unlocked(m)
    BY Zenon DEF Unlocked
  <2>. QED BY <2>1, <2>2, Zenon
<1>10. Items(Requeued(p)) = Items(rest) \cup Unlocked(m)
  BY <1>3, <1>5, <1>8, PushFacts DEF Requeued
<1>11. \A h \in Replaced(t) : h \in DOMAIN ready_tx /\ h \in Txs /\ Marker(h) = Marker(t)
  BY <1>0, <1>3, <1>6, TxsAssumption
     DEF Replaced, ReadyInv, ReadyTypeOK, MarkersMatchReady, InReady
\* What a turn takes out of the queue, if it goes on.
<1>12. ASSUME tx_queue' = Requeued(p)
       PROVE  waiting_queue \cup InFlight \subseteq waiting_queue' \cup InFlight' \cup {t}
  <2>1. InFlight \subseteq InFlight' \cup {t}
    BY <1>1, <1>3, <1>5, <1>10, <1>12 DEF InFlight
  <2>2. required_markers[m] \subseteq InFlight'
    BY <1>1, <1>9, <1>10, <1>12 DEF InFlight
  <2>. QED BY <1>7, <2>1, <2>2
<1>13. CASE ~Underpriced(t) /\ ReadyAdd(p) /\ tx_queue' = Requeued(p)
  <2>1. DOMAIN ready_tx' = (DOMAIN ready_tx \ Replaced(t)) \cup {t}
    BY <1>3, <1>13 DEF ReadyAdd
  <2>2. Known \ Known' \subseteq Replaced(t)
    BY <1>12, <1>13, <2>1 DEF Known
  <2>3. \A h \in Replaced(t) : t.price >= h.price
    BY <1>6, <1>11, <1>13, TxsAssumption DEF Underpriced
  <2>. QED BY <1>11, <2>1, <2>2, <2>3 DEF Outbid
<1>14. CASE /\ Underpriced(t)
            /\ tx_queue' = IF is_new_tx THEN <<>> ELSE Requeued(p)
            /\ UNCHANGED readyVars
  <2>1. ready_tx' = ready_tx
    BY <1>14 DEF readyVars
  <2>2. PICK old \in Replaced(t) : t.price <= old.price
    BY <1>14 DEF Underpriced
  <2>3. Outbid(t)
    BY <1>6, <1>11, <2>1, <2>2, TxsAssumption DEF Outbid
  <2>4. required_markers[m] = {}
    BY <1>0, <1>3, <1>6, <1>11, <2>2, TxsAssumption DEF NoSatisfiedWaiter, Replaced
  <2>5. CASE is_new_tx
    <3>1. \A x \in Items(tx_queue) : x.tx = t
      BY <1>3, <1>4, <1>5, <2>5
    <3>2. InFlight \subseteq InFlight' \cup {t}
      BY <1>1, <3>1 DEF InFlight
    <3>. QED BY <1>7, <2>1, <2>3, <2>4, <3>2 DEF Known
  <2>6. CASE ~is_new_tx
    BY <1>12, <1>14, <2>1, <2>3, <2>6 DEF Known
  <2>. QED BY <2>5, <2>6
<1>. QED BY <1>2, <1>3, <1>13, <1>14

(* Of the handlers that run while another one promotes, only the loop of    *)
(* add_ready_transaction takes transactions out of the pool.                *)
LEMMA PromotingLosesNothing ==
    ASSUME IInv, [Next]_poolVars, Promoting
    PROVE  \A t \in Known \ Known' : Outbid(t)
<1>1. CASE AddReadyTransaction
  BY <1>1, AddReadyLosesNothing
<1>2. CASE FinishAddReady \/ FinishPrune \/ (\E t \in Txs : NotifyListener(t)) \/ UNCHANGED poolVars
  <2>1. UNCHANGED <<readyVars, pendingVars, tx_queue, imports>>
    BY <1>2 DEF FinishAddReady, FinishPrune, NotifyListener, IInv, NoCyclicTransaction, lockVars,
       poolVars
  <2>. QED BY <2>1 DEF Known, InFlight, readyVars, pendingVars
<1>3. CASE ImportUnlocked
  <2>1. PICK p \in Head(imports) : tx_queue' = <<{p}>> /\ imports' = Pop(imports, p)
    BY <1>3 DEF ImportUnlocked
  <2>2. /\ imports # <<>> /\ tx_queue = <<>>
        /\ UNCHANGED <<readyVars, pendingVars>>
    BY <1>3 DEF ImportUnlocked
  <2>3. imports \in Seq(SUBSET PoolTransaction) /\ BatchesOK(imports)
    BY DEF IInv, TypeOK, LocalsTypeOK, LocalsOK
  <2>4. p \in PoolTransaction /\ Items(imports') = Items(imports) \ {p}
    BY <2>1, <2>2, <2>3, PopFacts
  <2>5. Items(tx_queue') = {p} /\ Items(tx_queue) = {}
    BY <2>1, <2>2, <2>4, SingletonQueue, EmptyQueue
  <2>6. InFlight \subseteq InFlight'
    BY <2>4, <2>5 DEF InFlight
  <2>. QED BY <2>2, <2>6 DEF Known, readyVars, pendingVars
<1>4. op # "idle" /\ markers = <<>>
  BY DEF Promoting
<1>. QED BY <1>1, <1>2, <1>3, <1>4
     DEF Next, HoldingLock, AddTransaction, PruneMarker, PruneMarkers, RemoveInvalid,
         RemoveTransactionsByAddress, DropTransaction, Clear

(* While a handler promotes transactions the pool loses none: one that      *)
(* leaves it has been outbid by a ready transaction of the same sender and  *)
(* nonce, although an early Err of add_ready_transaction drops the queue.   *)
THEOREM NothingLost == Spec => NothingLostWhilePromoting
<1>1. IInv /\ [Next]_poolVars =>
        [Promoting => \A t \in Known \ Known' :
                        \E h \in DOMAIN ready_tx' :
                            Marker(h) = Marker(t) /\ h.price >= t.price]_poolVars
  BY PromotingLosesNothing DEF Outbid
<1>. QED BY <1>1, Invariance, PTL DEF Spec, NothingLostWhilePromoting

-----------------------------------------------------------------------------
(* Sequences computed step by step.                                        *)

\* A nonempty set of natural numbers has a least one.
LEMMA LeastNat ==
    ASSUME NEW bad \in SUBSET Nat, bad # {}
    PROVE  \E n \in bad : \A m \in bad : ~(m < n)
  <1> DEFINE R == OpToRel(<, Nat)
  <1>1. \E n \in bad : \A m \in bad : ~(<<m, n>> \in R)
    <2>1. IsWellFoundedOn(R, Nat)
      BY NatLessThanWellFounded
    <2> HIDE DEF R
    <2> QED
      BY <2>1, WFMin, Zenon
  <1>2. \A m, n \in bad : m < n => <<m, n>> \in R
    BY DEF OpToRel
  <1> QED
    BY <1>1, <1>2

\* What is kept by every step of a computation holds at its end.
LEMMA KeptByAll ==
    ASSUME NEW S, NEW k \in Nat, NEW f, f[0] \in S,
           \A i \in 1 .. k : f[i - 1] \in S => f[i] \in S
    PROVE  \A i \in 0 .. k : f[i] \in S
  <1> DEFINE bad == {i \in 0 .. k : f[i] \notin S}
  <1> SUFFICES ASSUME bad # {} PROVE FALSE
    OBVIOUS
  <1>1. bad \in SUBSET Nat
    OBVIOUS
  <1>2. PICK n \in bad : \A m \in bad : ~(m < n)
    BY <1>1, LeastNat, Zenon
  <1>3. n \in 1 .. k /\ n - 1 \in 0 .. k /\ n - 1 < n
    OBVIOUS
  <1>4. f[n - 1] \in S
    BY <1>2, <1>3
  <1> QED
    BY <1>3, <1>4

\* f is the sequence of the k steps from x, all of them in S.
Steps(f, x, step, k, S) ==
    /\ f \in [0 .. k -> S] /\ f[0] = x
    /\ \A i \in 1 .. k : f[i] = step[i][f[i - 1]]

\* A recursive function over 0 .. k exists.
LEMMA StepByStep ==
    ASSUME NEW S, NEW x \in S, NEW k \in Nat, NEW step \in [1 .. k -> [S -> S]]
    PROVE  \E f : Steps(f, x, step, k, S)
  <1> DEFINE Upto(n, g) == /\ g \in [0 .. n -> S] /\ g[0] = x
                           /\ \A i \in 1 .. n : g[i] = step[i][g[i - 1]]
             bad == {n \in 0 .. k : ~\E g : Upto(n, g)}
  <1>1. bad = {}
    <2> SUFFICES ASSUME bad # {} PROVE FALSE
      OBVIOUS
    <2>0. bad \in SUBSET Nat
      OBVIOUS
    <2>1. PICK n \in bad : \A m \in bad : ~(m < n)
      BY <2>0, LeastNat, Zenon
    <2>2. n # 0
      <3> DEFINE g0 == [i \in 0 .. 0 |-> x]
      <3>1. Upto(0, g0)
        OBVIOUS
      <3> QED
        BY <3>1
    <2>3. n \in Nat /\ n \in 1 .. k /\ n - 1 \in 0 .. k /\ n - 1 < n /\ n - 1 \in 0 .. n - 1
      BY <2>2
    <2>4. PICK g : Upto(n - 1, g)
      BY <2>1, <2>3
    <2>5. step[n] \in [S -> S] /\ g[n - 1] \in S
      BY <2>3, <2>4
    <2> DEFINE last == step[n][g[n - 1]]
               h == [i \in 0 .. n |-> IF i = n THEN last ELSE g[i]]
    <2>6. last \in S
      BY <2>5
    <2>7. Upto(n, h)
      <3> HIDE DEF last
      <3>1. \A i \in 0 .. n - 1 : g[i] \in S
        BY <2>4
      <3>2. h[n] = last /\ \A i \in 0 .. n - 1 : h[i] = g[i]
        BY <2>3
      <3>3. h \in [0 .. n -> S] /\ h[0] = x
        <4>1. \A i \in 0 .. n : i = n \/ i \in 0 .. n - 1
          BY <2>3
        <4>2. \A i \in 0 .. n : (IF i = n THEN last ELSE g[i]) \in S
          BY <2>6, <3>1, <4>1
        <4>3. 0 \in 0 .. n - 1
          BY <2>2, <2>3
        <4> QED
          BY <2>4, <3>2, <4>2, <4>3
      <3>4. ASSUME NEW i \in 1 .. n
            PROVE  h[i] = step[i][h[i - 1]]
        <4>1. CASE i = n
          <5>1. h[n - 1] = g[n - 1]
            BY <2>3, <3>2
          <5> HIDE DEF h
          <5> QED
            BY <3>2, <4>1, <5>1 DEF last
        <4>2. CASE i # n
          <5>1. i \in 1 .. n - 1 /\ i \in 0 .. n - 1 /\ i - 1 \in 0 .. n - 1
            BY <2>3, <4>2
          <5>2. h[i] = g[i] /\ h[i - 1] = g[i - 1]
            BY <3>2, <5>1
          <5> HIDE DEF h
          <5> QED
            BY <2>4, <5>1, <5>2
        <4> QED
          BY <4>1, <4>2
      <3> HIDE DEF h
      <3> QED
        BY <3>3, <3>4
    <2> HIDE DEF h
    <2> QED
      BY <2>7
  <1>2. k \in 0 .. k
    OBVIOUS
  <1>3. \E g : Upto(k, g)
    BY <1>1, <1>2
  <1> QED
    BY <1>3 DEF Steps

IsTop(h, A, p, q) == \A g \in A : p[h] > p[g] \/ (p[h] = p[g] /\ q[h] <= q[g])

\* Of finitely many there is one with the highest p, and of those the lowest q.
LEMMA HasBest ==
    ASSUME NEW D, IsFiniteSet(D), NEW p \in [D -> Int], NEW q \in [D -> Int],
           NEW T \in SUBSET D, T # {}
    PROVE  \E h \in T : IsTop(h, T, p, q)
  <1> DEFINE Top(h, A) == \A g \in A : p[h] > p[g] \/ (p[h] = p[g] /\ q[h] <= q[g])
             bad == {n \in Nat : \E A \in SUBSET D :
                        IsFiniteSet(A) /\ A # {} /\ Cardinality(A) = n /\ ~\E h \in A : Top(h, A)}
  <1>1. bad = {}
    <2> SUFFICES ASSUME bad # {} PROVE FALSE
      OBVIOUS
    <2>0. bad \in SUBSET Nat
      OBVIOUS
    <2>1. PICK n \in bad : \A m \in bad : ~(m < n)
      BY <2>0, LeastNat, Zenon
    <2>2. PICK A \in SUBSET D :
             IsFiniteSet(A) /\ A # {} /\ Cardinality(A) = n /\ ~\E h \in A : Top(h, A)
      OBVIOUS
    <2>3. PICK x : x \in A
      BY <2>2
    <2> DEFINE B == A \ {x}
    <2>4. IsFiniteSet(B) /\ Cardinality(B) = n - 1
      BY <2>2, <2>3, FS_RemoveElement
    <2>5. \A a \in A : p[a] \in Int /\ q[a] \in Int
      OBVIOUS
    <2>6. CASE B = {}
      <3>1. A = {x}
        BY <2>3, <2>6
      <3>2. Top(x, A)
        BY <2>5, <3>1
      <3> QED
        BY <2>2, <2>3, <3>2
    <2>7. CASE B # {}
      <3>1. n - 1 \in Nat /\ n - 1 < n
        <4>1. Cardinality(B) \in Nat
          BY <2>4, FS_CardinalityType
        <4> QED
          BY <2>4, <4>1
      <3>2. n - 1 \notin bad
        BY <2>1, <3>1
      <3>3. B \in SUBSET D
        OBVIOUS
      <3> HIDE DEF B, Top
      <3>4. PICK h \in B : Top(h, B)
        BY <2>4, <2>7, <3>1, <3>2, <3>3
      <3> USE DEF B, Top
      <3>5. h \in A /\ p[h] \in Int /\ q[h] \in Int /\ p[x] \in Int /\ q[x] \in Int
        BY <2>3, <2>5
      <3>6. CASE p[h] > p[x] \/ (p[h] = p[x] /\ q[h] <= q[x])
        <4>1. Top(h, A)
          BY <3>4, <3>6
        <4> QED
          BY <2>2, <3>5, <4>1
      <3>7. CASE p[x] > p[h] \/ (p[x] = p[h] /\ q[x] <= q[h])
        <4>1. ASSUME NEW g \in A
              PROVE  p[x] > p[g] \/ (p[x] = p[g] /\ q[x] <= q[g])
          <5>1. p[g] \in Int /\ q[g] \in Int
            BY <2>5
          <5>2. g = x \/ p[h] > p[g] \/ (p[h] = p[g] /\ q[h] <= q[g])
            BY <3>4
          <5> QED
            BY <3>5, <3>7, <5>1, <5>2
        <4>2. Top(x, A)
          BY <4>1
        <4> QED
          BY <2>2, <2>3, <4>2
      <3>8. \/ p[h] > p[x] \/ (p[h] = p[x] /\ q[h] <= q[x])
            \/ p[x] > p[h] \/ (p[x] = p[h] /\ q[x] <= q[h])
        BY <3>5
      <3> QED
        BY <3>6, <3>7, <3>8
    <2> QED
      BY <2>6, <2>7
  <1>2. IsFiniteSet(T) /\ Cardinality(T) \in Nat
    BY FS_Subset, FS_CardinalityType
  <1> QED
    BY <1>1, <1>2 DEF IsTop

-----------------------------------------------------------------------------
(* What the miner takes from the pool.                                     *)

Finite == IsFiniteSet(DOMAIN ready_tx)

Iterators == [independent : SUBSET DOMAIN ready_tx, out : Seq(Txs)]

\* There is a best one among ready transactions (Ord for PoolTransactionRef).
LEMMA BestIn ==
    ASSUME ReadyTypeOK, Finite, NEW T \in SUBSET DOMAIN ready_tx, T # {}
    PROVE  Best(T) \in T
  <1> DEFINE D == DOMAIN ready_tx
             p == [h \in D |-> Priority(h)]
             q == [h \in D |-> ready_tx[h].id]
  <1>1. \A h \in D : h.price \in Int /\ ready_tx[h].id \in Int
    BY TxsAssumption DEF ReadyTypeOK, ReadyTransaction
  <1>2. p \in [D -> Int] /\ q \in [D -> Int]
    BY <1>1 DEF Priority
  <1>3. \A h \in D : p[h] = Priority(h) /\ q[h] = ready_tx[h].id
    OBVIOUS
  <1> HIDE DEF p, q
  <1>4. \E h \in T : IsTop(h, T, p, q)
    BY <1>2, HasBest, Zenon DEF Finite
  <1>5. \E h \in T : \A g \in T :
           \/ Priority(h) > Priority(g)
           \/ Priority(h) = Priority(g) /\ ready_tx[h].id <= ready_tx[g].id
    BY <1>3, <1>4 DEF IsTop
  <1> QED
    BY <1>5 DEF Best

(* next() keeps the type of the iterator.                                   *)
LEMMA IteratorStays ==
    ASSUME ReadyTypeOK, Finite, NEW it \in Iterators
    PROVE  IteratorNext(it) \in Iterators
  <1>1. CASE it.independent = {}
    BY <1>1 DEF IteratorNext
  <1>2. CASE it.independent # {}
    <2>1. PICK best : best = Best(it.independent)
      OBVIOUS
    <2>2. it.independent \in SUBSET DOMAIN ready_tx /\ it.out \in Seq(Txs)
      BY DEF Iterators
    <2>3. best \in it.independent
      BY <1>2, <2>1, <2>2, BestIn
    <2>4. best \in Txs
      BY <2>2, <2>3 DEF ReadyTypeOK
    <2>5. PICK rest : rest = (it.independent \ {best})
                        \cup {h \in DOMAIN ready_tx : ready_tx[best].unlocks[h] > 0}
      OBVIOUS
    <2>6. IteratorNext(it) = [independent |-> rest, out |-> Append(it.out, best)]
      BY <1>2, <2>1, <2>5 DEF IteratorNext
    <2>7. rest \in SUBSET DOMAIN ready_tx
      BY <2>2, <2>5
    <2>8. Append(it.out, best) \in Seq(Txs)
      BY <2>2, <2>4
    <2> QED
      BY <2>6, <2>7, <2>8 DEF Iterators
  <1> QED
    BY <1>1, <1>2

\* The equation that defines the iterator after each call.
Drained(k, g) ==
    g = [n \in 0 .. k |->
            IF n = 0 THEN {[independent |-> independent_transactions, out |-> <<>>]}
            ELSE {IteratorNext(it) : it \in g[n - 1]}]

(* Yields is the end of the function that Drained describes.                *)
LEMMA YieldsIs ==
    LET k == Cardinality(DOMAIN ready_tx) * Cardinality(DOMAIN ready_tx)
    IN  Yields = (CHOOSE it \in (CHOOSE g : Drained(k, g))[k] : TRUE).out
  BY DEF Yields, Drained

(* What next() keeps holds of the drained iterator.                         *)
LEMMA YieldsKeeps ==
    ASSUME Finite, NEW I, [independent |-> independent_transactions, out |-> <<>>] \in I,
           \A it \in I : IteratorNext(it) \in I
    PROVE  \E it \in I : Yields = it.out
  <1> DEFINE k == Cardinality(DOMAIN ready_tx) * Cardinality(DOMAIN ready_tx)
             Some == (SUBSET I) \ {{}}
             first == {[independent |-> independent_transactions, out |-> <<>>]}
             Onward(A) == {IteratorNext(it) : it \in A}
             step == [n \in 1 .. k |-> [A \in Some |-> Onward(A)]]
  <1>1. k \in Nat
    <2>1. Cardinality(DOMAIN ready_tx) \in Nat
      BY FS_CardinalityType DEF Finite
    <2> QED
      BY <2>1
  <1>2. first \in Some
    OBVIOUS
  <1>3. ASSUME NEW A \in Some PROVE Onward(A) \in Some
    <2>1. \A it \in A : IteratorNext(it) \in I
      OBVIOUS
    <2>2. \E it \in A : IteratorNext(it) \in Onward(A)
      OBVIOUS
    <2> QED
      BY <2>1, <2>2
  <1> HIDE DEF k, Some, first, Onward
  <1>4. step \in [1 .. k -> [Some -> Some]]
    BY <1>3
  <1>5. \A n \in 1 .. k : \A A \in Some : step[n][A] = Onward(A)
    OBVIOUS
  <1> HIDE DEF step
  <1>6. PICK f \in [0 .. k -> Some] :
           f[0] = first /\ \A i \in 1 .. k : f[i] = step[i][f[i - 1]]
    <2>1. \E f : Steps(f, first, step, k, Some)
      BY <1>1, <1>2, <1>4, StepByStep, Zenon
    <2> QED
      BY <2>1 DEF Steps
  <1>7. \E g : Drained(k, g)
    <2>1. \A n \in 0 .. k : f[n] = IF n = 0 THEN first ELSE Onward(f[n - 1])
      <3>1. \A n \in 1 .. k : n - 1 \in 0 .. k /\ n \in 0 .. k
        BY <1>1
      <3>2. \A n \in 1 .. k : f[n] = Onward(f[n - 1])
        BY <1>5, <1>6, <3>1
      <3>3. \A n \in 0 .. k : n = 0 \/ n \in 1 .. k
        BY <1>1
      <3> QED
        BY <1>6, <3>2, <3>3
    <2>2. f = [n \in 0 .. k |-> f[n]]
      BY <1>6
    <2>3. f = [n \in 0 .. k |-> IF n = 0 THEN first ELSE Onward(f[n - 1])]
      BY <2>1, <2>2
    <2>4. Drained(k, f)
      BY <2>3 DEF Drained, first, Onward
    <2> QED
      BY <2>4
  <1>8. PICK h : h = CHOOSE g : Drained(k, g)
    OBVIOUS
  <1>9. Drained(k, h)
    BY <1>7, <1>8, Zenon
  <1>10. h = [n \in 0 .. k |-> IF n = 0 THEN first ELSE Onward(h[n - 1])]
    BY <1>9 DEF Drained, first, Onward
  <1>11. h[0] \in Some /\ \A n \in 1 .. k : h[n - 1] \in Some => h[n] \in Some
    <2>1. 0 \in 0 .. k /\ \A n \in 1 .. k : n \in 0 .. k /\ n # 0
      BY <1>1
    <2>2. h[0] = first /\ \A n \in 1 .. k : h[n] = Onward(h[n - 1])
      BY <1>10, <2>1
    <2> QED
      BY <1>2, <1>3, <2>2
  <1>12. h[k] \in Some
    <2>1. \A i \in 0 .. k : h[i] \in Some
      BY <1>1, <1>11, KeptByAll, Zenon
    <2> QED
      BY <1>1, <2>1
  <1>13. Yields = (CHOOSE it \in h[k] : TRUE).out
    BY <1>8, YieldsIs DEF k
  <1>14. \E it \in h[k] : TRUE
    BY <1>12 DEF Some
  <1>15. PICK it \in h[k] : it = CHOOSE x \in h[k] : TRUE
    BY <1>14
  <1>16. it \in I
    BY <1>12 DEF Some
  <1> QED
    BY <1>13, <1>15, <1>16

(* The iterator yields transactions: each call finds a best one among       *)
(* finitely many.                                                           *)
LEMMA YieldsType ==
    ASSUME ReadyTypeOK, independent_transactions \subseteq DOMAIN ready_tx, Finite
    PROVE  Yields \in Seq(Txs)
  <1>1. [independent |-> independent_transactions, out |-> <<>>] \in Iterators
    <2>1. <<>> \in Seq(Txs)
      OBVIOUS
    <2> QED
      BY <2>1 DEF Iterators
  <1>2. \A it \in Iterators : IteratorNext(it) \in Iterators
    BY IteratorStays
  <1>3. PICK it \in Iterators : Yields = it.out
    BY <1>1, <1>2, YieldsKeeps, Zenon
  <1> QED
    BY <1>3 DEF Iterators

(* The first n transactions are a sequence of transactions.                 *)
LEMMA TakeType ==
    ASSUME NEW q \in Seq(Txs), NEW n \in Nat
    PROVE  Take(q, n) \in Seq(Txs)
  BY DEF Take

Merging(auto_txs, fixed_txs, g) ==
    g = [n \in 0 .. Len(fixed_txs) |->
            IF n = 0 THEN auto_txs
            ELSE IF fixed_txs[n] \in Members(g[n - 1]) THEN g[n - 1]
                 ELSE Append(g[n - 1], fixed_txs[n])]

(* Combined is the end of the function that Merging describes.              *)
LEMMA CombinedIs ==
    ASSUME NEW auto_txs, NEW fixed_txs
    PROVE  Combined(auto_txs, fixed_txs)
             = (CHOOSE g : Merging(auto_txs, fixed_txs, g))[Len(fixed_txs)]
  BY DEF Combined, Merging

(* The combined transactions of the two miners are what pushing the missing *)
(* ones one by one leads to.                                                *)
LEMMA CombinedSteps ==
    ASSUME NEW auto_txs \in Seq(Txs), NEW fixed_txs \in Seq(Txs)
    PROVE  \E h : /\ h[0] = auto_txs /\ h[Len(fixed_txs)] = Combined(auto_txs, fixed_txs)
                  /\ \A n \in 0 .. Len(fixed_txs) : h[n] \in Seq(Txs)
                  /\ \A n \in 1 .. Len(fixed_txs) :
                        h[n] = IF fixed_txs[n] \in Members(h[n - 1]) THEN h[n - 1]
                               ELSE Append(h[n - 1], fixed_txs[n])
  <1> DEFINE k == Len(fixed_txs)
             S == Seq(Txs)
             Onward(n, q) == IF fixed_txs[n] \in Members(q) THEN q ELSE Append(q, fixed_txs[n])
             step == [n \in 1 .. k |-> [q \in S |-> Onward(n, q)]]
  <1>1. k \in Nat /\ \A n \in 1 .. k : fixed_txs[n] \in Txs
    OBVIOUS
  <1>2. ASSUME NEW n \in 1 .. k, NEW q \in S PROVE Onward(n, q) \in S
    BY <1>1
  <1> HIDE DEF k, S, Onward
  <1>3. step \in [1 .. k -> [S -> S]]
    BY <1>2
  <1>4. \A n \in 1 .. k : \A q \in S : step[n][q] = Onward(n, q)
    OBVIOUS
  <1>5. auto_txs \in S
    BY DEF S
  <1> HIDE DEF step
  <1>6. \E f : Steps(f, auto_txs, step, k, S)
    BY <1>1, <1>3, <1>5, StepByStep, Zenon
  <1>7. PICK f \in [0 .. k -> S] :
           f[0] = auto_txs /\ \A i \in 1 .. k : f[i] = step[i][f[i - 1]]
    BY <1>6 DEF Steps
  <1>8. \E g : Merging(auto_txs, fixed_txs, g)
    <2>1. \A n \in 0 .. k : f[n] = IF n = 0 THEN auto_txs ELSE Onward(n, f[n - 1])
      <3>1. \A n \in 1 .. k : n - 1 \in 0 .. k /\ n \in 0 .. k
        BY <1>1
      <3>2. \A n \in 1 .. k : f[n] = Onward(n, f[n - 1])
        BY <1>4, <1>7, <3>1
      <3>3. \A n \in 0 .. k : n = 0 \/ n \in 1 .. k
        BY <1>1
      <3> QED
        BY <1>7, <3>2, <3>3
    <2>2. f = [n \in 0 .. k |-> f[n]]
      BY <1>7
    <2>3. f = [n \in 0 .. k |-> IF n = 0 THEN auto_txs ELSE Onward(n, f[n - 1])]
      BY <2>1, <2>2
    <2>4. Merging(auto_txs, fixed_txs, f)
      BY <2>3 DEF Merging, Onward, k
    <2> QED
      BY <2>4
  <1>9. PICK h : h = CHOOSE g : Merging(auto_txs, fixed_txs, g)
    OBVIOUS
  <1>10. Merging(auto_txs, fixed_txs, h)
    BY <1>8, <1>9, Zenon
  <1>11. h = [n \in 0 .. k |-> IF n = 0 THEN auto_txs ELSE Onward(n, h[n - 1])]
    BY <1>10 DEF Merging, Onward, k
  <1>12. h[0] = auto_txs /\ \A n \in 1 .. k : h[n] = Onward(n, h[n - 1])
    <2>1. 0 \in 0 .. k /\ \A n \in 1 .. k : n \in 0 .. k /\ n # 0
      BY <1>1
    <2> QED
      BY <1>11, <2>1
  <1>13. h[0] \in S /\ \A n \in 1 .. k : h[n - 1] \in S => h[n] \in S
    BY <1>2, <1>5, <1>12
  <1>14. \A i \in 0 .. k : h[i] \in S
    BY <1>1, <1>13, KeptByAll, Zenon
  <1>15. h[k] = Combined(auto_txs, fixed_txs)
    BY <1>9, CombinedIs DEF k
  <1> QED
    BY <1>12, <1>14, <1>15 DEF S, k, Onward

(* The combined transactions are a sequence of transactions.                *)
LEMMA CombinedType ==
    ASSUME NEW auto_txs \in Seq(Txs), NEW fixed_txs \in Seq(Txs)
    PROVE  Combined(auto_txs, fixed_txs) \in Seq(Txs)
  <1>1. Len(fixed_txs) \in Nat /\ Len(fixed_txs) \in 0 .. Len(fixed_txs)
    OBVIOUS
  <1> QED
    BY <1>1, CombinedSteps

-----------------------------------------------------------------------------
(* What the executor makes of a block.                                     *)

\* Nonces only grow, what is included has used up its nonce, and no more is
\* included than the gas limit has room for.
Results ==
    {r \in [nonces : [Senders -> Nat], included : Seq(Txs), invalid : SUBSET Txs,
            kept_out : SUBSET Txs, gas_used : Nat] :
        /\ Len(r.included) <= r.gas_used /\ r.gas_used <= BlockGas
        /\ \A s \in Senders : nonces[s] <= r.nonces[s]
        /\ \A i \in DOMAIN r.included :
              r.included[i].nonce < r.nonces[r.included[i].from]}

(* The four outcomes of a transaction: skipped, refused, a wrong nonce, or  *)
(* executed.                                                                *)
LEMMA ExecuteCases ==
    ASSUME NEW r \in Results, NEW t \in Txs, NEW fate \in Fates, NEW x, x = Execute(r, t, fate)
    PROVE  \/ /\ fate = "skipped" \/ r.gas_used + t.gas > BlockGas
              /\ x = [nonces |-> r.nonces, included |-> r.included, invalid |-> r.invalid,
                      kept_out |-> r.kept_out \cup {t}, gas_used |-> r.gas_used]
           \/ x = [nonces |-> r.nonces, included |-> r.included, invalid |-> r.invalid \cup {t},
                   kept_out |-> r.kept_out \cup {t}, gas_used |-> r.gas_used]
           \/ /\ t.nonce # r.nonces[t.from]
              /\ x = [nonces |-> r.nonces, included |-> r.included, invalid |-> r.invalid \cup {t},
                      kept_out |-> r.kept_out, gas_used |-> r.gas_used]
           \/ /\ t.nonce = r.nonces[t.from] /\ ~(r.gas_used + t.gas > BlockGas)
              /\ x = [nonces |-> [r.nonces EXCEPT ![t.from] = @ + 1],
                      included |-> Append(r.included, t), invalid |-> r.invalid,
                      kept_out |-> r.kept_out, gas_used |-> r.gas_used + t.gas]
  <1>1. r \in [nonces : [Senders -> Nat], included : Seq(Txs), invalid : SUBSET Txs,
               kept_out : SUBSET Txs, gas_used : Nat]
    BY DEF Results
  <1> DEFINE skipped == fate = "skipped" \/ r.gas_used + t.gas > BlockGas
             refused == fate = "refused"
  <1>2. CASE skipped
    <2>1. x = [r EXCEPT !.kept_out = @ \cup {t}]
      BY <1>2 DEF Execute
    <2> QED
      BY <1>1, <1>2, <2>1
  <1>3. CASE ~skipped /\ refused
    <2>1. x = [r EXCEPT !.invalid = @ \cup {t}, !.kept_out = @ \cup {t}]
      BY <1>3 DEF Execute
    <2> QED
      BY <1>1, <2>1
  <1>4. CASE ~skipped /\ ~refused /\ t.nonce # r.nonces[t.from]
    <2>1. x = [r EXCEPT !.invalid = @ \cup {t}]
      BY <1>4 DEF Execute
    <2> QED
      BY <1>1, <1>4, <2>1
  <1>5. CASE ~skipped /\ ~refused /\ t.nonce = r.nonces[t.from]
    <2>1. x = [r EXCEPT !.nonces[t.from] = @ + 1,
                        !.included = Append(@, t),
                        !.gas_used = @ + t.gas]
      BY <1>5 DEF Execute
    <2> QED
      BY <1>1, <1>5, <2>1
  <1> QED
    BY <1>2, <1>3, <1>4, <1>5

(* Executing one transaction keeps the facts of Results.                    *)
LEMMA ExecuteStays ==
    ASSUME nonces \in [Senders -> Nat], NEW r \in Results, NEW t \in Txs, NEW fate \in Fates
    PROVE  Execute(r, t, fate) \in Results
  <1>1. /\ r.nonces \in [Senders -> Nat] /\ r.included \in Seq(Txs)
        /\ r.invalid \in SUBSET Txs /\ r.kept_out \in SUBSET Txs /\ r.gas_used \in Nat
    BY DEF Results
  <1>2. /\ Len(r.included) <= r.gas_used /\ r.gas_used <= BlockGas
        /\ \A s \in Senders : nonces[s] <= r.nonces[s]
        /\ \A i \in DOMAIN r.included :
              r.included[i].nonce < r.nonces[r.included[i].from]
    BY DEF Results
  <1>3. /\ t.from \in Senders /\ t.nonce \in Nat /\ t.gas \in 1 .. BlockGas /\ BlockGas \in Nat
    BY TxsAssumption, NodeAssumption
  <1>4. PICK x : x = Execute(r, t, fate)
    OBVIOUS
  <1>5. PICK more \in SUBSET Txs, out \in SUBSET Txs : more = r.invalid \cup {t} /\ out = r.kept_out \cup {t}
    BY <1>1
  <1>6. ASSUME NEW inv \in SUBSET Txs, NEW kept \in SUBSET Txs,
               x = [nonces |-> r.nonces, included |-> r.included, invalid |-> inv,
                    kept_out |-> kept, gas_used |-> r.gas_used]
        PROVE  x \in Results
    BY <1>1, <1>2, <1>6 DEF Results
  <1>7. ASSUME t.nonce = r.nonces[t.from], ~(r.gas_used + t.gas > BlockGas),
               x = [nonces |-> [r.nonces EXCEPT ![t.from] = @ + 1],
                    included |-> Append(r.included, t), invalid |-> r.invalid,
                    kept_out |-> r.kept_out, gas_used |-> r.gas_used + t.gas]
        PROVE  x \in Results
    <2>2. PICK next : next = [r.nonces EXCEPT ![t.from] = @ + 1]
      OBVIOUS
    <2>3. PICK all : all = Append(r.included, t)
      OBVIOUS
    <2>4. PICK gas : gas = r.gas_used + t.gas
      OBVIOUS
    <2>5. x = [nonces |-> next, included |-> all, invalid |-> r.invalid,
               kept_out |-> r.kept_out, gas_used |-> gas]
      BY <1>7, <2>2, <2>3, <2>4
    <2>6. /\ next \in [Senders -> Nat] /\ next[t.from] = t.nonce + 1
          /\ \A s \in Senders : r.nonces[s] <= next[s]
      BY <1>1, <1>3, <1>7, <2>2
    <2>7. /\ all \in Seq(Txs) /\ Len(all) = Len(r.included) + 1 /\ Len(r.included) \in Nat
          /\ \A i \in DOMAIN all :
                (i \in DOMAIN r.included /\ all[i] = r.included[i]) \/ all[i] = t
      BY <1>1, <2>3
    <2>8. gas \in Nat /\ Len(all) <= gas /\ gas <= BlockGas
      <3>1. PICK l \in Nat, g \in Nat, u \in Nat :
               l = Len(r.included) /\ g = r.gas_used /\ u = t.gas
        BY <1>1, <1>3, <2>7
      <3>2. u >= 1 /\ l <= g /\ ~(g + u > BlockGas) /\ BlockGas \in Nat
        BY <1>2, <1>3, <1>7, <3>1
      <3>3. g + u \in Nat /\ l + 1 <= g + u /\ g + u <= BlockGas
        BY <3>2
      <3> QED
        BY <2>4, <2>7, <3>1, <3>3
    <2>9. \A s \in Senders : nonces[s] <= next[s]
      BY <1>1, <1>2, <2>6
    <2>10. ASSUME NEW i \in DOMAIN all PROVE all[i].nonce < next[all[i].from]
      <3>1. CASE all[i] = t
        BY <1>3, <2>6, <3>1
      <3>2. CASE i \in DOMAIN r.included /\ all[i] = r.included[i]
        <4>1. all[i] \in Txs
          BY <2>7
        <4>2. all[i].from \in Senders /\ all[i].nonce \in Nat
          BY <4>1, TxsAssumption
        <4>3. all[i].nonce < r.nonces[all[i].from]
          BY <1>2, <3>2
        <4> QED
          BY <1>1, <2>6, <4>2, <4>3
      <3> QED
        BY <2>7, <3>1, <3>2
    <2>11. /\ x \in [nonces : [Senders -> Nat], included : Seq(Txs), invalid : SUBSET Txs,
                     kept_out : SUBSET Txs, gas_used : Nat]
           /\ x.nonces = next /\ x.included = all /\ x.gas_used = gas
      BY <1>1, <2>5, <2>6, <2>7, <2>8
    <2> QED
      BY <2>8, <2>9, <2>10, <2>11 DEF Results
  <1>8. x \in Results
    BY <1>1, <1>4, <1>5, <1>6, <1>7, ExecuteCases
  <1> QED
    BY <1>4, <1>8

Executing(txs, fate, g) ==
    g = [n \in 0 .. Len(txs) |->
            IF n = 0
            THEN [nonces |-> nonces, included |-> <<>>, invalid |-> {}, kept_out |-> {},
                  gas_used |-> 0]
            ELSE Execute(g[n - 1], txs[n], fate[n])]

(* Executed is the end of the function that Executing describes.            *)
LEMMA ExecutedIs ==
    ASSUME NEW txs, NEW fate
    PROVE  Executed(txs, fate) = (CHOOSE g : Executing(txs, fate, g))[Len(txs)]
  BY DEF Executed, Executing

\* h is the execution of txs, step by step.
Execution(txs, fate, h) ==
    /\ h[0].invalid = {} /\ h[Len(txs)] = Executed(txs, fate)
    /\ \A n \in 0 .. Len(txs) : h[n] \in Results
    /\ \A n \in 1 .. Len(txs) : h[n] = Execute(h[n - 1], txs[n], fate[n])

(* A block is what executing its transactions one by one leads to.          *)
LEMMA ExecutedSteps ==
    ASSUME nonces \in [Senders -> Nat], NEW txs \in Seq(Txs),
           NEW fate \in [DOMAIN txs -> Fates]
    PROVE  \E h : Execution(txs, fate, h)
  <1> DEFINE k == Len(txs)
             first == [nonces |-> nonces, included |-> <<>>, invalid |-> {}, kept_out |-> {},
                       gas_used |-> 0]
             Onward(n, r) == Execute(r, txs[n], fate[n])
             step == [n \in 1 .. k |-> [r \in Results |-> Onward(n, r)]]
  <1>1. k \in Nat /\ \A n \in 1 .. k : txs[n] \in Txs /\ fate[n] \in Fates
    OBVIOUS
  <1>2. ASSUME NEW n \in 1 .. k, NEW r \in Results PROVE Onward(n, r) \in Results
    BY <1>1, ExecuteStays
  <1>3. first \in Results
    <2>1. PICK none : none = <<>>
      OBVIOUS
    <2>2. none \in Seq(Txs) /\ Len(none) = 0 /\ DOMAIN none = {}
      BY <2>1
    <2>3. first = [nonces |-> nonces, included |-> none, invalid |-> {}, kept_out |-> {},
                 gas_used |-> 0]
      BY <2>1
    <2> HIDE DEF first
    <2> QED
      BY <2>2, <2>3, NodeAssumption DEF Results
  <1> HIDE DEF k, first, Onward
  <1>4. step \in [1 .. k -> [Results -> Results]]
    BY <1>2
  <1>5. \A n \in 1 .. k : \A r \in Results : step[n][r] = Onward(n, r)
    OBVIOUS
  <1> HIDE DEF step
  <1>6. \E f : Steps(f, first, step, k, Results)
    BY <1>1, <1>3, <1>4, StepByStep, Zenon
  <1>7. PICK f \in [0 .. k -> Results] :
           f[0] = first /\ \A i \in 1 .. k : f[i] = step[i][f[i - 1]]
    BY <1>6 DEF Steps
  <1>8. \E g : Executing(txs, fate, g)
    <2>1. \A n \in 0 .. k : f[n] = IF n = 0 THEN first ELSE Onward(n, f[n - 1])
      <3>1. \A n \in 1 .. k : n - 1 \in 0 .. k /\ n \in 0 .. k
        BY <1>1
      <3>2. \A n \in 1 .. k : f[n] = Onward(n, f[n - 1])
        BY <1>5, <1>7, <3>1
      <3>3. \A n \in 0 .. k : n = 0 \/ n \in 1 .. k
        BY <1>1
      <3> QED
        BY <1>7, <3>2, <3>3
    <2>2. f = [n \in 0 .. k |-> f[n]]
      BY <1>7
    <2>3. f = [n \in 0 .. k |-> IF n = 0 THEN first ELSE Onward(n, f[n - 1])]
      BY <2>1, <2>2
    <2>4. Executing(txs, fate, f)
      BY <2>3 DEF Executing, Onward, first, k
    <2> QED
      BY <2>4
  <1>9. PICK h : h = CHOOSE g : Executing(txs, fate, g)
    OBVIOUS
  <1>10. Executing(txs, fate, h)
    BY <1>8, <1>9, Zenon
  <1>11. h = [n \in 0 .. k |-> IF n = 0 THEN first ELSE Onward(n, h[n - 1])]
    BY <1>10 DEF Executing, Onward, first, k
  <1>12. h[0] = first /\ \A n \in 1 .. k : h[n] = Onward(n, h[n - 1])
    <2>1. 0 \in 0 .. k /\ \A n \in 1 .. k : n \in 0 .. k /\ n # 0
      BY <1>1
    <2> QED
      BY <1>11, <2>1
  <1>13. h[0] \in Results /\ \A n \in 1 .. k : h[n - 1] \in Results => h[n] \in Results
    BY <1>2, <1>3, <1>12
  <1>14. \A i \in 0 .. k : h[i] \in Results
    BY <1>1, <1>13, KeptByAll, Zenon
  <1>15. h[k] = Executed(txs, fate)
    BY <1>9, ExecutedIs DEF k
  <1>16. first.invalid = {}
    BY DEF first
  <1>17. Execution(txs, fate, h)
    BY <1>12, <1>14, <1>15, <1>16 DEF k, Onward, Execution
  <1> QED
    BY <1>17

(* A mined block has the facts of Results.                                  *)
LEMMA ExecutedResult ==
    ASSUME nonces \in [Senders -> Nat], NEW txs \in Seq(Txs),
           NEW fate \in [DOMAIN txs -> Fates]
    PROVE  Executed(txs, fate) \in Results
  <1>1. Len(txs) \in Nat /\ Len(txs) \in 0 .. Len(txs)
    OBVIOUS
  <1> QED
    BY <1>1, ExecutedSteps DEF Execution

(* A mined block is the outcome of its transactions for some fate of each.  *)
LEMMA MineBlockResult ==
    ASSUME nonces \in [Senders -> Nat], NEW a \in Producers, block[a].txs \in Seq(Txs), MineBlock(a)
    PROVE  \E fate \in [DOMAIN block[a].txs -> Fates], result \in Results :
              /\ result = Executed(block[a].txs, fate)
              /\ nonces' = result.nonces
              /\ block' = [block EXCEPT ![a] = [txs |-> <<>>, included |-> result.included,
                                                invalid |-> result.invalid,
                                                kept_out |-> result.kept_out]]
  <1>1. PICK fate \in [DOMAIN block[a].txs -> Fates] :
           LET result == Executed(block[a].txs, fate)
           IN  /\ nonces' = result.nonces
               /\ block' = [block EXCEPT ![a] = [txs |-> <<>>, included |-> result.included,
                                                 invalid |-> result.invalid,
                                                 kept_out |-> result.kept_out]]
    BY DEF MineBlock
  <1>2. PICK txs \in Seq(Txs) : txs = block[a].txs
    OBVIOUS
  <1>3. Executed(txs, fate) \in Results
    BY <1>2, ExecutedResult
  <1> QED
    BY <1>1, <1>2, <1>3

(* get_transaction_count is a nonce: there is a highest among the ready     *)
(* transactions of a sender.                                                *)
LEMMA HighestNonceType ==
    ASSUME nonces \in [Senders -> Nat], Yields \in Seq(Txs), NEW s \in Senders
    PROVE  HighestNonce(s) \in Nat
  <1> DEFINE mine == {t \in Members(Yields) : t.from = s}
             p == [t \in Members(Yields) |-> t.nonce]
             q == [t \in Members(Yields) |-> 0]
  <1>1. Members(Yields) \in SUBSET Txs /\ IsFiniteSet(Members(Yields))
    <2>1. Len(Yields) \in Nat /\ DOMAIN Yields = 1 .. Len(Yields)
          /\ \A i \in DOMAIN Yields : Yields[i] \in Txs
      OBVIOUS
    <2>2. IsFiniteSet(DOMAIN Yields)
      BY <2>1, FS_Interval
    <2>3. IsFiniteSet({Yields[i] : i \in DOMAIN Yields})
      <3> DEFINE M == {Yields[i] : i \in DOMAIN Yields}
                 f == [i \in DOMAIN Yields |-> Yields[i]]
      <3>1. f \in Surjection(DOMAIN Yields, M)
        BY DEF Surjection
      <3> HIDE DEF f, M
      <3>2. IsFiniteSet(M)
        BY <2>2, <3>1, FS_Surjection, Zenon
      <3> QED
        BY <3>2 DEF M
    <2> QED
      BY <2>1, <2>3 DEF Members
  <1>2. \A t \in Members(Yields) : t.nonce \in Nat
    BY <1>1, TxsAssumption
  <1>3. p \in [Members(Yields) -> Int] /\ q \in [Members(Yields) -> Int]
    BY <1>2
  <1>4. \A t \in Members(Yields) : p[t] = t.nonce /\ q[t] = 0
    OBVIOUS
  <1>5. CASE mine = {}
    BY <1>5 DEF HighestNonce
  <1>6. CASE mine # {}
    <2>1. mine \in SUBSET Members(Yields)
      OBVIOUS
    <2> HIDE DEF p, q, mine
    <2>2. \E h \in mine : IsTop(h, mine, p, q)
      BY <1>1, <1>3, <1>6, <2>1, HasBest, Zenon
    <2>3. PICK h \in mine : \A g \in mine : p[h] > p[g] \/ (p[h] = p[g] /\ q[h] <= q[g])
      BY <2>2 DEF IsTop
    <2>4. h.nonce \in {t.nonce : t \in mine} /\ \A t \in mine : t.nonce <= h.nonce
      BY <1>2, <1>4, <2>1, <2>3
    <2>5. PICK n : n = CHOOSE x \in {t.nonce : t \in mine} : \A t \in mine : t.nonce <= x
      OBVIOUS
    <2>6. n \in {t.nonce : t \in mine}
      BY <2>4, <2>5
    <2>7. n \in Nat
      BY <1>2, <2>1, <2>6
    <2>8. HighestNonce(s) = n + 1
      BY <1>6, <2>5 DEF HighestNonce, mine
    <2> QED
      BY <2>7, <2>8
  <1> QED
    BY <1>5, <1>6

-----------------------------------------------------------------------------
(* The node drives the pool.                                               *)

AnyBlock == [txs : Seq(Txs), included : Seq(Txs), invalid : SUBSET Txs, kept_out : SUBSET Txs]

\* What handlers and producers hold is made of transactions, and a block has
\* no more of them than its gas limit allows.
NodeInv ==
    /\ nonces \in [Senders -> Nat]
    /\ request \in [Clients -> [at : {"idle", "validate", "nonce", "add"},
                                tx : Txs \cup {NoTx}, on_chain_nonce : Nat]]
    /\ \A c \in Clients : request[c].at # "idle" => request[c].tx \in Txs
    /\ queued \in Seq(Seq(Txs))
    /\ block \in [Producers -> AnyBlock]
    /\ \A a \in Producers : Len(block[a].included) <= BlockGas
    /\ Finite

MinerTypeOK ==
    /\ mode \in {"None", "Auto", "FixedBlockTime", "Mixed"}
    /\ rx \in BOOLEAN
    /\ has_pending_txs \in {"unknown", "yes", "no"}
    /\ stage \in [Producers -> {"idle", "mining", "mined", "pruning"}]

\* A submission requires the marker of its predecessor or nothing.
LEMMA SubmissionType ==
    ASSUME NEW t \in Txs, NEW n \in Nat
    PROVE  [tx |-> t, requires |-> RequiredMarker(t, n)] \in Submissions
  <1>1. t.nonce \in Nat
    BY TxsAssumption
  <1>2. CASE n < t.nonce
    <2>1. t.nonce > 0
      BY <1>1, <1>2
    <2>2. RequiredMarker(t, n) = {PrevMarker(t)}
      BY <1>2 DEF RequiredMarker
    <2> QED
      BY <2>1, <2>2 DEF Submissions, Waiting
  <1>3. CASE ~(n < t.nonce)
    BY <1>3 DEF RequiredMarker, Submissions
  <1> QED
    BY <1>2, <1>3

(* The markers of an included block are a batch prune_markers may be given. *)
LEMMA BatchType ==
    ASSUME NEW txs \in Seq(Txs), txs # <<>>, Len(txs) <= BlockGas, BlockGas <= MaxMarkers
    PROVE  [i \in DOMAIN txs |-> Marker(txs[i])] \in MarkerBatches
  <1>1. PICK k : k = Len(txs)
    OBVIOUS
  <1>2. /\ k \in Nat /\ k >= 1 /\ DOMAIN txs = 1 .. k
        /\ \A i \in 1 .. k : txs[i] \in Txs
    BY <1>1
  <1>3. k \in 1 .. MaxMarkers
    BY <1>1, <1>2, BoundsAssumption, NodeAssumption
  <1>4. \A i \in 1 .. k : Marker(txs[i]) \in Markers
    BY <1>2, MarkerFacts
  <1>5. [i \in DOMAIN txs |-> Marker(txs[i])] \in [1 .. k -> Markers]
    BY <1>2, <1>4
  <1> QED
    BY <1>3, <1>5 DEF MarkerBatches

(* Every step of the node is a step of the pool or leaves it alone.         *)
LEMMA NodeStepsPool ==
    ASSUME NodeInv, [NodeNext]_nodeVars, BlockGas <= MaxMarkers
    PROVE  [Next]_poolVars
  <1>1. ASSUME NEW c \in Clients, AddPendingTransaction(c) PROVE Next
    <2>1. PICK t \in Txs : t = request[c].tx
      BY <1>1 DEF NodeInv, AddPendingTransaction
    <2>2. PICK n \in Nat : n = request[c].on_chain_nonce
      BY DEF NodeInv
    <2>3. AddTransaction([tx |-> t, requires |-> RequiredMarker(t, n)])
      BY <1>1, <2>1, <2>2 DEF AddPendingTransaction
    <2>4. [tx |-> t, requires |-> RequiredMarker(t, n)] \in Submissions
      BY SubmissionType
    <2> QED
      BY <2>3, <2>4 DEF Next
  <1>2. ASSUME NEW a \in Producers, RemoveInvalidTxs(a) PROVE Next
    <2>1. block[a].invalid \in SUBSET Txs
      BY DEF NodeInv, AnyBlock
    <2> QED
      BY <1>2, <2>1 DEF RemoveInvalidTxs, Next
  <1>3. ASSUME NEW a \in Producers, PruneIncluded(a) PROVE Next \/ UNCHANGED poolVars
    <2>1. PICK txs \in Seq(Txs) : txs = block[a].included
      BY DEF NodeInv, AnyBlock
    <2>2. Len(txs) <= BlockGas
      BY <2>1 DEF NodeInv
    <2>3. CASE txs = <<>>
      BY <1>3, <2>1, <2>3 DEF PruneIncluded
    <2>4. CASE txs # <<>>
      <3>1. PruneMarkers([i \in DOMAIN txs |-> Marker(txs[i])])
        BY <1>3, <2>1, <2>4 DEF PruneIncluded
      <3>2. [i \in DOMAIN txs |-> Marker(txs[i])] \in MarkerBatches
        BY <2>2, <2>4, BatchType
      <3> QED
        BY <3>1, <3>2 DEF Next
    <2> QED
      BY <2>3, <2>4
  <1>4. ASSUME NEW t \in Txs, AnvilDropTransaction(t) PROVE Next
    BY <1>4 DEF AnvilDropTransaction, Next
  <1>5. ASSUME NEW s \in Senders, AnvilRemovePoolTransactions(s) PROVE Next
    BY <1>5 DEF AnvilRemovePoolTransactions, Next
  <1>6. CASE AnvilDropAllTransactions
    BY <1>6 DEF AnvilDropAllTransactions, Next
  <1>7. CASE PoolStep
    BY <1>7 DEF PoolStep, Next
  <1>8. CASE Notify
    BY <1>8 DEF Notify, Next
  <1>9. ASSUME \/ \E c \in Clients, t \in Txs : SendRawTransaction(c, t) \/ SendTransaction(c, t)
               \/ \E c \in Clients : \/ CurrentNonce(c) \/ ValidatePoolTransaction(c)
                                     \/ AddRejected(c)
               \/ \E enable \in BOOLEAN : AnvilSetAutoMine(enable)
               \/ \E secs \in {0, 1} : AnvilSetIntervalMining(secs)
               \/ \E tick \in BOOLEAN : MinerPoll(tick)
               \/ StartMining \/ EvmMine
               \/ \E a \in Producers : MineBlock(a)
               \/ UNCHANGED nodeVars
        PROVE  UNCHANGED poolVars
    BY <1>9 DEF SendRawTransaction, SendTransaction, CurrentNonce, ValidatePoolTransaction,
                AddRejected, AnvilSetAutoMine, AnvilSetIntervalMining, MinerPoll, StartMining,
                EvmMine, MineBlock, nodeVars
  <1> QED
    BY <1>1, <1>2, <1>3, <1>4, <1>5, <1>6, <1>7, <1>8, <1>9, Zenon DEF NodeNext

(* A step of the pool adds one ready transaction at most.                   *)
LEMMA FiniteStays ==
    ASSUME Finite, [Next]_poolVars
    PROVE  Finite'
  <1>1. \E x : DOMAIN ready_tx' \subseteq DOMAIN ready_tx \cup {x}
    <2>1. ASSUME NEW hashes, RemoveWithMarkers(hashes)
          PROVE  DOMAIN ready_tx' \subseteq DOMAIN ready_tx
      BY <2>1 DEF RemoveWithMarkers
    <2>2. ASSUME NEW m, PruneTags(m) PROVE DOMAIN ready_tx' \subseteq DOMAIN ready_tx
      BY <2>2 DEF PruneTags
    <2>3. ASSUME NEW p, ReadyAdd(p)
          PROVE  DOMAIN ready_tx' \subseteq DOMAIN ready_tx \cup {p.tx}
      BY <2>3 DEF ReadyAdd
    <2>4. CASE AddReadyTransaction
      <3>1. (\E p : ReadyAdd(p)) \/ UNCHANGED readyVars
        BY <2>4 DEF AddReadyTransaction
      <3> QED
        BY <2>3, <3>1 DEF readyVars
    <2>5. CASE FinishAddReady
      <3>1. (\E hashes : RemoveWithMarkers(hashes)) \/ UNCHANGED readyVars
        BY <2>5 DEF FinishAddReady
      <3> QED
        BY <2>1, <3>1 DEF readyVars
    <2>6. CASE PruneMarker
      <3>1. \E m : PruneTags(m)
        BY <2>6 DEF PruneMarker
      <3> QED
        BY <2>2, <3>1
    <2>7. ASSUME \/ \E hashes : RemoveInvalid(hashes)
                 \/ \E s \in Senders : RemoveTransactionsByAddress(s)
                 \/ \E t \in Txs : DropTransaction(t)
          PROVE  DOMAIN ready_tx' \subseteq DOMAIN ready_tx
      <3>1. \E hashes : RemoveWithMarkers(hashes)
        BY <2>7 DEF RemoveInvalid, RemoveTransactionsByAddress, DropTransaction
      <3> QED
        BY <2>1, <3>1
    <2>8. CASE Clear
      BY <2>8 DEF Clear
    <2>9. ASSUME \/ \E p \in Submissions : AddTransaction(p)
                 \/ ImportUnlocked \/ FinishPrune
                 \/ \E t \in Txs : NotifyListener(t)
                 \/ \E ms \in MarkerBatches : PruneMarkers(ms)
                 \/ UNCHANGED poolVars
          PROVE  ready_tx' = ready_tx
      BY <2>9 DEF AddTransaction, ImportUnlocked, FinishPrune, NotifyListener, PruneMarkers,
                  readyVars, poolVars
    <2> QED
      BY <2>4, <2>5, <2>6, <2>7, <2>8, <2>9 DEF Next, HoldingLock
  <1>2. PICK x : DOMAIN ready_tx' \subseteq DOMAIN ready_tx \cup {x}
    BY <1>1
  <1>3. PICK D : D = DOMAIN ready_tx \cup {x}
    OBVIOUS
  <1>4. IsFiniteSet(D)
    BY <1>3, FS_AddElement DEF Finite
  <1>5. PICK E : E = DOMAIN ready_tx'
    OBVIOUS
  <1>6. IsFiniteSet(E)
    BY <1>2, <1>3, <1>4, <1>5, FS_Subset
  <1> QED
    BY <1>5, <1>6 DEF Finite

(* A node starts with an empty pool, no request and no block.               *)
LEMMA NodeInitInv == NodeInit => IInv /\ NodeInv /\ MinerTypeOK
  <1> SUFFICES ASSUME NodeInit PROVE IInv /\ NodeInv /\ MinerTypeOK
    OBVIOUS
  <1>1. IInv
    BY InitInv DEF NodeInit
  <1>2. PICK none : none = <<>>
    OBVIOUS
  <1>3. none \in Seq(Txs) /\ none \in Seq(Seq(Txs)) /\ Len(none) = 0
    BY <1>2
  <1>4. /\ nonces = [s \in Senders |-> 0]
        /\ request = [c \in Clients |-> [at |-> "idle", tx |-> NoTx, on_chain_nonce |-> 0]]
        /\ queued = none
        /\ block = [a \in Producers |-> [txs |-> none, included |-> none, invalid |-> {}, kept_out |-> {}]]
    BY <1>2 DEF NodeInit, NoRequest, NoBlock, NewBlock
  <1>5. Finite
    <2>1. DOMAIN ready_tx = {}
      BY DEF NodeInit, Init
    <2> QED
      BY <2>1, FS_EmptySet DEF Finite
  <1>6. NodeInv
    BY <1>3, <1>4, <1>5, NodeAssumption DEF NodeInv, AnyBlock
  <1>7. MinerTypeOK
    BY NodeAssumption DEF NodeInit, MinerTypeOK
  <1> QED
    BY <1>1, <1>6, <1>7

(* The miner and the stages of the producers keep their types.              *)
LEMMA MinerTypes ==
    ASSUME MinerTypeOK, [NodeNext]_nodeVars
    PROVE  MinerTypeOK'
  <1>1. ASSUME \/ \E c \in Clients, t \in Txs : SendRawTransaction(c, t) \/ SendTransaction(c, t)
               \/ \E c \in Clients : \/ CurrentNonce(c) \/ ValidatePoolTransaction(c)
                                     \/ AddRejected(c) \/ AddPendingTransaction(c)
               \/ \E t \in Txs : AnvilDropTransaction(t)
               \/ \E s \in Senders : AnvilRemovePoolTransactions(s)
               \/ AnvilDropAllTransactions
               \/ \E a \in Producers : RemoveInvalidTxs(a)
               \/ UNCHANGED nodeVars
        PROVE  UNCHANGED <<mode, rx, has_pending_txs, stage>>
    BY <1>1 DEF SendRawTransaction, SendTransaction, CurrentNonce, ValidatePoolTransaction,
                AddRejected, AddPendingTransaction, AnvilDropTransaction,
                AnvilRemovePoolTransactions, AnvilDropAllTransactions, RemoveInvalidTxs,
                nodeVars, minerVars, producerVars
  <1>2. ASSUME UNCHANGED <<mode, rx, has_pending_txs, stage>> PROVE MinerTypeOK'
    BY <1>2 DEF MinerTypeOK
  <1>3. ASSUME NEW enable \in BOOLEAN, AnvilSetAutoMine(enable) PROVE MinerTypeOK'
    BY <1>3 DEF MinerTypeOK, AnvilSetAutoMine, producerVars
  <1>4. ASSUME NEW secs \in {0, 1}, AnvilSetIntervalMining(secs) PROVE MinerTypeOK'
    BY <1>4 DEF MinerTypeOK, AnvilSetIntervalMining, producerVars
  <1>5. ASSUME NEW tick \in BOOLEAN, MinerPoll(tick) PROVE MinerTypeOK'
    BY <1>5 DEF MinerTypeOK, MinerPoll, HasPending
  <1>6. CASE StartMining
    BY <1>6 DEF MinerTypeOK, StartMining, minerVars, Producers
  <1>7. CASE EvmMine
    BY <1>7 DEF MinerTypeOK, EvmMine, minerVars, Producers
  <1>8. ASSUME NEW a \in Producers, MineBlock(a) PROVE MinerTypeOK'
    BY <1>8 DEF MinerTypeOK, MineBlock, minerVars
  <1>9. ASSUME NEW a \in Producers, PruneIncluded(a) PROVE MinerTypeOK'
    BY <1>9 DEF MinerTypeOK, PruneIncluded, minerVars
  <1>10. CASE PoolStep
    BY <1>10 DEF MinerTypeOK, PoolStep, minerVars
  <1>11. CASE Notify
    BY <1>11 DEF MinerTypeOK, Notify, producerVars, Listening
  <1> QED
    BY <1>1, <1>2, <1>3, <1>4, <1>5, <1>6, <1>7, <1>8, <1>9, <1>10, <1>11, Zenon DEF NodeNext

\* A handler that changes the request of its client.
LEMMA RequestInv ==
    ASSUME NodeInv, Finite', NEW c \in Clients, NEW r,
           r \in [at : {"idle", "validate", "nonce", "add"}, tx : Txs \cup {NoTx},
                  on_chain_nonce : Nat],
           r.at # "idle" => r.tx \in Txs,
           request' = [request EXCEPT ![c] = r],
           UNCHANGED <<nonces, queued, block>>
    PROVE  NodeInv'
  BY DEF NodeInv

(* A step that leaves requests, queue and blocks alone.                     *)
LEMMA SameInv ==
    ASSUME NodeInv, Finite', UNCHANGED <<nonces, request, queued, block>>
    PROVE  NodeInv'
  BY DEF NodeInv

\* A producer that changes its block.
LEMMA BlockInv ==
    ASSUME NodeInv, Finite', NEW a \in Producers, NEW b,
           b \in AnyBlock,
           Len(b.included) <= BlockGas,
           block' = [block EXCEPT ![a] = b],
           nonces' \in [Senders -> Nat], queued' \in Seq(Seq(Txs)), request' = request
    PROVE  NodeInv'
  BY DEF NodeInv

(* Every step keeps what handlers and producers hold well typed.            *)
LEMMA NodeNextInv ==
    ASSUME IInv, NodeInv, [NodeNext]_nodeVars, BlockGas <= MaxMarkers
    PROVE  NodeInv'
  <1> DEFINE Request == [at : {"idle", "validate", "nonce", "add"}, tx : Txs \cup {NoTx},
                         on_chain_nonce : Nat]
  <1>0. Finite'
    BY NodeStepsPool, FiniteStays DEF NodeInv
  <1>1. Yields \in Seq(Txs)
    BY YieldsType DEF NodeInv, IInv, TypeOK, Linked
  <1>2. NoRequest \in Request /\ NoRequest.at = "idle"
    BY DEF NoRequest
  <1>3. /\ nonces \in [Senders -> Nat] /\ \A t \in Txs : t.from \in Senders
        /\ \A c \in Clients : request[c] \in Request
        /\ \A c \in Clients : request[c].at # "idle" => request[c].tx \in Txs
        /\ queued \in Seq(Seq(Txs)) /\ \A a \in Producers : block[a] \in AnyBlock
    BY TxsAssumption DEF NodeInv
  <1>20. <<>> \in Seq(Txs) /\ Len(<<>>) = 0
    OBVIOUS
  <1>21. PICK none \in Seq(Txs) : none = <<>> /\ Len(none) = 0
    BY <1>20, Zenon
  <1>4. ASSUME NEW c \in Clients, NEW t \in Txs, SendRawTransaction(c, t) PROVE NodeInv'
    <2>1. PICK r : r = [at |-> "nonce", tx |-> t, on_chain_nonce |-> 0]
      OBVIOUS
    <2>2. r \in Request /\ r.tx \in Txs
      BY <2>1
    <2>3. request' = [request EXCEPT ![c] = r] /\ UNCHANGED <<nonces, queued, block>>
      BY <1>4, <2>1 DEF SendRawTransaction, producerVars
    <2> QED
      BY <1>0, <2>2, <2>3, RequestInv
  <1>5. ASSUME NEW c \in Clients, NEW t \in Txs, SendTransaction(c, t) PROVE NodeInv'
    <2>1. PICK n \in Nat : n = HighestNonce(t.from)
      BY <1>1, <1>3, HighestNonceType
    <2>2. PICK r : r = [at |-> "validate", tx |-> t, on_chain_nonce |-> n]
      OBVIOUS
    <2>3. r \in Request /\ r.tx \in Txs
      BY <2>2
    <2>4. request' = [request EXCEPT ![c] = r] /\ UNCHANGED <<nonces, queued, block>>
      BY <1>5, <2>1, <2>2 DEF SendTransaction, producerVars
    <2> QED
      BY <1>0, <2>3, <2>4, RequestInv
  <1>6. ASSUME NEW c \in Clients, CurrentNonce(c) PROVE NodeInv'
    <2>1. request[c].tx \in Txs
      BY <1>3, <1>6 DEF CurrentNonce
    <2>2. PICK n \in Nat : n = nonces[request[c].tx.from]
      BY <1>3, <2>1
    <2>3. PICK r : r = [at |-> "add", tx |-> request[c].tx, on_chain_nonce |-> n]
      OBVIOUS
    <2>4. r \in Request /\ r.tx \in Txs
      BY <2>1, <2>3
    <2>5. request' = [request EXCEPT ![c] = r] /\ UNCHANGED <<nonces, queued, block>>
      BY <1>6, <2>2, <2>3 DEF CurrentNonce, producerVars
    <2> QED
      BY <1>0, <2>4, <2>5, RequestInv
  <1>7. ASSUME NEW c \in Clients, ValidatePoolTransaction(c) PROVE NodeInv'
    <2>1. request[c].tx \in Txs
      BY <1>3, <1>7 DEF ValidatePoolTransaction
    <2>2. PICK r : r = IF request[c].tx.nonce >= nonces[request[c].tx.from]
                       THEN [request[c] EXCEPT !.at = "add"] ELSE NoRequest
      OBVIOUS
    <2>3. r \in Request /\ (r.at # "idle" => r.tx \in Txs)
      BY <1>2, <1>3, <2>1, <2>2
    <2>4. request' = [request EXCEPT ![c] = r] /\ UNCHANGED <<nonces, queued, block>>
      BY <1>7, <2>2 DEF ValidatePoolTransaction, producerVars
    <2> QED
      BY <1>0, <2>3, <2>4, RequestInv
  <1>8. ASSUME NEW c \in Clients, AddPendingTransaction(c) \/ AddRejected(c) PROVE NodeInv'
    <2>1. request' = [request EXCEPT ![c] = NoRequest] /\ UNCHANGED <<nonces, queued, block>>
      BY <1>8 DEF AddPendingTransaction, AddRejected, producerVars
    <2> QED
      BY <1>0, <1>2, <2>1, RequestInv
  <1>9. ASSUME \/ \E t \in Txs : AnvilDropTransaction(t)
               \/ \E s \in Senders : AnvilRemovePoolTransactions(s)
               \/ AnvilDropAllTransactions
               \/ \E enable \in BOOLEAN : AnvilSetAutoMine(enable)
               \/ \E secs \in {0, 1} : AnvilSetIntervalMining(secs)
               \/ PoolStep \/ Notify \/ UNCHANGED nodeVars
        PROVE  NodeInv'
    <2>1. UNCHANGED <<nonces, request, queued, block>>
      BY <1>9 DEF AnvilDropTransaction, AnvilRemovePoolTransactions, AnvilDropAllTransactions,
                  AnvilSetAutoMine, AnvilSetIntervalMining, PoolStep, Notify, nodeVars,
                  producerVars
    <2> QED
      BY <1>0, <2>1, SameInv
  <1>10. ASSUME NEW tick \in BOOLEAN, MinerPoll(tick) PROVE NodeInv'
    <2>0. Take(Yields, MaxTransactions) \in Seq(Txs)
      BY <1>1, TakeType, NodeAssumption
    <2>1. PICK auto_txs \in Seq(Txs) :
             auto_txs = IF AutoPolls THEN Take(Yields, MaxTransactions) ELSE <<>>
      BY <1>20, <2>0, Zenon
    <2>2. PICK fixed_txs \in Seq(Txs) :
             fixed_txs = IF tick /\ mode \in {"FixedBlockTime", "Mixed"} THEN Yields ELSE <<>>
      BY <1>1, <1>20, Zenon
    <2>3. PICK txs \in Seq(Txs) :
             txs = IF auto_txs = <<>> THEN fixed_txs ELSE Combined(auto_txs, fixed_txs)
      BY CombinedType
    <2>4. queued' = queued \/ queued' = Append(queued, txs)
      BY <1>10, <2>1, <2>2, <2>3 DEF MinerPoll
    <2>5. queued' \in Seq(Seq(Txs))
      <3>1. PICK S : S = Seq(Txs)
        OBVIOUS
      <3>2. queued \in Seq(S) /\ txs \in S
        BY <1>3, <3>1
      <3>3. PICK q \in Seq(S) : q = queued
        BY <3>2
      <3>4. Append(q, txs) \in Seq(S)
        BY <3>2, <3>3
      <3>5. queued' \in Seq(S)
        BY <2>4, <3>3, <3>4, Zenon
      <3> QED
        BY <3>1, <3>5
    <2>6. UNCHANGED <<nonces, request, block>>
      BY <1>10 DEF MinerPoll
    <2> QED
      BY <1>0, <2>5, <2>6 DEF NodeInv
  <1>11. CASE StartMining
    <2>1. PICK txs \in Seq(Txs) : txs = Head(queued)
      BY <1>3, <1>11 DEF StartMining
    <2>2. Tail(queued) \in Seq(Seq(Txs))
      BY <1>3, <1>11 DEF StartMining
    <2>4. PICK b : b = [txs |-> txs, included |-> none, invalid |-> {}, kept_out |-> {}]
      OBVIOUS
    <2>5. b \in AnyBlock /\ Len(b.included) <= BlockGas
      BY <1>21, <2>4, NodeAssumption DEF AnyBlock
    <2>3. NewBlock(Head(queued)) = b
      BY <1>21, <2>1, <2>4 DEF NewBlock
    <2>6. /\ block' = [block EXCEPT !["service"] = b]
          /\ nonces' = nonces /\ request' = request /\ queued' = Tail(queued)
      BY <1>11, <2>3 DEF StartMining
    <2> QED
      BY <1>0, <1>3, <2>2, <2>5, <2>6, BlockInv DEF Producers
  <1>12. CASE EvmMine
    <2>1. PICK txs \in Seq(Txs) : txs = Yields
      BY <1>1
    <2>3. PICK b : b = [txs |-> txs, included |-> none, invalid |-> {}, kept_out |-> {}]
      OBVIOUS
    <2>4. b \in AnyBlock /\ Len(b.included) <= BlockGas
      BY <1>21, <2>3, NodeAssumption DEF AnyBlock
    <2>2. NewBlock(Yields) = b
      BY <1>21, <2>1, <2>3 DEF NewBlock
    <2>5. /\ block' = [block EXCEPT !["evm_mine"] = b]
          /\ nonces' = nonces /\ request' = request /\ queued' = queued
      BY <1>12, <2>2 DEF EvmMine
    <2> QED
      BY <1>0, <1>3, <2>4, <2>5, BlockInv DEF Producers
  <1>13. ASSUME NEW a \in Producers, MineBlock(a) PROVE NodeInv'
    <2>1. PICK fate \in [DOMAIN block[a].txs -> Fates], result \in Results :
             /\ nonces' = result.nonces
             /\ block' = [block EXCEPT ![a] = [txs |-> <<>>, included |-> result.included,
                                               invalid |-> result.invalid,
                                               kept_out |-> result.kept_out]]
      BY <1>3, <1>13, MineBlockResult DEF AnyBlock
    <2>2. /\ result.nonces \in [Senders -> Nat] /\ result.included \in Seq(Txs)
          /\ result.invalid \in SUBSET Txs /\ result.kept_out \in SUBSET Txs
          /\ Len(result.included) <= BlockGas
      BY NodeAssumption DEF Results
    <2>4. PICK b : b = [txs |-> none, included |-> result.included, invalid |-> result.invalid,
                        kept_out |-> result.kept_out]
      OBVIOUS
    <2>5. b \in AnyBlock /\ Len(b.included) <= BlockGas
      BY <1>21, <2>2, <2>4 DEF AnyBlock
    <2>6. /\ block' = [block EXCEPT ![a] = b]
          /\ nonces' = result.nonces /\ request' = request /\ queued' = queued
      BY <1>13, <1>21, <2>1, <2>4 DEF MineBlock
    <2> QED
      BY <1>0, <1>3, <2>2, <2>5, <2>6, BlockInv
  <1>14. ASSUME NEW a \in Producers, RemoveInvalidTxs(a) PROVE NodeInv'
    <2>1. PICK b : b = [block[a] EXCEPT !.invalid = {}]
      OBVIOUS
    <2>2. b \in AnyBlock /\ b.included = block[a].included
      BY <1>3, <2>1 DEF AnyBlock
    <2>3. Len(b.included) <= BlockGas
      BY <2>2 DEF NodeInv
    <2>4. /\ block' = [block EXCEPT ![a] = b]
          /\ nonces' = nonces /\ request' = request /\ queued' = queued
      BY <1>14, <2>1 DEF RemoveInvalidTxs
    <2> QED
      BY <1>0, <1>3, <2>2, <2>3, <2>4, BlockInv
  <1>15. ASSUME NEW a \in Producers, PruneIncluded(a) PROVE NodeInv'
    <2>2. PICK b : b = [txs |-> none, included |-> none, invalid |-> {}, kept_out |-> {}]
      OBVIOUS
    <2>3. b \in AnyBlock /\ Len(b.included) <= BlockGas
      BY <1>21, <2>2, NodeAssumption DEF AnyBlock
    <2>4. /\ block' = [block EXCEPT ![a] = b]
          /\ nonces' = nonces /\ request' = request /\ queued' = queued
      BY <1>15, <1>21, <2>2 DEF PruneIncluded, NoBlock, NewBlock
    <2> QED
      BY <1>0, <1>3, <2>3, <2>4, BlockInv
  <1> QED
    BY <1>4, <1>5, <1>6, <1>7, <1>8, <1>9, <1>10, <1>11, <1>12, <1>13, <1>14, <1>15, Zenon
       DEF NodeNext

(* What the node does to its pool, the pool's own specification allows, if  *)
(* MaxMarkers bounds what fits in a block: handlers that read nonces and    *)
(* the pool at different moments, two producers and the service's pruning   *)
(* only ever submit, drop and prune as TxPool says.                         *)
THEOREM NodeImplementsPool ==
    ASSUME BlockGas <= MaxMarkers
    PROVE  NodeSpec => PoolBehaviour
  <1>1. NodeInit => Init /\ IInv /\ NodeInv
    BY NodeInitInv DEF NodeInit
  <1>2. IInv /\ NodeInv /\ [NodeNext]_nodeVars => IInv' /\ NodeInv'
    BY NodeStepsPool, NextInv, NodeNextInv
  <1>3. IInv /\ NodeInv /\ [NodeNext]_nodeVars => [Next]_poolVars
    BY NodeStepsPool
  <1>4. NodeSpec => Spec
    BY <1>1, <1>2, <1>3, PTL DEF NodeSpec, Spec
  <1> QED
    BY <1>4 DEF PoolBehaviour

-----------------------------------------------------------------------------
(* What is independent is executable.                                      *)

Due(t) == t.nonce <= nonces[t.from]

\* Nobody holds a nonce that is ahead of the chain.
RequestsDue ==
    \A c \in Clients :
        /\ request[c].at # "validate"
        /\ request[c].at = "add" => request[c].on_chain_nonce <= nonces[request[c].tx.from]

\* What a handler is about to make ready hangs on a ready transaction or is due.
QueueDue == \A p \in Items(tx_queue) : Providers(p) # {} \/ Due(p.tx)

ImportsDue == \A p \in Items(imports) : Due(p.tx)

\* Only what is mined is pruned.
MarkersDue == \A i \in DOMAIN markers : markers[i][1] < nonces[markers[i][2]]

BlocksDue ==
    \A a \in Producers : \A i \in DOMAIN block[a].included :
        block[a].included[i].nonce < nonces[block[a].included[i].from]

PoolDue == IndependentExecutable /\ QueueDue /\ ImportsDue /\ MarkersDue

ExecInv == PoolDue /\ RequestsDue /\ BlocksDue

(* A marker is a nonce and a sender.                                        *)
LEMMA MarkerParts ==
    ASSUME NEW m \in Markers
    PROVE  m[1] \in Nat /\ m[2] \in Senders /\ \A t \in Txs : PrevMarker(t) = m =>
              t.nonce = m[1] + 1 /\ t.from = m[2]
  <1>1. CASE m \in {Marker(t) : t \in Txs}
    <2>1. PICK t \in Txs : m = Marker(t)
      BY <1>1
    <2>2. m[1] = t.nonce /\ m[2] = t.from
      BY <2>1 DEF Marker
    <2> QED
      BY <2>2, TxsAssumption DEF PrevMarker
  <1>2. CASE m \in {PrevMarker(t) : t \in {u \in Txs : u.nonce > 0}}
    <2>1. PICK t \in Txs : t.nonce > 0 /\ m = PrevMarker(t)
      BY <1>2
    <2>2. m[1] = t.nonce - 1 /\ m[2] = t.from
      BY <2>1 DEF PrevMarker
    <2> QED
      BY <2>1, <2>2, TxsAssumption DEF PrevMarker
  <1> QED
    BY <1>1, <1>2 DEF Markers

(* Handlers that only take transactions out of an idle pool.                *)
LEMMA RemovalDue ==
    ASSUME IInv, PoolDue, op = "idle", UNCHANGED <<lockVars, nonces>>,
           independent_transactions' \subseteq independent_transactions
    PROVE  PoolDue'
  <1>1. tx_queue' = <<>> /\ imports' = <<>> /\ markers' = markers /\ nonces' = nonces
    BY DEF IInv, LocalsOK, lockVars
  <1>2. Items(tx_queue') = {} /\ Items(imports') = {}
    BY <1>1, EmptyQueue
  <1>3. IndependentExecutable'
    BY <1>1 DEF PoolDue, IndependentExecutable
  <1>4. QueueDue' /\ ImportsDue'
    BY <1>2 DEF QueueDue, ImportsDue
  <1>5. MarkersDue'
    BY <1>1 DEF PoolDue, MarkersDue
  <1> QED
    BY <1>3, <1>4, <1>5 DEF PoolDue

(* A transaction enters the queue without a requirement only if a nonce     *)
(* read at or below the account's said so; otherwise its provider is ready. *)
LEMMA AddTransactionDue ==
    ASSUME IInv, PoolDue, nonces \in [Senders -> Nat], nonces' = nonces,
           NEW t \in Txs, NEW n \in Nat, n <= nonces[t.from],
           AddTransaction([tx |-> t, requires |-> RequiredMarker(t, n)])
    PROVE  PoolDue'
  <1>1. PICK p : p = [tx |-> t, requires |-> RequiredMarker(t, n)]
    OBVIOUS
  <1>2. p \in Submissions /\ p.tx = t /\ p.requires = RequiredMarker(t, n)
    BY <1>1, SubmissionType
  <1>3. p \in PoolTransaction
    <2>1. CASE p \in {[tx |-> u, requires |-> {}] : u \in Txs}
      BY <2>1 DEF PoolTransaction
    <2>2. CASE p \in {Waiting(u) : u \in {v \in Txs : v.nonce > 0}}
      BY <2>2, MarkerFacts DEF PoolTransaction, Waiting
    <2> QED
      BY <1>2, <2>1, <2>2 DEF Submissions
  <1>4. AddTransaction(p) /\ op = "idle"
    BY <1>1 DEF AddTransaction
  <1>5. CASE UNCHANGED <<readyVars, lockVars, to_notify>>
    <2>1. UNCHANGED lockVars /\ independent_transactions' = independent_transactions
      BY <1>5 DEF readyVars
    <2> QED
      BY <1>4, <2>1, RemovalDue
  <1>6. CASE /\ \A m \in p.requires : provided_markers[m] # NoTx
             /\ tx_queue' = <<{p}>>
             /\ UNCHANGED <<readyVars, pendingVars, markers, imports, to_notify>>
    <2>1. /\ independent_transactions' = independent_transactions
          /\ provided_markers' = provided_markers
          /\ markers' = markers /\ imports' = imports
      BY <1>6 DEF readyVars
    <2>2. IndependentExecutable' /\ MarkersDue' /\ ImportsDue'
      BY <2>1 DEF PoolDue, IndependentExecutable, MarkersDue, ImportsDue, Due
    <2>3. Items(tx_queue') = {p}
      BY <1>3, <1>6, SingletonQueue
    <2>4. (Providers(p) # {} \/ Due(p.tx))'
      <3>1. CASE n < t.nonce
        <4>1. p.requires = {PrevMarker(t)}
          BY <1>2, <3>1 DEF RequiredMarker
        <4>2. provided_markers[PrevMarker(t)] # NoTx
          BY <1>6, <4>1
        <4>3. provided_markers[PrevMarker(t)] \in Providers(p)
          BY <4>1, <4>2 DEF Providers
        <4> QED
          BY <2>1, <4>3 DEF Providers
      <3>2. CASE ~(n < t.nonce)
        <4>1. t.nonce \in Nat /\ t.from \in Senders
          BY TxsAssumption
        <4> QED
          BY <1>2, <3>2, <4>1 DEF Due
      <3> QED
        BY <3>1, <3>2
    <2>5. QueueDue'
      BY <2>3, <2>4 DEF QueueDue
    <2> QED
      BY <2>2, <2>5 DEF PoolDue
  <1> QED
    BY <1>4, <1>5, <1>6 DEF AddTransaction

(* add_ready_transaction takes no marker away, and what it queues hangs on  *)
(* the transaction whose marker unlocked it.                                *)
LEMMA AddReadyDue ==
    ASSUME IInv, PoolDue, nonces' = nonces, AddReadyTransaction
    PROVE  PoolDue'
  <1>0. ReadyInv /\ PendingInv /\ LocalsTypeOK /\ InOnePlace /\ LocalsOK
    BY IInvParts
  <1>1. /\ tx_queue # <<>> /\ markers' = markers /\ imports' = imports
        /\ tx_queue \in Seq(SUBSET PoolTransaction) /\ BatchesOK(tx_queue)
    BY <1>0 DEF AddReadyTransaction, LocalsTypeOK, LocalsOK
  <1>2. PICK p \in Head(tx_queue) :
           \/ /\ ReadyAdd(p)
              /\ tx_queue' = Requeued(p)
           \/ /\ Underpriced(p.tx)
              /\ tx_queue' = IF is_new_tx THEN <<>> ELSE Requeued(p)
              /\ UNCHANGED readyVars
    BY DEF AddReadyTransaction
  <1>3. p \in Items(tx_queue) /\ p \in PoolTransaction
    <2>1. Head(tx_queue) = tx_queue[1] /\ 1 \in DOMAIN tx_queue
      BY <1>1
    <2>2. tx_queue[1] \in SUBSET PoolTransaction
      BY <1>1, <2>1
    <2> QED
      BY <2>1, <2>2 DEF Items
  <1>4. /\ p.tx \in Txs /\ RequiresPrev(p.tx, p.requires) /\ p.tx \notin DOMAIN ready_tx
        /\ p.requires \subseteq Markers
    BY <1>0, <1>3 DEF LocalsOK, PoolTransaction, InOnePlace, InFlight
  <1>5. MarkersDue' /\ ImportsDue'
    BY <1>1 DEF PoolDue, MarkersDue, ImportsDue, Due
  <1>6. Marker(p.tx) \in Markers /\ p.tx # NoTx
    BY <1>4, MarkerFacts, TxsAssumption
  <1>7. /\ \A m \in Markers : provided_markers[m] # NoTx => provided_markers'[m] # NoTx
        /\ tx_queue' = Requeued(p) => provided_markers'[Marker(p.tx)] # NoTx
    <2>1. CASE ReadyAdd(p)
      <3>1. provided_markers' = [provided_markers EXCEPT ![Marker(p.tx)] = p.tx]
        BY <1>0, <1>3, <1>4, <2>1, ReadyAddFacts
      <3> QED
        BY <1>0, <1>6, <3>1 DEF ReadyInv, ReadyTypeOK
    <2>2. CASE Underpriced(p.tx) /\ UNCHANGED readyVars
      <3>1. provided_markers' = provided_markers
        BY <2>2 DEF readyVars
      <3>2. provided_markers[Marker(p.tx)] \in DOMAIN ready_tx
        BY <2>2 DEF Underpriced, Replaced
      <3>3. NoTx \notin DOMAIN ready_tx
        BY <1>0, TxsAssumption DEF ReadyInv, ReadyTypeOK
      <3> QED
        BY <3>1, <3>2, <3>3
    <2> QED
      BY <1>2, <2>1, <2>2
  <1>8. ASSUME NEW x \in PoolTransaction, Providers(x) # {} PROVE (Providers(x) # {})'
    <2>1. x.requires \subseteq Markers
      BY DEF PoolTransaction
    <2>2. PICK m \in x.requires : provided_markers[m] # NoTx
      BY <1>8 DEF Providers
    <2>3. provided_markers'[m] # NoTx
      BY <1>7, <2>1, <2>2
    <2> QED
      BY <2>2, <2>3 DEF Providers
  <1>9. IndependentExecutable'
    <2>1. \A t \in independent_transactions' : t \in independent_transactions
             \/ (t = p.tx /\ Providers(p) = {})
      BY <1>2 DEF ReadyAdd, readyVars
    <2>2. Providers(p) = {} => p.tx.nonce <= nonces[p.tx.from]
      BY <1>3 DEF PoolDue, QueueDue, Due
    <2> QED
      BY <2>1, <2>2 DEF PoolDue, IndependentExecutable
  <1>10. QueueDue'
    <2>1. CASE tx_queue' = <<>>
      BY <2>1, EmptyQueue DEF QueueDue
    <2>2. CASE tx_queue' = Requeued(p)
      <3>1. PICK rest : rest = Pop(tx_queue, p)
        OBVIOUS
      <3>2. rest \in Seq(SUBSET PoolTransaction) /\ Items(rest) \subseteq Items(tx_queue)
        BY <1>1, <3>1, PopFacts
      <3>3. PICK batch \in SUBSET PoolTransaction : batch = Unlocked(Marker(p.tx))
        BY <1>0, <1>6, UnlockedFacts
      <3>4. Items(tx_queue') = Items(rest) \cup batch
        BY <2>2, <3>1, <3>2, <3>3, PushFacts DEF Requeued
      <3>5. ASSUME NEW x \in batch PROVE (Providers(x) # {})'
        <4>1. PICK t : x = [tx |-> t, requires |-> {PrevMarker(t)}]
          BY <3>3 DEF Unlocked, Waiting
        <4>2. x.tx = t /\ x.requires = {PrevMarker(t)}
          BY <4>1
        <4>3. PrevMarker(t) = Marker(p.tx)
          BY <1>0, <1>6, <3>3, <4>2, UnlockedFacts
        <4>4. provided_markers'[PrevMarker(t)] # NoTx
          BY <1>7, <2>2, <4>3
        <4> QED
          BY <4>2, <4>4 DEF Providers
      <3>6. ASSUME NEW x \in Items(rest) PROVE (Providers(x) # {} \/ Due(x.tx))'
        <4>1. x \in Items(tx_queue) /\ x \in PoolTransaction
          BY <1>1, <3>2 DEF Items
        <4>2. Providers(x) # {} \/ Due(x.tx)
          BY <4>1 DEF PoolDue, QueueDue
        <4> QED
          BY <1>8, <4>1, <4>2 DEF Due
      <3> QED
        BY <3>4, <3>5, <3>6 DEF QueueDue
    <2> QED
      BY <1>2, <2>1, <2>2
  <1> QED
    BY <1>5, <1>9, <1>10 DEF PoolDue

(* prune_markers frees the successors of mined transactions only.           *)
LEMMA PruneMarkerDue ==
    ASSUME IInv, PoolDue, nonces \in [Senders -> Nat], nonces' = nonces, PruneMarker
    PROVE  PoolDue'
  <1>0. ReadyInv /\ PendingInv /\ LocalsTypeOK /\ LocalsOK
    BY IInvParts
  <1>1. markers \in Seq(Markers) /\ markers # <<>> /\ imports \in Seq(SUBSET PoolTransaction)
    BY <1>0 DEF LocalsTypeOK, PruneMarker
  <1>2. PICK m \in Markers : m = Head(markers) /\ m = markers[1] /\ 1 \in DOMAIN markers
    BY <1>1
  <1>3. PruneTags(m) /\ imports' = Push(imports, Unlocked(m)) /\ markers' = Tail(markers)
        /\ tx_queue' = tx_queue
    BY <1>2 DEF PruneMarker
  <1>4. m[1] \in Nat /\ m[2] \in Senders /\ m[1] < nonces[m[2]]
        /\ \A t \in Txs : PrevMarker(t) = m => t.nonce = m[1] + 1 /\ t.from = m[2]
    BY <1>2, MarkerParts DEF PoolDue, MarkersDue
  <1>5. ASSUME NEW t \in Txs, PrevMarker(t) = m PROVE t.nonce <= nonces[t.from]
    BY <1>4, <1>5
  <1>6. IndependentExecutable'
    <2>1. ASSUME NEW h \in independent_transactions' PROVE h.nonce <= nonces[h.from]
      <3>1. CASE h \in independent_transactions
        BY <3>1 DEF PoolDue, IndependentExecutable
      <3>2. CASE h \notin independent_transactions
        <4>1. PICK tip : tip = provided_markers[m]
          OBVIOUS
        <4>2. /\ h \in DOMAIN ready_tx
              /\ (IF InReady(tip) THEN ready_tx[tip].unlocks[h] ELSE 0) > 0
          BY <1>3, <3>2, <4>1 DEF PruneTags
        <4>3. InReady(tip) /\ ready_tx[tip].unlocks[h] > 0
          BY <4>2
        <4>4. h \in Txs /\ tip \in Txs /\ tip # NoTx
          BY <1>0, <4>2, <4>3, TxsAssumption DEF ReadyInv, ReadyTypeOK, InReady
        <4>5. Marker(tip) = m
          BY <1>0, <4>1, <4>4 DEF ReadyInv, MarkersMatchReady
        <4>6. PrevMarker(h) = Marker(tip)
          BY <1>0, <4>3, <4>4 DEF ReadyInv, Linked, InReady
        <4> QED
          BY <1>5, <4>4, <4>5, <4>6
      <3> QED
        BY <3>1, <3>2
    <2> QED
      BY <2>1 DEF IndependentExecutable
  <1>7. QueueDue'
    <2>1. tx_queue' = <<>>
      BY <1>0, <1>1, <1>3 DEF LocalsOK
    <2> QED
      BY <2>1, EmptyQueue DEF QueueDue
  <1>8. ImportsDue'
    <2>1. PICK batch \in SUBSET PoolTransaction : batch = Unlocked(m)
      BY <1>0, UnlockedFacts
    <2>2. Items(imports') = Items(imports) \cup batch
      BY <1>1, <1>3, <2>1, PushFacts
    <2>3. \A x \in batch : x.tx \in Txs /\ PrevMarker(x.tx) = m
      BY <1>0, <2>1, UnlockedFacts
    <2> QED
      BY <1>5, <2>2, <2>3 DEF PoolDue, ImportsDue, Due
  <1>9. MarkersDue'
    <2>1. PICK q : q = Tail(markers)
      OBVIOUS
    <2>2. \A i \in DOMAIN q : i + 1 \in DOMAIN markers /\ q[i] = markers[i + 1]
      BY <1>1, <2>1
    <2>3. \A i \in DOMAIN q : q[i][1] < nonces[q[i][2]]
      BY <2>2 DEF PoolDue, MarkersDue
    <2> QED
      BY <1>3, <2>1, <2>3 DEF MarkersDue
  <1> QED
    BY <1>6, <1>7, <1>8, <1>9 DEF PoolDue

(* The second loop of prune_markers queues what is due.                     *)
LEMMA ImportDue ==
    ASSUME IInv, PoolDue, nonces' = nonces, ImportUnlocked
    PROVE  PoolDue'
  <1>0. LocalsTypeOK /\ LocalsOK
    BY IInvParts
  <1>1. imports # <<>> /\ imports \in Seq(SUBSET PoolTransaction) /\ BatchesOK(imports)
    BY <1>0 DEF LocalsTypeOK, LocalsOK, ImportUnlocked
  <1>2. PICK p \in Head(imports) : tx_queue' = <<{p}>> /\ imports' = Pop(imports, p)
    BY DEF ImportUnlocked
  <1>3. /\ p \in Items(imports) /\ p \in PoolTransaction
        /\ Items(imports') \subseteq Items(imports)
    BY <1>1, <1>2, PopFacts
  <1>4. Items(tx_queue') = {p}
    BY <1>2, <1>3, SingletonQueue
  <1>5. independent_transactions' = independent_transactions /\ markers' = markers
    BY DEF ImportUnlocked, readyVars
  <1> QED
    BY <1>3, <1>4, <1>5 DEF PoolDue, IndependentExecutable, QueueDue, ImportsDue, MarkersDue, Due

(* The end of a loop changes no ready transaction: there is no cycle.       *)
LEMMA FinishDue ==
    ASSUME IInv, PoolDue, nonces' = nonces, FinishAddReady \/ FinishPrune
    PROVE  PoolDue'
  <1>1. UNCHANGED <<independent_transactions, provided_markers, tx_queue, markers, imports>>
    BY DEF FinishAddReady, FinishPrune, readyVars, IInv, NoCyclicTransaction
  <1> QED
    BY <1>1 DEF PoolDue, IndependentExecutable, QueueDue, ImportsDue, MarkersDue, Due, Providers

(* Account nonces never fall, so what was due stays due.                    *)
LEMMA StillDue ==
    ASSUME IInv, NodeInv, PoolDue, UNCHANGED poolVars, nonces' \in [Senders -> Nat],
           \A s \in Senders : nonces[s] <= nonces'[s]
    PROVE  PoolDue'
  <1>1. UNCHANGED <<independent_transactions, provided_markers, tx_queue, markers, imports>>
    BY DEF poolVars, readyVars, lockVars
  <1>2. nonces \in [Senders -> Nat] /\ LocalsTypeOK
    BY DEF NodeInv, IInv, TypeOK
  <1>3. ASSUME NEW t \in Txs, Due(t) PROVE Due(t)'
    <2>1. t.from \in Senders /\ t.nonce \in Nat
      BY TxsAssumption
    <2>2. t.nonce <= nonces[t.from]
      BY <1>3 DEF Due
    <2>3. t.nonce <= nonces'[t.from]
      BY <1>2, <2>1, <2>2
    <2> QED
      BY <2>3 DEF Due
  <1>4. IndependentExecutable'
    <2>1. \A t \in independent_transactions : t \in Txs /\ Due(t)
      BY DEF IInv, TypeOK, ReadyTypeOK, PoolDue, IndependentExecutable, Due
    <2>2. \A t \in independent_transactions' : t.nonce <= nonces'[t.from]
      BY <1>1, <1>3, <2>1 DEF Due
    <2> QED
      BY <2>2 DEF IndependentExecutable
  <1>5. \A p \in Items(tx_queue) \cup Items(imports) : p.tx \in Txs
    BY <1>2 DEF LocalsTypeOK, Items, PoolTransaction
  <1>6. QueueDue'
    <2>1. ASSUME NEW p \in Items(tx_queue) PROVE (Providers(p) # {} \/ Due(p.tx))'
      <3>1. Providers(p) # {} \/ Due(p.tx)
        BY DEF PoolDue, QueueDue
      <3>2. CASE Due(p.tx)
        BY <1>3, <1>5, <3>2
      <3>3. CASE Providers(p) # {}
        BY <1>1, <3>3 DEF Providers
      <3> QED
        BY <3>1, <3>2, <3>3
    <2> QED
      BY <1>1, <2>1 DEF QueueDue
  <1>7. ImportsDue'
    BY <1>1, <1>3, <1>5 DEF PoolDue, ImportsDue
  <1>8. MarkersDue'
    <2>1. ASSUME NEW i \in DOMAIN markers PROVE markers[i][1] < nonces'[markers[i][2]]
      <3>1. PICK m \in Markers : m = markers[i]
        BY <1>2 DEF LocalsTypeOK
      <3>2. m[1] \in Nat /\ m[2] \in Senders
        BY MarkerParts
      <3>3. m[1] < nonces[m[2]]
        BY <3>1 DEF PoolDue, MarkersDue
      <3> QED
        BY <1>2, <3>1, <3>2, <3>3
    <2> QED
      BY <1>1, <2>1 DEF MarkersDue
  <1> QED
    BY <1>4, <1>6, <1>7, <1>8 DEF PoolDue

(* What a node step does to the pool keeps it due.                          *)
LEMMA PoolDueStep ==
    ASSUME IInv, NodeInv, ExecInv, [NodeNext]_nodeVars, BlockGas <= MaxMarkers
    PROVE  PoolDue'
  <1>0. nonces \in [Senders -> Nat] /\ PoolDue /\ \A t \in Txs : t.from \in Senders
    BY TxsAssumption DEF NodeInv, ExecInv
  <1>1. ASSUME NEW c \in Clients, AddPendingTransaction(c) PROVE PoolDue'
    <2>1. PICK t \in Txs : t = request[c].tx
      BY <1>1 DEF NodeInv, AddPendingTransaction
    <2>2. PICK n \in Nat : n = request[c].on_chain_nonce
      BY DEF NodeInv
    <2>3. n <= nonces[t.from]
      BY <1>1, <2>1, <2>2 DEF AddPendingTransaction, ExecInv, RequestsDue
    <2>4. AddTransaction([tx |-> t, requires |-> RequiredMarker(t, n)]) /\ nonces' = nonces
      BY <1>1, <2>1, <2>2 DEF AddPendingTransaction
    <2> QED
      BY <1>0, <2>3, <2>4, AddTransactionDue
  <1>2. CASE PoolStep
    <2>1. HoldingLock /\ nonces' = nonces
      BY <1>2 DEF PoolStep
    <2> QED
      BY <1>0, <2>1, AddReadyDue, FinishDue, PruneMarkerDue, ImportDue DEF HoldingLock
  <1>3. ASSUME NEW hashes, RemoveWithMarkers(hashes), op = "idle", UNCHANGED <<lockVars, nonces>>
        PROVE  PoolDue'
    <2>1. independent_transactions' \subseteq independent_transactions
      BY <1>3 DEF RemoveWithMarkers
    <2> QED
      BY <1>0, <1>3, <2>1, RemovalDue
  <1>4. ASSUME \/ \E a \in Producers : RemoveInvalidTxs(a)
               \/ \E t \in Txs : AnvilDropTransaction(t)
               \/ \E s \in Senders : AnvilRemovePoolTransactions(s)
        PROVE  PoolDue'
    <2>1. /\ \E hashes : RemoveWithMarkers(hashes)
          /\ op = "idle" /\ UNCHANGED <<lockVars, nonces>>
      BY <1>4 DEF RemoveInvalidTxs, AnvilDropTransaction, AnvilRemovePoolTransactions,
                  RemoveInvalid, DropTransaction, RemoveTransactionsByAddress
    <2> QED
      BY <1>3, <2>1
  <1>5. CASE AnvilDropAllTransactions
    <2>1. op = "idle" /\ UNCHANGED <<lockVars, nonces>> /\ independent_transactions' = {}
      BY <1>5 DEF AnvilDropAllTransactions, Clear
    <2> QED
      BY <1>0, <2>1, RemovalDue
  <1>6. ASSUME NEW a \in Producers, PruneIncluded(a) PROVE PoolDue'
    <2>1. PICK txs \in Seq(Txs) : txs = block[a].included
      BY DEF NodeInv, AnyBlock
    <2>2. nonces' = nonces
      BY <1>6 DEF PruneIncluded
    <2>3. CASE UNCHANGED poolVars
      BY <1>0, <2>2, <2>3, StillDue
    <2>4. CASE PruneMarkers([i \in DOMAIN txs |-> Marker(txs[i])])
      <3>1. /\ UNCHANGED <<independent_transactions, provided_markers, tx_queue, imports>>
            /\ markers' = [i \in DOMAIN txs |-> Marker(txs[i])]
        BY <2>4 DEF PruneMarkers, readyVars
      <3>2. \A i \in DOMAIN txs : txs[i].nonce < nonces[txs[i].from]
        BY <2>1 DEF ExecInv, BlocksDue
      <3>3. MarkersDue'
        BY <2>2, <3>1, <3>2 DEF MarkersDue, Marker
      <3> QED
        BY <1>0, <2>2, <3>1, <3>3
           DEF PoolDue, IndependentExecutable, QueueDue, ImportsDue, Due, Providers
    <2> QED
      BY <1>6, <2>1, <2>3, <2>4 DEF PruneIncluded
  <1>7. ASSUME NEW a \in Producers, MineBlock(a) PROVE PoolDue'
    <2>1. PICK txs \in Seq(Txs) : txs = block[a].txs
      BY DEF NodeInv, AnyBlock
    <2>2. PICK fate \in [DOMAIN txs -> Fates], result \in Results :
             /\ result = Executed(txs, fate)
             /\ nonces' = result.nonces
             /\ block' = [block EXCEPT ![a] = [txs |-> <<>>, included |-> result.included,
                                               invalid |-> result.invalid,
                                               kept_out |-> result.kept_out]]
      BY <1>0, <1>7, <2>1, MineBlockResult
    <2>3. nonces' = result.nonces /\ UNCHANGED poolVars
      BY <1>7, <2>1, <2>2 DEF MineBlock
    <2>4. result.nonces \in [Senders -> Nat] /\ \A s \in Senders : nonces[s] <= result.nonces[s]
      BY DEF Results
    <2> QED
      BY <1>0, <2>3, <2>4, StillDue
  <1>8. CASE Notify
    <2>1. /\ UNCHANGED <<independent_transactions, provided_markers, tx_queue, markers, imports>>
          /\ nonces' = nonces
      BY <1>8 DEF Notify, NotifyListener, readyVars, lockVars
    <2> QED
      BY <1>0, <2>1
         DEF PoolDue, IndependentExecutable, QueueDue, ImportsDue, MarkersDue, Due, Providers
  <1>9. ASSUME \/ \E c \in Clients, t \in Txs : SendRawTransaction(c, t) \/ SendTransaction(c, t)
               \/ \E c \in Clients : \/ CurrentNonce(c) \/ ValidatePoolTransaction(c)
                                     \/ AddRejected(c)
               \/ \E enable \in BOOLEAN : AnvilSetAutoMine(enable)
               \/ \E secs \in {0, 1} : AnvilSetIntervalMining(secs)
               \/ \E tick \in BOOLEAN : MinerPoll(tick)
               \/ StartMining \/ EvmMine
               \/ UNCHANGED nodeVars
        PROVE  PoolDue'
    <2>1. UNCHANGED poolVars /\ nonces' = nonces
      BY <1>9 DEF SendRawTransaction, SendTransaction, CurrentNonce, ValidatePoolTransaction,
                  AddRejected, AnvilSetAutoMine, AnvilSetIntervalMining, MinerPoll, StartMining,
                  EvmMine, nodeVars
    <2> QED
      BY <1>0, <2>1, StillDue
  <1> QED
    BY <1>1, <1>2, <1>4, <1>5, <1>6, <1>7, <1>8, <1>9, Zenon DEF NodeNext

(* A raw transaction is checked against a nonce the account has had.        *)
LEMMA RequestsDueStep ==
    ASSUME NodeInv, ExecInv, [NodeNext]_nodeVars, "eth_sendTransaction" \notin Rpcs
    PROVE  RequestsDue'
  <1>0. /\ nonces \in [Senders -> Nat] /\ \A t \in Txs : t.from \in Senders
        /\ \A c \in Clients : request[c].on_chain_nonce \in Nat
        /\ \A c \in Clients : request[c].at # "idle" => request[c].tx \in Txs
        /\ RequestsDue /\ request \in [Clients -> [at : {"idle", "validate", "nonce", "add"},
                                       tx : Txs \cup {NoTx}, on_chain_nonce : Nat]]
    BY TxsAssumption DEF NodeInv, ExecInv
  <1>1. ASSUME NEW c \in Clients, NEW r, request' = [request EXCEPT ![c] = r],
               r.at # "validate", r.at = "add" => r.on_chain_nonce <= nonces[r.tx.from],
               nonces' = nonces
        PROVE  RequestsDue'
    BY <1>0, <1>1 DEF RequestsDue
  <1>2. ASSUME NEW c \in Clients, NEW t \in Txs, SendRawTransaction(c, t) PROVE RequestsDue'
    <2>1. PICK r : r = [at |-> "nonce", tx |-> t, on_chain_nonce |-> 0]
      OBVIOUS
    <2>2. request' = [request EXCEPT ![c] = r] /\ nonces' = nonces
      BY <1>2, <2>1 DEF SendRawTransaction
    <2>3. r.at # "validate" /\ r.at # "add"
      BY <2>1
    <2> QED
      BY <1>1, <2>2, <2>3
  <1>3. ASSUME NEW c \in Clients, CurrentNonce(c) PROVE RequestsDue'
    <2>1. PICK t \in Txs : t = request[c].tx
      BY <1>0, <1>3 DEF CurrentNonce
    <2>2. PICK n \in Nat : n = nonces[t.from]
      BY <1>0
    <2>3. PICK r : r = [at |-> "add", tx |-> t, on_chain_nonce |-> n]
      OBVIOUS
    <2>4. request' = [request EXCEPT ![c] = r] /\ nonces' = nonces
      BY <1>3, <2>1, <2>2, <2>3 DEF CurrentNonce
    <2>5. r.at # "validate" /\ r.on_chain_nonce <= nonces[r.tx.from]
      BY <2>2, <2>3
    <2> QED
      BY <1>1, <2>4, <2>5
  <1>4. ASSUME NEW c \in Clients, AddPendingTransaction(c) \/ AddRejected(c) PROVE RequestsDue'
    <2>1. request' = [request EXCEPT ![c] = NoRequest] /\ nonces' = nonces
      BY <1>4 DEF AddPendingTransaction, AddRejected
    <2>2. NoRequest.at = "idle"
      BY DEF NoRequest
    <2> QED
      BY <1>1, <2>1, <2>2
  <1>5. ASSUME \/ \E c \in Clients, t \in Txs : SendTransaction(c, t)
               \/ \E c \in Clients : ValidatePoolTransaction(c)
        PROVE  FALSE
    BY <1>0, <1>5 DEF SendTransaction, ValidatePoolTransaction, RequestsDue
  <1>6. ASSUME NEW a \in Producers, MineBlock(a) PROVE RequestsDue'
    <2>1. PICK txs \in Seq(Txs) : txs = block[a].txs
      BY DEF NodeInv, AnyBlock
    <2>2. PICK fate \in [DOMAIN txs -> Fates], result \in Results :
             /\ result = Executed(txs, fate)
             /\ nonces' = result.nonces
             /\ block' = [block EXCEPT ![a] = [txs |-> <<>>, included |-> result.included,
                                               invalid |-> result.invalid,
                                               kept_out |-> result.kept_out]]
      BY <1>0, <1>6, <2>1, MineBlockResult
    <2>3. nonces' = result.nonces /\ request' = request
      BY <1>6, <2>1, <2>2 DEF MineBlock
    <2>4. result.nonces \in [Senders -> Nat] /\ \A s \in Senders : nonces[s] <= result.nonces[s]
      BY DEF Results
    <2>5. ASSUME NEW c \in Clients, request[c].at = "add"
          PROVE  request[c].on_chain_nonce <= result.nonces[request[c].tx.from]
      <3>1. request[c].tx.from \in Senders
        BY <1>0, <2>5
      <3>2. request[c].on_chain_nonce <= nonces[request[c].tx.from]
        BY <1>0, <2>5 DEF RequestsDue
      <3> QED
        BY <1>0, <2>4, <3>1, <3>2
    <2> QED
      BY <1>0, <2>3, <2>5 DEF RequestsDue
  <1>7. ASSUME \/ \E t \in Txs : AnvilDropTransaction(t)
               \/ \E s \in Senders : AnvilRemovePoolTransactions(s)
               \/ AnvilDropAllTransactions
               \/ \E enable \in BOOLEAN : AnvilSetAutoMine(enable)
               \/ \E secs \in {0, 1} : AnvilSetIntervalMining(secs)
               \/ \E tick \in BOOLEAN : MinerPoll(tick)
               \/ StartMining \/ EvmMine
               \/ \E a \in Producers : RemoveInvalidTxs(a) \/ PruneIncluded(a)
               \/ PoolStep \/ Notify \/ UNCHANGED nodeVars
        PROVE  RequestsDue'
    <2>1. request' = request /\ nonces' = nonces
      BY <1>7 DEF AnvilDropTransaction, AnvilRemovePoolTransactions, AnvilDropAllTransactions,
                  AnvilSetAutoMine, AnvilSetIntervalMining, MinerPoll, StartMining, EvmMine,
                  RemoveInvalidTxs, PruneIncluded, PoolStep, Notify, nodeVars
    <2> QED
      BY <1>0, <2>1 DEF RequestsDue
  <1> QED
    BY <1>2, <1>3, <1>4, <1>5, <1>6, <1>7, Zenon DEF NodeNext

(* What a block included has its nonce used up.                             *)
LEMMA BlocksDueStep ==
    ASSUME NodeInv, ExecInv, [NodeNext]_nodeVars
    PROVE  BlocksDue'
  <1>0. /\ nonces \in [Senders -> Nat] /\ BlocksDue
        /\ block \in [Producers -> AnyBlock]
    BY DEF NodeInv, ExecInv
  <1>1. ASSUME NEW a \in Producers, NEW b, block' = [block EXCEPT ![a] = b],
               b.included = <<>> \/ b.included = block[a].included, nonces' = nonces
        PROVE  BlocksDue'
    <2>1. DOMAIN <<>> = {}
      OBVIOUS
    <2>2. \A i \in DOMAIN b.included : b.included[i].nonce < nonces[b.included[i].from]
      BY <1>0, <1>1, <2>1 DEF BlocksDue
    <2> QED
      BY <1>0, <1>1, <2>2 DEF BlocksDue
  <1>2. CASE StartMining
    <2>1. PICK b : b = NewBlock(Head(queued))
      OBVIOUS
    <2>2. block' = [block EXCEPT !["service"] = b] /\ nonces' = nonces /\ b.included = <<>>
      BY <1>2, <2>1 DEF StartMining, NewBlock
    <2> QED
      BY <1>1, <2>2 DEF Producers
  <1>3. CASE EvmMine
    <2>1. PICK b : b = NewBlock(Yields)
      OBVIOUS
    <2>2. block' = [block EXCEPT !["evm_mine"] = b] /\ nonces' = nonces /\ b.included = <<>>
      BY <1>3, <2>1 DEF EvmMine, NewBlock
    <2> QED
      BY <1>1, <2>2 DEF Producers
  <1>4. ASSUME NEW a \in Producers, RemoveInvalidTxs(a) PROVE BlocksDue'
    <2>1. PICK b : b = [block[a] EXCEPT !.invalid = {}]
      OBVIOUS
    <2>2. b.included = block[a].included
      BY <1>0, <2>1
    <2>3. block' = [block EXCEPT ![a] = b] /\ nonces' = nonces
      BY <1>4, <2>1 DEF RemoveInvalidTxs
    <2> QED
      BY <1>1, <2>2, <2>3
  <1>5. ASSUME NEW a \in Producers, PruneIncluded(a) PROVE BlocksDue'
    <2>1. NoBlock.included = <<>>
      BY DEF NoBlock, NewBlock
    <2>2. block' = [block EXCEPT ![a] = NoBlock] /\ nonces' = nonces
      BY <1>5 DEF PruneIncluded
    <2> QED
      BY <1>1, <2>1, <2>2
  <1>6. ASSUME NEW a \in Producers, MineBlock(a) PROVE BlocksDue'
    <2>1. PICK txs \in Seq(Txs) : txs = block[a].txs
      BY <1>0 DEF AnyBlock
    <2>2. PICK fate \in [DOMAIN txs -> Fates], result \in Results :
             /\ result = Executed(txs, fate)
             /\ nonces' = result.nonces
             /\ block' = [block EXCEPT ![a] = [txs |-> <<>>, included |-> result.included,
                                               invalid |-> result.invalid,
                                               kept_out |-> result.kept_out]]
      BY <1>0, <1>6, <2>1, MineBlockResult
    <2>3. /\ result.nonces \in [Senders -> Nat]
          /\ \A s \in Senders : nonces[s] <= result.nonces[s]
          /\ \A i \in DOMAIN result.included :
                result.included[i].nonce < result.nonces[result.included[i].from]
      BY DEF Results
    <2>4. PICK b : b = [txs |-> <<>>, included |-> result.included, invalid |-> result.invalid,
                        kept_out |-> result.kept_out]
      OBVIOUS
    <2>5. nonces' = result.nonces /\ block' = [block EXCEPT ![a] = b]
      BY <1>6, <2>1, <2>2, <2>4 DEF MineBlock
    <2>6. b.included = result.included
      BY <2>4
    <2>7. ASSUME NEW p \in Producers, p # a, NEW i \in DOMAIN block[p].included
          PROVE  block[p].included[i].nonce < result.nonces[block[p].included[i].from]
      <3>1. PICK t \in Txs : t = block[p].included[i]
        BY <1>0 DEF AnyBlock
      <3>2. t.nonce \in Nat /\ t.from \in Senders
        BY TxsAssumption
      <3>3. t.nonce < nonces[t.from]
        BY <1>0, <3>1 DEF BlocksDue
      <3>4. t.nonce < result.nonces[t.from]
        BY <1>0, <2>3, <3>2, <3>3
      <3> QED
        BY <3>1, <3>4
    <2>8. ASSUME NEW p \in Producers, NEW i \in DOMAIN block'[p].included
          PROVE  block'[p].included[i].nonce < nonces'[block'[p].included[i].from]
      <3>1. CASE p = a
        BY <1>0, <2>3, <2>5, <2>6, <2>8, <3>1
      <3>2. CASE p # a
        <4>1. block'[p] = block[p]
          BY <1>0, <2>5, <3>2
        <4> QED
          BY <2>5, <2>7, <2>8, <3>2, <4>1
      <3> QED
        BY <3>1, <3>2
    <2> QED
      BY <2>8 DEF BlocksDue
  <1>7. ASSUME \/ \E c \in Clients, t \in Txs : SendRawTransaction(c, t) \/ SendTransaction(c, t)
               \/ \E c \in Clients : \/ CurrentNonce(c) \/ ValidatePoolTransaction(c)
                                     \/ AddRejected(c) \/ AddPendingTransaction(c)
               \/ \E t \in Txs : AnvilDropTransaction(t)
               \/ \E s \in Senders : AnvilRemovePoolTransactions(s)
               \/ AnvilDropAllTransactions
               \/ \E enable \in BOOLEAN : AnvilSetAutoMine(enable)
               \/ \E secs \in {0, 1} : AnvilSetIntervalMining(secs)
               \/ \E tick \in BOOLEAN : MinerPoll(tick)
               \/ PoolStep \/ Notify \/ UNCHANGED nodeVars
        PROVE  BlocksDue'
    <2>1. block' = block /\ nonces' = nonces
      BY <1>7 DEF SendRawTransaction, SendTransaction, CurrentNonce, ValidatePoolTransaction,
                  AddRejected, AddPendingTransaction, AnvilDropTransaction,
                  AnvilRemovePoolTransactions, AnvilDropAllTransactions, AnvilSetAutoMine,
                  AnvilSetIntervalMining, MinerPoll, PoolStep, Notify, nodeVars, producerVars
    <2> QED
      BY <1>0, <2>1 DEF BlocksDue
  <1> QED
    BY <1>2, <1>3, <1>4, <1>5, <1>6, <1>7, Zenon DEF NodeNext

(* Nothing is held at the start, so all of it is due.                       *)
LEMMA InitDue == NodeInit => ExecInv
  <1> SUFFICES ASSUME NodeInit PROVE ExecInv
    OBVIOUS
  <1>1. /\ independent_transactions = {} /\ tx_queue = <<>> /\ imports = <<>> /\ markers = <<>>
        /\ \A c \in Clients : request[c].at = "idle"
        /\ \A a \in Producers : block[a].included = <<>>
    BY DEF NodeInit, Init, NoRequest, NoBlock, NewBlock
  <1>2. Items(tx_queue) = {} /\ Items(imports) = {}
    BY <1>1, EmptyQueue
  <1>3. DOMAIN <<>> = {}
    OBVIOUS
  <1> QED
    BY <1>1, <1>2, <1>3 DEF ExecInv, PoolDue, IndependentExecutable, QueueDue, ImportsDue,
                            MarkersDue, RequestsDue, BlocksDue

(* Everything the node keeps has its type.                                  *)
THEOREM NodeTypes ==
    ASSUME BlockGas <= MaxMarkers
    PROVE  NodeSpec => []NodeTypeOK
  <1>1. NodeInit => IInv /\ NodeInv /\ MinerTypeOK
    BY NodeInitInv
  <1>2. /\ IInv /\ NodeInv /\ MinerTypeOK /\ [NodeNext]_nodeVars
        => IInv' /\ NodeInv' /\ MinerTypeOK'
    BY NodeStepsPool, NextInv, NodeNextInv, MinerTypes
  <1>3. IInv /\ NodeInv /\ MinerTypeOK => NodeTypeOK
    BY DEF IInv, NodeInv, MinerTypeOK, NodeTypeOK, AnyBlock
  <1> QED
    BY <1>1, <1>2, <1>3, PTL DEF NodeSpec

(* A transaction the miner may pick first is executable, however a raw      *)
(* submission's two reads interleave with blocks, prunings and drops, as    *)
(* long as no client uses eth_sendTransaction, whose requirement is         *)
(* computed from the pool and may run ahead of the chain.                   *)
THEOREM IndependentAreExecutable ==
    ASSUME BlockGas <= MaxMarkers, "eth_sendTransaction" \notin Rpcs
    PROVE  NodeSpec => []IndependentExecutable
  <1>1. NodeInit => IInv /\ NodeInv /\ ExecInv
    BY NodeInitInv, InitDue
  <1>2. IInv /\ NodeInv /\ ExecInv /\ [NodeNext]_nodeVars => IInv' /\ NodeInv' /\ ExecInv'
    BY NodeStepsPool, NextInv, NodeNextInv, PoolDueStep, RequestsDueStep, BlocksDueStep
       DEF ExecInv
  <1>3. ExecInv => IndependentExecutable
    BY DEF ExecInv, PoolDue
  <1> QED
    BY <1>1, <1>2, <1>3, PTL DEF NodeSpec

-----------------------------------------------------------------------------
(* A sender's transactions reach the executor in nonce order.              *)

\* Induction over the numbers up to k.
LEMMA UpToAll ==
    ASSUME NEW k \in Nat, NEW A, 0 \in A, \A i \in 1 .. k : i - 1 \in A => i \in A
    PROVE  \A i \in 0 .. k : i \in A
  <1> DEFINE f == [i \in 0 .. k |-> i]
  <1>1. f[0] \in A /\ \A i \in 1 .. k : f[i - 1] \in A => f[i] \in A
    OBVIOUS
  <1>2. \A i \in 0 .. k : f[i] = i
    OBVIOUS
  <1> HIDE DEF f
  <1>3. \A i \in 0 .. k : f[i] \in A
    BY <1>1, KeptByAll, Zenon
  <1> QED
    BY <1>2, <1>3

\* The predecessor of t is mined or among the first n of q.
Follows(q, n, t) == Due(t) \/ \E j \in 1 .. n : Marker(q[j]) = PrevMarker(t)

InOrder(q) == \A i \in DOMAIN q : Follows(q, i - 1, q[i])

\* Slots in the queue and blocks under way.
OrderInv ==
    /\ \A i \in DOMAIN queued : InOrder(queued[i])
    /\ \A a \in Producers : InOrder(block[a].txs)
    /\ RejectedForCause

(* Appending what follows the rest keeps the order.                         *)
LEMMA InOrderAppend ==
    ASSUME NEW q \in Seq(Txs), NEW t \in Txs, InOrder(q), Follows(q, Len(q), t)
    PROVE  InOrder(Append(q, t))
  <1>1. PICK r : r = Append(q, t)
    OBVIOUS
  <1>2. /\ Len(q) \in Nat /\ DOMAIN q = 1 .. Len(q) /\ DOMAIN r = 1 .. Len(q) + 1
        /\ r[Len(q) + 1] = t /\ \A j \in 1 .. Len(q) : r[j] = q[j]
    BY <1>1
  <1>3. ASSUME NEW i \in DOMAIN r PROVE Follows(r, i - 1, r[i])
    <2>1. CASE i = Len(q) + 1
      BY <1>2, <2>1 DEF Follows
    <2>2. CASE i # Len(q) + 1
      <3>1. i \in 1 .. Len(q) /\ r[i] = q[i]
        BY <1>2, <2>2
      <3>2. Follows(q, i - 1, q[i])
        BY <1>2, <3>1 DEF InOrder
      <3>3. \A j \in 1 .. i - 1 : j \in 1 .. Len(q)
        BY <1>2, <3>1
      <3> QED
        BY <1>2, <3>1, <3>2, <3>3 DEF Follows
    <2> QED
      BY <2>1, <2>2
  <1> QED
    BY <1>1, <1>3 DEF InOrder

(* max_transactions cuts off the end, which keeps the order.                *)
LEMMA InOrderTake ==
    ASSUME NEW q \in Seq(Txs), NEW n \in Nat, InOrder(q)
    PROVE  InOrder(Take(q, n))
  <1>1. PICK m \in Nat : m = (IF Len(q) < n THEN Len(q) ELSE n) /\ m <= Len(q)
    <2>1. Len(q) \in Nat
      OBVIOUS
    <2> QED
      BY <2>1
  <1>2. PICK r : r = SubSeq(q, 1, m)
    OBVIOUS
  <1>3. DOMAIN r = 1 .. m /\ \A i \in 1 .. m : r[i] = q[i] /\ i \in DOMAIN q
    BY <1>1, <1>2
  <1>4. ASSUME NEW i \in DOMAIN r PROVE Follows(r, i - 1, r[i])
    <2>1. Follows(q, i - 1, q[i]) /\ r[i] = q[i]
      BY <1>3 DEF InOrder
    <2>2. \A j \in 1 .. i - 1 : j \in 1 .. m
      BY <1>1, <1>3
    <2> QED
      BY <1>3, <2>1, <2>2 DEF Follows
  <1> QED
    BY <1>1, <1>2, <1>4 DEF InOrder, Take

(* The iterator yields a transaction after what it waits for: it starts     *)
(* with executable ones and goes on to what a yielded one unlocks.          *)
LEMMA YieldsInOrder ==
    ASSUME ReadyInv, Finite, IndependentExecutable
    PROVE  InOrder(Yields)
  <1> DEFINE I == {it \in Iterators :
                     /\ InOrder(it.out)
                     /\ \A h \in it.independent : Follows(it.out, Len(it.out), h)}
  <1>0. ReadyTypeOK /\ independent_transactions \subseteq DOMAIN ready_tx
        /\ DOMAIN ready_tx \subseteq Txs
    BY DEF ReadyInv, ReadyTypeOK, Linked
  <1>1. [independent |-> independent_transactions, out |-> <<>>] \in I
    <2>1. <<>> \in Seq(Txs) /\ DOMAIN <<>> = {}
      OBVIOUS
    <2>2. PICK none \in Seq(Txs) : none = <<>> /\ DOMAIN none = {}
      BY <2>1, Zenon
    <2>3. InOrder(none)
      BY <2>2 DEF InOrder
    <2>4. \A h \in independent_transactions : Follows(none, Len(none), h)
      BY DEF Follows, Due, IndependentExecutable
    <2>5. PICK it : it = [independent |-> independent_transactions, out |-> none]
      OBVIOUS
    <2>6. it \in Iterators /\ it.out = none /\ it.independent = independent_transactions
      BY <1>0, <2>5 DEF Iterators
    <2>7. it \in I
      BY <2>3, <2>4, <2>6
    <2> QED
      BY <2>2, <2>5, <2>7
  <1>2. ASSUME NEW it \in I PROVE IteratorNext(it) \in I
    <2>1. CASE it.independent = {}
      BY <2>1 DEF IteratorNext
    <2>2. CASE it.independent # {}
      <3>1. /\ it.independent \in SUBSET DOMAIN ready_tx /\ it.out \in Seq(Txs)
            /\ InOrder(it.out) /\ \A h \in it.independent : Follows(it.out, Len(it.out), h)
        BY DEF Iterators
      <3>2. PICK best \in it.independent : best = Best(it.independent)
        BY <1>0, <2>2, <3>1, BestIn
      <3>3. PICK rest : rest = (it.independent \ {best})
                          \cup {h \in DOMAIN ready_tx : ready_tx[best].unlocks[h] > 0}
        OBVIOUS
      <3>4. PICK q : q = Append(it.out, best)
        OBVIOUS
      <3>5. PICK next : next = [independent |-> rest, out |-> q]
        OBVIOUS
      <3>6. IteratorNext(it) = next /\ next.independent = rest /\ next.out = q
        BY <2>2, <3>2, <3>3, <3>4, <3>5 DEF IteratorNext
      <3>7. next \in Iterators
        BY <1>0, <3>6, IteratorStays
      <3>8. best \in Txs /\ InOrder(q)
        BY <1>0, <3>1, <3>2, <3>4, InOrderAppend
      <3>9. /\ Len(it.out) \in Nat /\ Len(q) = Len(it.out) + 1 /\ q[Len(q)] = best
            /\ \A j \in 1 .. Len(it.out) : q[j] = it.out[j] /\ j \in 1 .. Len(q)
            /\ Len(q) \in 1 .. Len(q)
        BY <3>1, <3>4, <3>8
      <3>10. ASSUME NEW h \in rest PROVE Follows(q, Len(q), h)
        <4>1. CASE h \in it.independent
          <5>1. Follows(it.out, Len(it.out), h)
            BY <3>1, <4>1
          <5> QED
            BY <3>9, <5>1 DEF Follows
        <4>2. CASE h \in DOMAIN ready_tx /\ ready_tx[best].unlocks[h] > 0
          <5>1. PrevMarker(h) = Marker(best)
            BY <1>0, <3>1, <3>2, <4>2 DEF ReadyInv, Linked
          <5> QED
            BY <3>9, <5>1 DEF Follows
        <4> QED
          BY <3>3, <4>1, <4>2
      <3> QED
        BY <3>6, <3>7, <3>8, <3>10
    <2> QED
      BY <2>1, <2>2
  <1>3. PICK it \in I : Yields = it.out
    <2> HIDE DEF I
    <2> QED
      BY <1>1, <1>2, YieldsKeeps, Zenon
  <1> QED
    BY <1>3

(* Mixed mining pushes what is missing in the order of the interval's own.  *)
LEMMA CombinedInOrder ==
    ASSUME NEW auto_txs \in Seq(Txs), NEW fixed_txs \in Seq(Txs),
           InOrder(auto_txs), InOrder(fixed_txs)
    PROVE  InOrder(Combined(auto_txs, fixed_txs))
  <1> DEFINE k == Len(fixed_txs)
  <1>0. k \in Nat /\ \A n \in 1 .. k : fixed_txs[n] \in Txs /\ n \in DOMAIN fixed_txs
    OBVIOUS
  <1>1. PICK h : /\ h[0] = auto_txs /\ h[k] = Combined(auto_txs, fixed_txs)
                 /\ \A n \in 0 .. k : h[n] \in Seq(Txs)
                 /\ \A n \in 1 .. k :
                       h[n] = IF fixed_txs[n] \in Members(h[n - 1]) THEN h[n - 1]
                              ELSE Append(h[n - 1], fixed_txs[n])
    BY CombinedSteps
  <1> HIDE DEF k
  <1> DEFINE Good(n) == InOrder(h[n]) /\ \A j \in 1 .. n : fixed_txs[j] \in Members(h[n])
             A == {n \in 0 .. k : Good(n)}
  <1>2. 0 \in A
    BY <1>0, <1>1
  <1>3. ASSUME NEW n \in 1 .. k, n - 1 \in A PROVE n \in A
    <2>1. /\ n - 1 \in 0 .. k /\ n \in 0 .. k
          /\ \A j \in 1 .. n : j = n \/ j \in 1 .. n - 1
      BY <1>0
    <2>2. PICK q \in Seq(Txs) : q = h[n - 1]
      BY <1>1, <2>1
    <2>3. PICK t \in Txs : t = fixed_txs[n]
      BY <1>0
    <2>4. InOrder(q) /\ \A j \in 1 .. n - 1 : fixed_txs[j] \in Members(q)
      BY <1>3, <2>2
    <2>5. CASE t \in Members(q)
      <3>1. h[n] = q
        BY <1>1, <2>2, <2>3, <2>5
      <3>2. Good(n)
        BY <2>1, <2>3, <2>4, <2>5, <3>1
      <3> QED
        BY <2>1, <3>2
    <2>6. CASE t \notin Members(q)
      <3>1. PICK r : r = Append(q, t)
        OBVIOUS
      <3>2. h[n] = r
        BY <1>1, <2>2, <2>3, <2>6, <3>1
      <3>3. /\ Len(q) \in Nat /\ DOMAIN r = 1 .. Len(q) + 1 /\ r[Len(q) + 1] = t
            /\ DOMAIN q = 1 .. Len(q) /\ \A j \in 1 .. Len(q) : r[j] = q[j]
        BY <3>1
      <3>4. \A x \in Members(q) : x \in Members(r)
        BY <3>3 DEF Members
      <3>5. t \in Members(r)
        BY <3>3 DEF Members
      <3>6. Follows(q, Len(q), t)
        <4>1. Follows(fixed_txs, n - 1, t)
          BY <1>0, <2>3 DEF InOrder
        <4>2. CASE Due(t)
          BY <4>2 DEF Follows
        <4>3. ASSUME NEW j \in 1 .. n - 1, Marker(fixed_txs[j]) = PrevMarker(t)
              PROVE  Follows(q, Len(q), t)
          <5>1. PICK i \in DOMAIN q : q[i] = fixed_txs[j]
            BY <2>4 DEF Members
          <5> QED
            BY <3>3, <4>3, <5>1 DEF Follows
        <4> QED
          BY <4>1, <4>2, <4>3 DEF Follows
      <3>7. InOrder(r)
        BY <2>4, <3>1, <3>6, InOrderAppend
      <3>8. \A j \in 1 .. n : fixed_txs[j] \in Members(r)
        BY <2>1, <2>3, <2>4, <3>4, <3>5
      <3>9. Good(n)
        BY <3>2, <3>7, <3>8
      <3> QED
        BY <2>1, <3>9
    <2> QED
      BY <2>5, <2>6
  <1>4. k \in A
    <2> HIDE DEF A
    <2>1. \A i \in 0 .. k : i \in A
      BY <1>0, <1>2, <1>3, UpToAll, Zenon
    <2> QED
      BY <1>0, <2>1
  <1> QED
    BY <1>1, <1>4

\* Transaction t is done with in the block that led to r: its nonce is used up, or
\* it or one of its sender before it was kept out.
Passed(r, t) ==
    \/ t.nonce < r.nonces[t.from]
    \/ \E u \in r.kept_out : u.from = t.from /\ u.nonce <= t.nonce

(* The executor meets transactions in nonce order, so what it calls invalid *)
(* has its nonce used up or is behind one that was kept out.                *)
LEMMA ExecutedInOrder ==
    ASSUME nonces \in [Senders -> Nat], NEW txs \in Seq(Txs), InOrder(txs),
           NEW fate \in [DOMAIN txs -> Fates]
    PROVE  \A t \in Executed(txs, fate).invalid : Passed(Executed(txs, fate), t)
  <1> DEFINE k == Len(txs)
  <1>0. /\ k \in Nat /\ \A n \in 1 .. k : txs[n] \in Txs /\ n \in DOMAIN txs /\ fate[n] \in Fates
        /\ \A t \in Txs : t.nonce \in Nat /\ t.from \in Senders
    BY TxsAssumption, NodeAssumption
  <1>a. PICK h : Execution(txs, fate, h)
    BY ExecutedSteps
  <1>1. /\ h[0].invalid = {}
        /\ h[k] = Executed(txs, fate)
        /\ \A n \in 0 .. k : h[n] \in Results
        /\ \A n \in 1 .. k : h[n] = Execute(h[n - 1], txs[n], fate[n])
    BY <1>a DEF Execution
  <1> HIDE DEF k
  <1> DEFINE Good(n) == /\ \A i \in 1 .. n : Passed(h[n], txs[i])
                        /\ \A t \in h[n].invalid : Passed(h[n], t)
             A == {n \in 0 .. k : Good(n)}
  <1>2. 0 \in A
    <2>1. h[0].invalid = {}
      BY <1>1
    <2> QED
      BY <1>0, <2>1
  <1>3. ASSUME NEW n \in 1 .. k, n - 1 \in A PROVE n \in A
    <2>1. /\ n - 1 \in 0 .. k /\ n \in 0 .. k
          /\ \A j \in 1 .. n : j = n \/ j \in 1 .. n - 1
          /\ \A j \in 1 .. n - 1 : j \in 1 .. k
      BY <1>0
    <2>2. PICK r \in Results : r = h[n - 1]
      BY <1>1, <2>1
    <2>3. PICK t \in Txs : t = txs[n]
      BY <1>0
    <2>4. PICK x \in Results : x = Execute(r, t, fate[n])
      BY <1>0, ExecuteStays
    <2>5. h[n] = x
      BY <1>1, <2>2, <2>3, <2>4
    <2>6. /\ \A i \in 1 .. n - 1 : Passed(r, txs[i])
          /\ \A u \in r.invalid : Passed(r, u)
      BY <1>3, <2>2
    <2>7. /\ r.nonces \in [Senders -> Nat] /\ r.invalid \in SUBSET Txs /\ r.kept_out \in SUBSET Txs
          /\ \A s \in Senders : nonces[s] <= r.nonces[s]
          /\ x.nonces \in [Senders -> Nat]
      BY DEF Results
    <2>8. \/ /\ x.nonces = r.nonces /\ x.invalid \subseteq r.invalid \cup {t}
             /\ x.kept_out = r.kept_out \cup {t}
          \/ /\ t.nonce # r.nonces[t.from]
             /\ x.nonces = r.nonces /\ x.invalid = r.invalid \cup {t} /\ x.kept_out = r.kept_out
          \/ /\ t.nonce = r.nonces[t.from]
             /\ x.nonces = [r.nonces EXCEPT ![t.from] = @ + 1]
             /\ x.invalid = r.invalid /\ x.kept_out = r.kept_out
      BY <1>0, <2>4, ExecuteCases
    <2>9. x.invalid \subseteq r.invalid \cup {t}
      BY <2>8
    <2>10. r.kept_out \subseteq x.kept_out /\ \A s \in Senders : r.nonces[s] <= x.nonces[s]
      <3>1. r.kept_out \subseteq x.kept_out
        BY <2>8
      <3>2. x.nonces = r.nonces \/ x.nonces = [r.nonces EXCEPT ![t.from] = @ + 1]
        BY <2>8
      <3>3. \A s \in Senders : r.nonces[s] \in Nat
        BY <2>7
      <3>4. ASSUME NEW s \in Senders PROVE r.nonces[s] <= x.nonces[s]
        <4>1. PICK m \in [Senders -> Nat] : m = r.nonces
          BY <2>7
        <4>2. PICK c \in Senders : c = t.from
          BY <1>0
        <4>3. m[s] <= m[s] /\ m[s] <= [m EXCEPT ![c] = @ + 1][s]
          OBVIOUS
        <4> QED
          BY <3>2, <4>1, <4>2, <4>3
      <3> QED
        BY <3>1, <3>4
    <2>11. ASSUME NEW u \in Txs, Passed(r, u) PROVE Passed(x, u)
      <3>1. CASE u.nonce < r.nonces[u.from]
        <4>1. u.nonce \in Nat /\ u.from \in Senders
          BY <1>0
        <4>2. u.nonce < x.nonces[u.from]
          BY <2>7, <2>10, <3>1, <4>1
        <4> QED
          BY <4>2 DEF Passed
      <3>2. CASE \E v \in r.kept_out : v.from = u.from /\ v.nonce <= u.nonce
        BY <2>10, <3>2 DEF Passed
      <3> QED
        BY <2>11, <3>1, <3>2 DEF Passed
    <2>12. Passed(x, t)
      <3>1. CASE t \in x.kept_out
        BY <1>0, <3>1 DEF Passed
      <3>2. CASE t.nonce < x.nonces[t.from]
        BY <3>2 DEF Passed
      <3>3. CASE t \notin x.kept_out /\ ~(t.nonce < x.nonces[t.from])
        <4>1. t.nonce # r.nonces[t.from] /\ x.nonces = r.nonces
          BY <1>0, <2>7, <2>8, <3>3
        <4>2. t.nonce > r.nonces[t.from]
          BY <1>0, <2>7, <3>3, <4>1
        <4>3. Follows(txs, n - 1, t)
          BY <1>0, <2>3 DEF InOrder
        <4>4. ~Due(t)
          BY <1>0, <2>7, <4>2 DEF Due
        <4>5. PICK j \in 1 .. n - 1 : Marker(txs[j]) = PrevMarker(t)
          BY <4>3, <4>4 DEF Follows
        <4>6. PICK u \in Txs : u = txs[j]
          BY <1>0, <2>1
        <4>7. u.from = t.from /\ u.nonce = t.nonce - 1
          BY <4>5, <4>6 DEF Marker, PrevMarker
        <4>8. Passed(r, u)
          BY <2>6, <4>6
        <4>9. ~(u.nonce < r.nonces[u.from])
          BY <1>0, <2>7, <4>2, <4>7
        <4>10. PICK v \in r.kept_out : v.from = u.from /\ v.nonce <= u.nonce
          BY <4>8, <4>9 DEF Passed
        <4>11. v \in x.kept_out /\ v.from = t.from /\ v.nonce <= t.nonce
          <5>1. v \in Txs
            BY <2>7
          <5> QED
            BY <1>0, <2>10, <4>7, <4>10, <5>1
        <4> QED
          BY <4>11 DEF Passed
      <3> QED
        BY <3>1, <3>2, <3>3
    <2>13. \A i \in 1 .. n : Passed(x, txs[i])
      BY <1>0, <2>1, <2>3, <2>6, <2>11, <2>12
    <2>14. \A u \in x.invalid : Passed(x, u)
      BY <2>6, <2>7, <2>9, <2>11, <2>12
    <2>15. Good(n)
      BY <2>5, <2>13, <2>14
    <2> QED
      BY <2>1, <2>15
  <1>4. k \in A
    <2> HIDE DEF A
    <2>1. \A i \in 0 .. k : i \in A
      BY <1>0, <1>2, <1>3, UpToAll, Zenon
    <2> QED
      BY <1>0, <2>1
  <1> QED
    BY <1>1, <1>4

(* Nonces never fall, so what is in order stays in order.                   *)
LEMMA InOrderStays ==
    ASSUME nonces \in [Senders -> Nat], nonces' \in [Senders -> Nat],
           \A s \in Senders : nonces[s] <= nonces'[s],
           NEW q \in Seq(Txs), InOrder(q)
    PROVE  \A i \in DOMAIN q : q[i].nonce <= nonces'[q[i].from]
              \/ \E j \in 1 .. i - 1 : Marker(q[j]) = PrevMarker(q[i])
  <1>1. ASSUME NEW i \in DOMAIN q, Due(q[i]) PROVE q[i].nonce <= nonces'[q[i].from]
    <2>1. PICK t \in Txs : t = q[i]
      OBVIOUS
    <2>2. t.from \in Senders /\ t.nonce \in Nat
      BY TxsAssumption
    <2>3. t.nonce <= nonces[t.from]
      BY <1>1, <2>1 DEF Due
    <2> QED
      BY <2>1, <2>2, <2>3
  <1> QED
    BY <1>1 DEF InOrder, Follows

\* No step but MineBlock changes a nonce.
LEMMA NoncesSame ==
    ASSUME [NodeNext]_nodeVars, ~\E a \in Producers : MineBlock(a)
    PROVE  nonces' = nonces
  BY DEF NodeNext, nodeVars, SendRawTransaction, SendTransaction, CurrentNonce,
         ValidatePoolTransaction, AddPendingTransaction, AddRejected, AnvilDropTransaction,
         AnvilRemovePoolTransactions, AnvilDropAllTransactions, AnvilSetAutoMine,
         AnvilSetIntervalMining, MinerPoll, StartMining, EvmMine, RemoveInvalidTxs,
         PruneIncluded, PoolStep, Notify

(* The nonces of the accounts never fall.                                   *)
LEMMA NoncesGrow ==
    ASSUME NodeInv, [NodeNext]_nodeVars
    PROVE  nonces' \in [Senders -> Nat] /\ \A s \in Senders : nonces[s] <= nonces'[s]
  <1>0. nonces \in [Senders -> Nat]
    BY DEF NodeInv
  <1>1. ASSUME NEW a \in Producers, MineBlock(a)
        PROVE  nonces' \in [Senders -> Nat] /\ \A s \in Senders : nonces[s] <= nonces'[s]
    <2>1. PICK txs \in Seq(Txs) : txs = block[a].txs
      BY DEF NodeInv, AnyBlock
    <2>2. PICK fate \in [DOMAIN txs -> Fates], result \in Results :
             /\ result = Executed(txs, fate)
             /\ nonces' = result.nonces
             /\ block' = [block EXCEPT ![a] = [txs |-> <<>>, included |-> result.included,
                                               invalid |-> result.invalid,
                                               kept_out |-> result.kept_out]]
      BY <1>0, <1>1, <2>1, MineBlockResult
    <2>3. nonces' = result.nonces
      BY <1>1, <2>1, <2>2 DEF MineBlock
    <2>4. result.nonces \in [Senders -> Nat] /\ \A s \in Senders : nonces[s] <= result.nonces[s]
      BY DEF Results
    <2> QED
      BY <2>3, <2>4
  <1>2. CASE nonces' = nonces
    BY <1>0, <1>2
  <1> QED
    BY <1>1, <1>2, NoncesSame

(* Every step keeps the queue and the blocks in nonce order.                *)
LEMMA OrderStep ==
    ASSUME IInv, NodeInv, ExecInv, OrderInv, [NodeNext]_nodeVars
    PROVE  OrderInv'
  <1> DEFINE Later(q) == \A i \in DOMAIN q : q[i].nonce <= nonces'[q[i].from]
                            \/ \E j \in 1 .. i - 1 : Marker(q[j]) = PrevMarker(q[i])
             Fine(b) == /\ b.txs \in Seq(Txs) /\ InOrder(b.txs)
                        /\ \A t \in b.invalid :
                              \/ t.nonce < nonces'[t.from]
                              \/ \E u \in b.kept_out : u.from = t.from /\ u.nonce <= t.nonce
             Slots == \A i \in DOMAIN queued' : queued'[i] \in Seq(Txs) /\ InOrder(queued'[i])
  <1>0. /\ nonces \in [Senders -> Nat] /\ queued \in Seq(Seq(Txs))
        /\ block \in [Producers -> AnyBlock]
        /\ nonces' \in [Senders -> Nat] /\ \A s \in Senders : nonces[s] <= nonces'[s]
    BY NoncesGrow DEF NodeInv
  <1>1. \A q \in Seq(Txs) : InOrder(q) => Later(q)
    BY <1>0, InOrderStays
  <1>2. \A i \in DOMAIN queued : queued[i] \in Seq(Txs) /\ InOrder(queued[i])
    BY <1>0 DEF OrderInv
  <1>3. \A a \in Producers : block[a] \in AnyBlock /\ InOrder(block[a].txs)
    BY <1>0 DEF OrderInv
  <1>4. ASSUME NEW t \in Txs, t.nonce < nonces[t.from] PROVE t.nonce < nonces'[t.from]
    <2>1. t.from \in Senders /\ t.nonce \in Nat
      BY TxsAssumption
    <2> QED
      BY <1>0, <1>4, <2>1
  <1>5. \A a \in Producers : \A t \in block[a].invalid :
           /\ t \in Txs
           /\ \/ t.nonce < nonces[t.from]
              \/ \E u \in block[a].kept_out : u.from = t.from /\ u.nonce <= t.nonce
    BY <1>0 DEF OrderInv, RejectedForCause, AnyBlock
  <1>6. ReadyInv /\ Finite /\ IndependentExecutable
    BY IInvParts DEF NodeInv, ExecInv, PoolDue
  <1>7. PICK drained \in Seq(Txs) : drained = Yields /\ InOrder(drained)
    BY <1>6, YieldsType, YieldsInOrder DEF ReadyInv, Linked
  <1>8. <<>> \in Seq(Txs) /\ DOMAIN <<>> = {}
    OBVIOUS
  <1>9. PICK none \in Seq(Txs) : none = <<>> /\ InOrder(none)
    BY <1>8, Zenon DEF InOrder
  <1>10. ASSUME \/ queued' = queued
                \/ \E txs \in Seq(Txs) : InOrder(txs) /\ queued' = Append(queued, txs)
                \/ queued # <<>> /\ queued' = Tail(queued)
         PROVE  Slots
    <2>1. PICK S : S = Seq(Txs)
      OBVIOUS
    <2>2. PICK q \in Seq(S) : q = queued
      BY <1>0, <2>1
    <2>3. CASE q # <<>> /\ queued' = Tail(q)
      <3>1. PICK r : r = Tail(q)
        OBVIOUS
      <3>2. \A i \in DOMAIN r : i + 1 \in DOMAIN q /\ r[i] = q[i + 1]
        BY <2>2, <2>3, <3>1
      <3> QED
        BY <1>2, <2>2, <2>3, <3>1, <3>2
    <2>4. ASSUME NEW txs \in S, InOrder(txs), queued' = Append(q, txs)
          PROVE  Slots
      <3>1. PICK r : r = Append(q, txs)
        OBVIOUS
      <3>2. \A i \in DOMAIN r : r[i] = txs \/ (i \in DOMAIN q /\ r[i] = q[i])
        BY <2>2, <3>1
      <3> QED
        BY <1>2, <2>1, <2>2, <2>4, <3>1, <3>2
    <2>5. CASE queued' = q
      BY <1>2, <2>2, <2>5
    <2> QED
      BY <1>10, <2>1, <2>2, <2>3, <2>4, <2>5
  <1>11. \A a \in Producers : Fine(block[a])
    BY <1>3, <1>4, <1>5 DEF AnyBlock
  <1>12. ASSUME Slots, \A a \in Producers : Fine(block'[a]) PROVE OrderInv'
    <2>1. \A i \in DOMAIN queued' : Later(queued'[i])
      BY <1>1, <1>12
    <2>2. \A a \in Producers : Later(block'[a].txs)
      BY <1>1, <1>12
    <2>3. (\A i \in DOMAIN queued : InOrder(queued[i]))'
      BY <2>1 DEF InOrder, Follows, Due
    <2>4. (\A a \in Producers : InOrder(block[a].txs))'
      BY <2>2 DEF InOrder, Follows, Due
    <2>5. RejectedForCause'
      BY <1>12 DEF RejectedForCause
    <2> QED
      BY <2>3, <2>4, <2>5 DEF OrderInv
  <1>13. ASSUME NEW a \in Producers, NEW b, Fine(b), block' = [block EXCEPT ![a] = b]
         PROVE  \A p \in Producers : Fine(block'[p])
    <2>1. ASSUME NEW p \in Producers PROVE Fine(block'[p])
      <3>1. CASE p = a
        <4>1. block'[p] = b
          BY <1>0, <1>13, <3>1
        <4> HIDE DEF Fine
        <4> QED
          BY <1>13, <4>1
      <3>2. CASE p # a
        <4>1. block'[p] = block[p]
          BY <1>0, <1>13, <3>2
        <4> HIDE DEF Fine
        <4> QED
          BY <1>11, <4>1
      <3> QED
        BY <3>1, <3>2
    <2> HIDE DEF Fine
    <2> QED
      BY <2>1
  <1> HIDE DEF Slots, Later
  <1>14. ASSUME NEW tick \in BOOLEAN, MinerPoll(tick) PROVE OrderInv'
    <2>1. Take(drained, MaxTransactions) \in Seq(Txs) /\ InOrder(Take(drained, MaxTransactions))
      BY <1>7, TakeType, InOrderTake, NodeAssumption
    <2>2. PICK auto_txs \in Seq(Txs) : InOrder(auto_txs) /\
             auto_txs = IF AutoPolls THEN Take(Yields, MaxTransactions) ELSE <<>>
      BY <1>7, <1>9, <2>1, Zenon
    <2>3. PICK fixed_txs \in Seq(Txs) : InOrder(fixed_txs) /\
             fixed_txs = IF tick /\ mode \in {"FixedBlockTime", "Mixed"} THEN Yields ELSE <<>>
      BY <1>7, <1>9, Zenon
    <2>4. PICK txs \in Seq(Txs) : InOrder(txs) /\
             txs = IF auto_txs = <<>> THEN fixed_txs ELSE Combined(auto_txs, fixed_txs)
      <3>1. /\ Combined(auto_txs, fixed_txs) \in Seq(Txs)
            /\ InOrder(Combined(auto_txs, fixed_txs))
        BY <2>2, <2>3, CombinedType, CombinedInOrder
      <3> QED
        BY <2>3, <3>1, Zenon
    <2>5. queued' = queued \/ queued' = Append(queued, txs)
      BY <1>14, <2>2, <2>3, <2>4 DEF MinerPoll
    <2>6. block' = block
      BY <1>14 DEF MinerPoll
    <2> HIDE DEF Fine
    <2> QED
      BY <1>10, <1>11, <1>12, <2>4, <2>5, <2>6
  <1>15. CASE StartMining
    <2>1. PICK txs \in Seq(Txs) : txs = Head(queued) /\ InOrder(txs)
      <3>1. PICK S : S = Seq(Txs)
        OBVIOUS
      <3>2. PICK q \in Seq(S) : q = queued
        BY <1>0, <3>1
      <3>3. q # <<>>
        BY <1>15, <3>2 DEF StartMining
      <3>4. 1 \in DOMAIN q /\ Head(q) = q[1]
        BY <3>2, <3>3
      <3> QED
        BY <1>2, <3>2, <3>4
    <2>2. PICK b : b = [txs |-> txs, included |-> none, invalid |-> {}, kept_out |-> {}]
      OBVIOUS
    <2>3. Fine(b)
      BY <2>1, <2>2
    <2>4. /\ block' = [block EXCEPT !["service"] = b]
          /\ queued # <<>> /\ queued' = Tail(queued)
      BY <1>9, <1>15, <2>1, <2>2 DEF StartMining, NewBlock
    <2>5. \A p \in Producers : Fine(block'[p])
      <3> HIDE DEF Fine
      <3> QED
        BY <1>13, <2>3, <2>4 DEF Producers
    <2> HIDE DEF Fine
    <2> QED
      BY <1>10, <1>12, <2>4, <2>5
  <1>16. CASE EvmMine
    <2>2. PICK b : b = [txs |-> drained, included |-> none, invalid |-> {}, kept_out |-> {}]
      OBVIOUS
    <2>3. Fine(b)
      BY <1>7, <2>2
    <2>4. block' = [block EXCEPT !["evm_mine"] = b] /\ queued' = queued
      BY <1>7, <1>9, <1>16, <2>2 DEF EvmMine, NewBlock
    <2>5. \A p \in Producers : Fine(block'[p])
      <3> HIDE DEF Fine
      <3> QED
        BY <1>13, <2>3, <2>4 DEF Producers
    <2> HIDE DEF Fine
    <2> QED
      BY <1>10, <1>12, <2>4, <2>5
  <1>17. ASSUME NEW a \in Producers, MineBlock(a) PROVE OrderInv'
    <2>1. PICK txs \in Seq(Txs) : txs = block[a].txs /\ InOrder(txs)
      BY <1>3 DEF AnyBlock
    <2>2. PICK fate \in [DOMAIN txs -> Fates], result \in Results :
             /\ result = Executed(txs, fate)
             /\ nonces' = result.nonces
             /\ block' = [block EXCEPT ![a] = [txs |-> <<>>, included |-> result.included,
                                               invalid |-> result.invalid,
                                               kept_out |-> result.kept_out]]
      BY <1>0, <1>17, <2>1, MineBlockResult
    <2>3. \A t \in result.invalid : Passed(result, t)
      BY <1>0, <2>1, <2>2, ExecutedInOrder
    <2>4. PICK b : b = [txs |-> none, included |-> result.included, invalid |-> result.invalid,
                        kept_out |-> result.kept_out]
      OBVIOUS
    <2>5. /\ nonces' = result.nonces /\ block' = [block EXCEPT ![a] = b] /\ queued' = queued
      BY <1>9, <1>17, <2>1, <2>2, <2>4 DEF MineBlock
    <2>6. Fine(b)
      BY <1>9, <2>3, <2>4, <2>5 DEF Passed
    <2> HIDE DEF Fine
    <2>7. \A p \in Producers : Fine(block'[p])
      BY <1>13, <2>5, <2>6
    <2> QED
      BY <1>10, <1>12, <2>5, <2>7
  <1>18. ASSUME NEW a \in Producers, RemoveInvalidTxs(a) PROVE OrderInv'
    <2>1. PICK b : b = [block[a] EXCEPT !.invalid = {}]
      OBVIOUS
    <2>2. b.txs = block[a].txs /\ b.invalid = {}
      BY <1>3, <2>1
    <2>3. block' = [block EXCEPT ![a] = b] /\ queued' = queued
      BY <1>18, <2>1 DEF RemoveInvalidTxs
    <2>4. Fine(b)
      BY <1>3, <2>2 DEF AnyBlock
    <2> HIDE DEF Fine
    <2>5. \A p \in Producers : Fine(block'[p])
      BY <1>13, <2>3, <2>4
    <2> QED
      BY <1>10, <1>12, <2>3, <2>5
  <1>19. ASSUME NEW a \in Producers, PruneIncluded(a) PROVE OrderInv'
    <2>1. PICK b : b = [txs |-> none, included |-> none, invalid |-> {}, kept_out |-> {}]
      OBVIOUS
    <2>2. block' = [block EXCEPT ![a] = b] /\ queued' = queued
      BY <1>9, <1>19, <2>1 DEF PruneIncluded, NoBlock, NewBlock
    <2>3. Fine(b)
      BY <1>9, <2>1
    <2> HIDE DEF Fine
    <2>4. \A p \in Producers : Fine(block'[p])
      BY <1>13, <2>2, <2>3
    <2> QED
      BY <1>10, <1>12, <2>2, <2>4
  <1>20. ASSUME \/ \E c \in Clients, t \in Txs : SendRawTransaction(c, t) \/ SendTransaction(c, t)
                \/ \E c \in Clients : \/ CurrentNonce(c) \/ ValidatePoolTransaction(c)
                                      \/ AddRejected(c) \/ AddPendingTransaction(c)
                \/ \E t \in Txs : AnvilDropTransaction(t)
                \/ \E s \in Senders : AnvilRemovePoolTransactions(s)
                \/ AnvilDropAllTransactions
                \/ \E enable \in BOOLEAN : AnvilSetAutoMine(enable)
                \/ \E secs \in {0, 1} : AnvilSetIntervalMining(secs)
                \/ PoolStep \/ Notify \/ UNCHANGED nodeVars
         PROVE  OrderInv'
    <2>1. block' = block /\ queued' = queued
      BY <1>20 DEF SendRawTransaction, SendTransaction, CurrentNonce, ValidatePoolTransaction,
                   AddRejected, AddPendingTransaction, AnvilDropTransaction,
                   AnvilRemovePoolTransactions, AnvilDropAllTransactions, AnvilSetAutoMine,
                   AnvilSetIntervalMining, PoolStep, Notify, nodeVars, producerVars
    <2> HIDE DEF Fine
    <2> QED
      BY <1>10, <1>11, <1>12, <2>1
  <1> QED
    BY <1>14, <1>15, <1>16, <1>17, <1>18, <1>19, <1>20, Zenon DEF NodeNext

(* There is nothing to order at the start.                                  *)
LEMMA InitOrder == NodeInit => OrderInv
  <1> SUFFICES ASSUME NodeInit PROVE OrderInv
    OBVIOUS
  <1>1. /\ queued = <<>>
        /\ \A a \in Producers : block[a].txs = <<>> /\ block[a].invalid = {}
    BY DEF NodeInit, NoBlock, NewBlock
  <1>2. DOMAIN <<>> = {}
    OBVIOUS
  <1> QED
    BY <1>1, <1>2 DEF OrderInv, InOrder, RejectedForCause

(* A block rejects a transaction only because its nonce is used up, because *)
(* the validator refuses it, or because one of the same sender before it    *)
(* was kept out of the same block: what the iterator yields, what           *)
(* max_transactions cuts off, what mixed mining combines and what waits in  *)
(* the queue while other blocks are mined stays in nonce order.             *)
THEOREM AllRejectedForCause ==
    ASSUME BlockGas <= MaxMarkers, "eth_sendTransaction" \notin Rpcs
    PROVE  NodeSpec => []RejectedForCause
  <1>1. NodeInit => IInv /\ NodeInv /\ ExecInv /\ OrderInv
    BY NodeInitInv, InitDue, InitOrder
  <1>2. IInv /\ NodeInv /\ ExecInv /\ OrderInv /\ [NodeNext]_nodeVars
        => IInv' /\ NodeInv' /\ ExecInv' /\ OrderInv'
    BY NodeStepsPool, NextInv, NodeNextInv, PoolDueStep, RequestsDueStep, BlocksDueStep,
       OrderStep DEF ExecInv
  <1>3. OrderInv => RejectedForCause
    BY DEF OrderInv
  <1> QED
    BY <1>1, <1>2, <1>3, PTL DEF NodeSpec
=============================================================================
