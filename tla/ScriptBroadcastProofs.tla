------------------------ MODULE ScriptBroadcastProofs ------------------------
(***************************************************************************)
(* Theorems about ScriptBroadcast, for any script, batch size, number of   *)
(* runs and number of faults.                                              *)
(***************************************************************************)
EXTENDS ScriptBroadcast, FunctionTheorems, FiniteSetTheorems, TLAPS

Hashes == [tx : Txs, run : Nat]

Sequence == [receipts : SUBSET Hashes, pending : SUBSET Hashes]

STypeOK ==
    /\ script \in Scripts
    /\ pc \in {"wait", "send", "receipts", "failed", "done"}
    /\ sequence \in Sequence
    /\ file \in Sequence
    /\ run \in Nat
    /\ index \in Nat
    /\ upto \in Nat
    /\ answers \in [Txs -> {"none", "checked", "sent", "error"}]
    /\ checking \in SUBSET Hashes
    /\ errors \in BOOLEAN
    /\ mempool \in SUBSET Hashes
    /\ mined \in Seq([hash : Hashes, ok : BOOLEAN])

\* Transaction i is mined; it also succeeded.
Mined(i) == \E n \in DOMAIN mined : mined[n].hash.tx = i
OKMined(i) == \E n \in DOMAIN mined : mined[n].hash.tx = i /\ mined[n].ok

\* The transactions mined up to number n whose sender is that of transaction i.
MinedBy(i, n) == {m \in 1 .. n : script.from[mined[m].hash.tx] = script.from[i]}

\* The transactions of a sender are mined in nonce order.
NonceOrder ==
    \A n \in DOMAIN mined : Nonce(mined[n].hash.tx) = Cardinality(MinedBy(mined[n].hash.tx, n - 1))

\* A receipt is that of a transaction that was mined and succeeded.
ReceiptsTrue(s) == \A h \in s.receipts : \E n \in DOMAIN mined : mined[n].hash = h /\ mined[n].ok

\* Some transaction that is still to be sent is mined already: the run fails
\* when it gets there.
Doomed ==
    \E j \in Txs : /\ j >= index
                   /\ Mined(j)
                   /\ pc = "send" /\ j <= upto => answers[j] # "sent"

(* What is known of the transactions before the next one, unless the run   *)
(* is bound to fail.                                                       *)
Accounted ==
    \/ Doomed
    \/ pc = "receipts" /\ errors
    \/ \A i \in 1 .. index - 1 : OKMined(i) \/ Hash(i) \in sequence.pending

Progress ==
    /\ pc \in {"wait", "receipts"} /\ ~errors => sequence.pending \subseteq checking
    /\ pc \in {"send", "receipts"} =>
        index \in 1 .. upto + 1 /\ upto <= Len(script.from) /\ Accounted
    /\ pc = "receipts" => index = upto + 1
    /\ pc = "done" => \A i \in Txs : OKMined(i)

SInv ==
    /\ STypeOK
    /\ NonceOrder
    /\ ReceiptsTrue(sequence)
    /\ ReceiptsTrue(file)
    /\ Progress

-----------------------------------------------------------------------------
(* The script and the transactions mined                                   *)

LEMMA SeqType ==
    ASSUME NEW S, NEW s \in Seq(S)
    PROVE  /\ Len(s) \in Nat
           /\ DOMAIN s = 1 .. Len(s)
           /\ \A n \in DOMAIN s : s[n] \in S
  OBVIOUS

LEMMA ScriptLength ==
    ASSUME script \in Scripts
    PROVE  Len(script.from) \in Nat \ {0} /\ Txs = 1 .. Len(script.from)
  BY ScriptAssumption DEF Txs

LEMMA MinedType ==
    ASSUME STypeOK
    PROVE  /\ Len(mined) \in Nat
           /\ DOMAIN mined = 1 .. Len(mined)
           /\ \A n \in DOMAIN mined : /\ mined[n].hash \in Hashes
                                      /\ mined[n].hash.tx \in Txs
                                      /\ mined[n].ok \in BOOLEAN
  <1>1. mined \in Seq([hash : Hashes, ok : BOOLEAN])
    BY DEF STypeOK
  <1>2. /\ Len(mined) \in Nat
        /\ DOMAIN mined = 1 .. Len(mined)
        /\ \A n \in DOMAIN mined : mined[n] \in [hash : Hashes, ok : BOOLEAN]
    BY <1>1, SeqType
  <1> QED
    BY <1>2 DEF Hashes

\* The nonces used are those of the sender's transactions that are mined.
LEMMA CountType ==
    ASSUME STypeOK, NEW i \in Txs
    PROVE  /\ TransactionCount(i) = Cardinality(MinedBy(i, Len(mined)))
           /\ TransactionCount(i) \in Nat
           /\ Nonce(i) \in Nat
  <1> DEFINE counted == {n \in DOMAIN mined : script.from[mined[n].hash.tx] = script.from[i]}
             before == {j \in Txs : j < i /\ script.from[j] = script.from[i]}
  <1>1. Len(mined) \in Nat /\ DOMAIN mined = 1 .. Len(mined)
    BY MinedType
  <1>2. Len(script.from) \in Nat \ {0} /\ Txs = 1 .. Len(script.from)
    BY ScriptLength DEF STypeOK
  <1>3. IsFiniteSet(DOMAIN mined) /\ IsFiniteSet(Txs)
    BY <1>1, <1>2, FS_Interval
  <1>4. IsFiniteSet(counted) /\ IsFiniteSet(before)
    BY <1>3, FS_Subset
  <1>5. counted = MinedBy(i, Len(mined))
    BY <1>1 DEF MinedBy
  <1>6. TransactionCount(i) = Cardinality(counted) /\ Nonce(i) = Cardinality(before)
    BY DEF TransactionCount, Nonce
  <1> HIDE DEF counted, before
  <1> QED
    BY <1>4, <1>5, <1>6, FS_CardinalityType

\* The nonce of a transaction mined as number n is used up from there on.
LEMMA UsedUp ==
    ASSUME STypeOK, NonceOrder, NEW n \in DOMAIN mined, NEW m \in n .. Len(mined)
    PROVE  LET i == mined[n].hash.tx IN
           Cardinality(MinedBy(i, m)) \in Nat /\ Cardinality(MinedBy(i, m)) > Nonce(i)
  <1> DEFINE i == mined[n].hash.tx
             before == MinedBy(i, n - 1)
             counted == MinedBy(i, m)
  <1>1. Len(mined) \in Nat /\ DOMAIN mined = 1 .. Len(mined) /\ i \in Txs
    BY MinedType
  <1>2. n \in Nat \ {0} /\ m \in Nat /\ n <= m
    BY <1>1
  <1>3. before \cup {n} \subseteq counted /\ n \notin before
    BY <1>2 DEF MinedBy
  <1>4. IsFiniteSet(1 .. m)
    BY <1>2, FS_Interval
  <1>5. IsFiniteSet(counted)
    BY <1>4, FS_Subset DEF MinedBy
  <1>6. Nonce(i) = Cardinality(before)
    BY DEF NonceOrder
  <1> HIDE DEF before, counted, i
  <1>7. IsFiniteSet(before)
    BY <1>3, <1>5, FS_Subset
  <1>8. Cardinality(before \cup {n}) = Cardinality(before) + 1
    BY <1>3, <1>7, FS_AddElement
  <1>9. Cardinality(before \cup {n}) <= Cardinality(counted)
    BY <1>3, <1>5, FS_Subset
  <1>10. Cardinality(before) \in Nat /\ Cardinality(counted) \in Nat
    BY <1>5, <1>7, FS_CardinalityType
  <1> QED
    BY <1>6, <1>8, <1>9, <1>10 DEF i, counted

\* The nonce of a transaction that is mined is used up.
LEMMA NonceUsed ==
    ASSUME STypeOK, NonceOrder, NEW i \in Txs, Mined(i)
    PROVE  TransactionCount(i) > Nonce(i)
  <1>1. PICK n \in DOMAIN mined : mined[n].hash.tx = i
    BY DEF Mined
  <1>2. Len(mined) \in Nat /\ DOMAIN mined = 1 .. Len(mined)
    BY MinedType
  <1>3. Len(mined) \in n .. Len(mined)
    BY <1>2
  <1>4. Cardinality(MinedBy(i, Len(mined))) > Nonce(i)
    BY <1>1, <1>3, UsedUp
  <1> QED
    BY <1>4, CountType

\* No transaction is mined twice.
LEMMA MinedOnce ==
    ASSUME STypeOK, NonceOrder, NEW m \in DOMAIN mined, NEW n \in DOMAIN mined,
           mined[m].hash.tx = mined[n].hash.tx
    PROVE  m = n
  <1>1. Len(mined) \in Nat /\ DOMAIN mined = 1 .. Len(mined)
    BY MinedType
  <1>2. ASSUME NEW k \in DOMAIN mined, NEW l \in DOMAIN mined, k < l,
               mined[k].hash.tx = mined[l].hash.tx
        PROVE  FALSE
    <2> DEFINE i == mined[k].hash.tx
    <2>1. l - 1 \in k .. Len(mined)
      BY <1>1, <1>2
    <2>2. Cardinality(MinedBy(i, l - 1)) \in Nat /\ Cardinality(MinedBy(i, l - 1)) > Nonce(i)
      BY <2>1, UsedUp
    <2>3. Nonce(i) = Cardinality(MinedBy(i, l - 1))
      BY <1>2 DEF NonceOrder
    <2> HIDE DEF i
    <2> QED
      BY <2>2, <2>3
  <1>3. ~(m < n) /\ ~(n < m)
    BY <1>2
  <1> QED
    BY <1>1, <1>3

\* receipts.len() is the number of transactions mined at most.  The first
\* ones have succeeded, or one behind them is mined.
LEMMA ReceiptsCount ==
    ASSUME STypeOK, NonceOrder, ReceiptsTrue(sequence)
    PROVE  LET k == Cardinality(sequence.receipts) IN
           /\ k \in Nat
           /\ k <= Len(mined)
           /\ (\E j \in Txs : j > k /\ Mined(j)) \/ \A i \in 1 .. k : OKMined(i)
  <1> DEFINE R == sequence.receipts
             k == Cardinality(R)
             N == DOMAIN mined
             At(h) == CHOOSE n \in N : mined[n].hash = h /\ mined[n].ok
             at == [h \in R |-> At(h)]
             tx == [h \in R |-> h.tx]
  <1>1. Len(mined) \in Nat /\ N = 1 .. Len(mined)
    BY MinedType
  <1>2. \A h \in R : At(h) \in N /\ mined[At(h)].hash = h /\ mined[At(h)].ok
    BY DEF ReceiptsTrue
  <1> HIDE DEF At
  <1>3. \A g, h \in R : g.tx = h.tx => g = h
    <2> SUFFICES ASSUME NEW g \in R, NEW h \in R, g.tx = h.tx PROVE g = h
      OBVIOUS
    <2>1. At(g) \in N /\ At(h) \in N /\ mined[At(g)].hash = g /\ mined[At(h)].hash = h
      BY <1>2
    <2>2. At(g) = At(h)
      BY <2>1, MinedOnce
    <2> QED
      BY <2>1, <2>2
  <1>4. at \in Injection(R, N)
    <2>1. at \in [R -> N]
      BY <1>2
    <2>2. \A g, h \in R : at[g] = at[h] => g = h
      BY <1>2
    <2> QED
      BY <2>1, <2>2 DEF Injection, IsInjective
  <1>5. IsFiniteSet(N) /\ Cardinality(N) = Len(mined)
    <2>1. /\ IsFiniteSet(1 .. Len(mined))
          /\ Cardinality(1 .. Len(mined)) = IF 1 > Len(mined) THEN 0 ELSE Len(mined) - 1 + 1
      BY <1>1, FS_Interval
    <2> QED
      BY <1>1, <2>1
  <1>6. IsFiniteSet(R) /\ k <= Len(mined)
    <2> HIDE DEF at, R, N
    <2> QED
      BY <1>4, <1>5, FS_Injection
  <1>7. k \in Nat
    BY <1>6, FS_CardinalityType
  <1>8. \A h \in R : h.tx \in Txs /\ h.tx \in Nat \ {0} /\ OKMined(h.tx) /\ Mined(h.tx)
    <2>1. \A n \in N : mined[n].hash.tx \in Txs
      BY MinedType
    <2>2. Len(script.from) \in Nat /\ Txs = 1 .. Len(script.from)
      BY ScriptLength DEF STypeOK
    <2> QED
      BY <1>2, <2>1, <2>2 DEF OKMined, Mined
  <1>9. CASE \E h \in R : h.tx > k
    BY <1>6, <1>7, <1>8, <1>9
  <1>10. CASE ~\E h \in R : h.tx > k
    <2> DEFINE K == 1 .. k
    <2>1. tx \in Injection(R, K)
      <3>1. tx \in [R -> K]
        BY <1>7, <1>8, <1>10
      <3>2. \A g, h \in R : tx[g] = tx[h] => g = h
        BY <1>3
      <3> QED
        BY <3>1, <3>2 DEF Injection, IsInjective
    <2>2. IsFiniteSet(K) /\ Cardinality(K) = k
      <3>1. IsFiniteSet(1 .. k) /\ Cardinality(1 .. k) = IF 1 > k THEN 0 ELSE k - 1 + 1
        BY <1>7, FS_Interval
      <3> QED
        BY <1>7, <3>1
    <2>3. tx \in Surjection(R, K)
      <3> HIDE DEF tx, R, K
      <3> QED
        BY <2>1, <2>2, FS_Injection
    <2>4. \A i \in K : \E h \in R : h.tx = i
      BY <2>3 DEF Surjection
    <2>5. \A i \in K : OKMined(i)
      BY <1>8, <2>4
    <2> QED
      BY <1>6, <1>7, <2>5
  <1> QED
    BY <1>9, <1>10

-----------------------------------------------------------------------------
(* What a step leaves alone                                                *)

LEMMA SameScript ==
    ASSUME UNCHANGED script
    PROVE  /\ Txs' = Txs
           /\ Hashes' = Hashes
           /\ Sequence' = Sequence
           /\ SequentialBroadcast' = SequentialBroadcast
           /\ Ordered' = Ordered
           /\ \A i : Nonce(i)' = Nonce(i)
  <1>1. Txs' = Txs
    BY DEF Txs
  <1>2. Hashes' = Hashes
    BY <1>1 DEF Hashes
  <1>3. Sequence' = Sequence
    BY <1>2 DEF Sequence
  <1>4. required_addresses' = required_addresses
    BY <1>1 DEF required_addresses, IsUnsigned
  <1>5. SequentialBroadcast' = SequentialBroadcast
    BY <1>4 DEF SequentialBroadcast
  <1>6. \A i : Nonce(i)' = Nonce(i)
    BY <1>1 DEF Nonce
  <1>7. Ordered' = Ordered
    BY <1>1, <1>4 DEF Ordered
  <1> QED
    BY <1>1, <1>2, <1>3, <1>5, <1>6, <1>7

LEMMA SameHash ==
    ASSUME UNCHANGED <<script, run>>
    PROVE  \A i : Hash(i)' = Hash(i)
  BY DEF Hash, IsUnsigned

LEMMA SameMined ==
    ASSUME UNCHANGED <<script, mined>>
    PROVE  /\ NonceOrder' = NonceOrder
           /\ \A i : OKMined(i)' = OKMined(i)
           /\ \A i : Mined(i)' = Mined(i)
           /\ ReceiptsTrue(sequence)' = ReceiptsTrue(sequence')
           /\ ReceiptsTrue(file)' = ReceiptsTrue(file')
  <1>1. \A i : Nonce(i)' = Nonce(i)
    BY SameScript
  <1>2. NonceOrder' = NonceOrder
    BY <1>1 DEF NonceOrder, MinedBy
  <1> QED
    BY <1>2 DEF OKMined, Mined, ReceiptsTrue

-----------------------------------------------------------------------------
(* The invariant                                                           *)

LEMMA InitSInv == Init => SInv
  <1> SUFFICES ASSUME Init PROVE SInv
    OBVIOUS
  <1>1. NewSequence \in Sequence
    BY DEF NewSequence, Sequence
  <1>2. STypeOK
    <2>1. mined \in Seq([hash : Hashes, ok : BOOLEAN])
      BY DEF Init
    <2>2. answers \in [Txs -> {"none", "checked", "sent", "error"}]
      BY DEF Init
    <2> QED
      BY <1>1, <2>1, <2>2 DEF Init, STypeOK
  <1>3. Len(mined) = 0 /\ DOMAIN mined = {}
    BY DEF Init
  <1>4. NonceOrder /\ ReceiptsTrue(sequence) /\ ReceiptsTrue(file)
    BY <1>3 DEF Init, NonceOrder, ReceiptsTrue, NewSequence
  <1>5. Progress
    BY DEF Init, Progress, NewSequence
  <1> QED
    BY <1>2, <1>4, <1>5 DEF SInv

\* An answer to send_transaction: the node takes what it can still mine.
LEMMA AnswerStep ==
    ASSUME SInv, NEW i \in Txs, NEW a \in {"checked", "sent", "error"},
           pc = "send", i \in index .. upto,
           answers' = [answers EXCEPT ![i] = a],
           a = "sent" => TransactionCount(i) <= Nonce(i),
           mempool' \in {mempool, (mempool \ Same(i)) \cup {Hash(i)}},
           UNCHANGED <<script, file, run, pc, sequence, index, upto, checking, errors, mined>>
    PROVE  SInv'
  <1>1. STypeOK /\ NonceOrder /\ Progress
    BY DEF SInv
  <1>2. /\ Txs' = Txs
        /\ Hashes' = Hashes
        /\ Sequence' = Sequence
    BY SameScript
  <1>3. Hash(i) \in Hashes
    BY <1>1 DEF Hash, Hashes, STypeOK
  <1>4. STypeOK'
    <2>1. answers' \in [Txs -> {"none", "checked", "sent", "error"}]
      BY <1>1 DEF STypeOK
    <2>2. mempool' \in SUBSET Hashes
      BY <1>1, <1>3 DEF STypeOK
    <2> QED
      BY <1>1, <1>2, <2>1, <2>2 DEF STypeOK
  <1>5. NonceOrder' /\ ReceiptsTrue(sequence)' /\ ReceiptsTrue(file)'
    BY SameMined DEF SInv
  <1>6. Progress'
    <2>1. Accounted
      BY <1>1 DEF Progress
    <2>2. Doomed => Doomed'
      <3> SUFFICES ASSUME Doomed PROVE Doomed'
        OBVIOUS
      <3>1. PICK j \in Txs : j >= index /\ Mined(j) /\ (j <= upto => answers[j] # "sent")
        BY DEF Doomed
      <3>2. j <= upto => answers'[j] # "sent"
        <4>1. CASE i = j
          <5>1. TransactionCount(i) > Nonce(i)
            BY <1>1, <3>1, <4>1, NonceUsed
          <5>2. TransactionCount(i) \in Nat /\ Nonce(i) \in Nat
            BY <1>1, CountType
          <5>3. a # "sent"
            BY <5>1, <5>2
          <5> QED
            BY <1>1, <4>1, <5>3 DEF STypeOK
        <4>2. CASE i # j
          BY <1>1, <3>1, <4>2 DEF STypeOK
        <4> QED
          BY <4>1, <4>2
      <3>3. Mined(j)'
        BY <3>1, SameMined
      <3> QED
        BY <1>2, <3>1, <3>2, <3>3 DEF Doomed
    <2>3. Accounted'
      <3>1. \A j : OKMined(j)' = OKMined(j)
        BY SameMined
      <3>2. \A j : Hash(j)' = Hash(j)
        BY SameHash
      <3> QED
        BY <2>1, <2>2, <3>1, <3>2 DEF Accounted
    <2> QED
      BY <1>1, <2>3 DEF Progress
  <1> QED
    BY <1>4, <1>5, <1>6 DEF SInv

LEMMA RecordHashSInv == ASSUME SInv, RecordHash PROVE SInv'
  <1>1. STypeOK /\ NonceOrder /\ Progress
    BY DEF SInv
  <1>2. /\ pc = "send"
        /\ index <= upto
        /\ answers[index] = "sent"
        /\ sequence' = AddPending(sequence, Hash(index))
        /\ file' = sequence'
        /\ index' = index + 1
        /\ UNCHANGED <<script, run, pc, upto, answers, checking, errors, mempool, mined>>
    BY DEF RecordHash, node
  <1>3. /\ Txs' = Txs
        /\ Hashes' = Hashes
        /\ Sequence' = Sequence
    BY <1>2, SameScript
  <1>4. /\ index \in Nat /\ upto \in Nat
        /\ index \in 1 .. upto + 1 /\ upto <= Len(script.from)
        /\ Txs = 1 .. Len(script.from) /\ Len(script.from) \in Nat
    BY <1>1, <1>2, ScriptLength DEF Progress, STypeOK
  <1>5. index \in Txs
    BY <1>2, <1>4
  <1>6. Hash(index) \in Hashes
    BY <1>1, <1>5 DEF Hash, Hashes, STypeOK
  <1>7. /\ sequence'.receipts = sequence.receipts
        /\ sequence'.pending = sequence.pending \cup {Hash(index)}
        /\ sequence' \in Sequence
    BY <1>1, <1>2, <1>6 DEF AddPending, Sequence, STypeOK
  <1>8. STypeOK'
    BY <1>1, <1>2, <1>3, <1>7 DEF STypeOK
  <1>9. NonceOrder' /\ ReceiptsTrue(sequence)' /\ ReceiptsTrue(file)'
    <2>1. ReceiptsTrue(sequence')
      BY <1>7 DEF SInv, ReceiptsTrue
    <2> QED
      BY <1>1, <1>2, <2>1, SameMined
  <1>10. Progress'
    <2>1. \A j : OKMined(j)' = OKMined(j) /\ Hash(j)' = Hash(j) /\ Mined(j)' = Mined(j)
      BY <1>2, SameMined, SameHash
    <2>2. index' - 1 = index /\ index' \in 1 .. upto' + 1 /\ upto' <= Len(script.from)'
      BY <1>2, <1>4
    <2>3. CASE Doomed
      <3>1. PICK j \in Txs : j >= index /\ Mined(j) /\ (j <= upto => answers[j] # "sent")
        BY <1>2, <2>3 DEF Doomed
      <3>2. j \in Nat /\ j # index
        BY <1>2, <1>4, <3>1
      <3>3. j >= index'
        BY <1>2, <1>4, <3>1, <3>2
      <3>4. Doomed'
        BY <1>2, <1>3, <2>1, <3>1, <3>3 DEF Doomed
      <3> QED
        BY <1>2, <2>2, <3>4 DEF Progress, Accounted
    <2>4. CASE ~Doomed
      <3>1. \A i \in 1 .. index - 1 : OKMined(i) \/ Hash(i) \in sequence.pending
        BY <1>1, <1>2, <2>4 DEF Progress, Accounted
      <3>2. \A i \in 1 .. index : OKMined(i) \/ Hash(i) \in sequence'.pending
        BY <1>4, <1>7, <3>1
      <3>3. Accounted'
        BY <2>1, <2>2, <3>2 DEF Accounted
      <3> QED
        BY <1>2, <2>2, <3>3 DEF Progress
    <2> QED
      BY <2>3, <2>4
  <1> QED
    BY <1>8, <1>9, <1>10 DEF SInv

\* The run ends with an error, or the process is killed.
LEMMA FailSInv == ASSUME SInv, SendFailed \/ Crash PROVE SInv'
  <1>1. STypeOK /\ NonceOrder /\ ReceiptsTrue(sequence) /\ ReceiptsTrue(file)
    BY DEF SInv
  <1>2. /\ pc' = "failed"
        /\ file' \in {sequence, file, NewSequence}
        /\ UNCHANGED <<script, run, sequence, index, upto, answers, checking, errors, mempool, mined>>
    BY DEF SendFailed, Crash, node
  <1>3. /\ Txs' = Txs
        /\ Hashes' = Hashes
        /\ Sequence' = Sequence
    BY <1>2, SameScript
  <1>4. NewSequence \in Sequence /\ ReceiptsTrue(NewSequence)
    BY DEF NewSequence, Sequence, ReceiptsTrue
  <1>5. STypeOK'
    BY <1>1, <1>2, <1>3, <1>4 DEF STypeOK
  <1>6. ReceiptsTrue(file')
    BY <1>1, <1>2, <1>4
  <1>7. NonceOrder' /\ ReceiptsTrue(sequence)' /\ ReceiptsTrue(file)'
    BY <1>1, <1>2, <1>6, SameMined
  <1>8. Progress'
    BY <1>2 DEF Progress
  <1> QED
    BY <1>5, <1>7, <1>8 DEF SInv

LEMMA BatchSentSInv == ASSUME SInv, BatchSent PROVE SInv'
  <1>1. STypeOK /\ NonceOrder /\ Progress /\ ReceiptsTrue(sequence) /\ ReceiptsTrue(file)
    BY DEF SInv
  <1>2. /\ pc = "send" /\ index > upto
        /\ pc' = "receipts"
        /\ checking' = sequence.pending
        /\ errors' = FALSE
        /\ UNCHANGED <<script, file, run, sequence, index, upto, answers, mempool, mined>>
    BY DEF BatchSent, node
  <1>3. /\ Txs' = Txs
        /\ Hashes' = Hashes
        /\ Sequence' = Sequence
    BY <1>2, SameScript
  <1>4. STypeOK'
    BY <1>1, <1>2, <1>3 DEF STypeOK, Sequence
  <1>5. NonceOrder' /\ ReceiptsTrue(sequence)' /\ ReceiptsTrue(file)'
    BY <1>1, <1>2, SameMined
  <1>6. Progress'
    <2>1. index \in Nat /\ upto \in Nat /\ index \in 1 .. upto + 1 /\ upto <= Len(script.from)
      BY <1>1, <1>2 DEF Progress, STypeOK
    <2>2. index = upto + 1
      BY <1>2, <2>1
    <2>3. \A j : OKMined(j)' = OKMined(j) /\ Hash(j)' = Hash(j) /\ Mined(j)' = Mined(j)
      BY <1>2, SameMined, SameHash
    <2>4. Doomed => Doomed'
      BY <1>2, <1>3, <2>3 DEF Doomed
    <2>5. Accounted'
      BY <1>1, <1>2, <2>3, <2>4 DEF Progress, Accounted
    <2> QED
      BY <1>2, <2>1, <2>2, <2>5 DEF Progress
  <1> QED
    BY <1>4, <1>5, <1>6 DEF SInv

LEMMA GotReceiptSInv == ASSUME SInv, NEW h \in checking, GotReceipt(h) PROVE SInv'
  <1>1. STypeOK /\ NonceOrder /\ Progress /\ ReceiptsTrue(sequence) /\ ReceiptsTrue(file)
    BY DEF SInv
  <1>2. /\ pc \in {"wait", "receipts"}
        /\ checking' = checking \ {h}
        /\ UNCHANGED <<script, file, run, pc, index, upto, answers, mempool, mined>>
    BY DEF GotReceipt, Waiting, node
  <1>3. PICK n \in Receipt(h) :
            /\ sequence' = [receipts |-> IF Succeeded(n) THEN sequence.receipts \cup {h}
                                         ELSE sequence.receipts,
                            pending |-> sequence.pending \ {h}]
            /\ errors' = (errors \/ ~Succeeded(n))
    BY DEF GotReceipt
  <1>4. /\ Txs' = Txs
        /\ Hashes' = Hashes
        /\ Sequence' = Sequence
    BY <1>2, SameScript
  <1>5. /\ h \in Hashes
        /\ n \in DOMAIN mined /\ mined[n].hash = h
        /\ Succeeded(n) \in BOOLEAN
        /\ Succeeded(n) = mined[n].ok
    BY <1>1, MinedType DEF STypeOK, Receipt, Succeeded
  <1>6. sequence.receipts \in SUBSET Hashes /\ sequence.pending \in SUBSET Hashes
    BY <1>1 DEF STypeOK, Sequence
  <1>7. /\ sequence'.pending = sequence.pending \ {h}
        /\ sequence'.receipts = IF Succeeded(n) THEN sequence.receipts \cup {h}
                                ELSE sequence.receipts
        /\ sequence' \in Sequence
    BY <1>3, <1>5, <1>6 DEF Sequence
  <1>8. STypeOK'
    <2>1. errors' \in BOOLEAN
      BY <1>1, <1>3, <1>5 DEF STypeOK
    <2>2. checking' \in SUBSET Hashes
      BY <1>1, <1>2 DEF STypeOK
    <2> QED
      BY <1>1, <1>2, <1>4, <1>7, <2>1, <2>2 DEF STypeOK
  <1>9. NonceOrder' /\ ReceiptsTrue(sequence)' /\ ReceiptsTrue(file)'
    <2>1. ReceiptsTrue(sequence')
      BY <1>1, <1>5, <1>7 DEF ReceiptsTrue
    <2> QED
      BY <1>1, <1>2, <2>1, SameMined
  <1>10. Progress'
    <2>1. pc \in {"wait", "receipts"} /\ ~errors' => sequence'.pending \subseteq checking'
      BY <1>1, <1>2, <1>3, <1>7 DEF Progress
    <2>2. ASSUME pc = "receipts" PROVE Accounted'
      <3>1. \A j : OKMined(j)' = OKMined(j) /\ Hash(j)' = Hash(j) /\ Mined(j)' = Mined(j)
        BY <1>2, SameMined, SameHash
      <3>2. CASE errors'
        BY <1>2, <2>2, <3>2 DEF Accounted
      <3>3. CASE Doomed
        <4>1. Doomed'
          BY <1>2, <1>4, <2>2, <3>1, <3>3 DEF Doomed
        <4> QED
          BY <4>1 DEF Accounted
      <3>4. CASE ~errors' /\ ~Doomed
        <4>1. ~errors /\ mined[n].ok
          BY <1>3, <1>5, <3>4
        <4>2. \A i \in 1 .. index - 1 : OKMined(i) \/ Hash(i) \in sequence.pending
          BY <1>1, <2>2, <3>4, <4>1 DEF Progress, Accounted
        <4>3. \A i \in 1 .. index - 1 : Hash(i) = h => OKMined(i)
          BY <1>5, <4>1 DEF Hash, OKMined
        <4>4. \A i \in 1 .. index - 1 : OKMined(i) \/ Hash(i) \in sequence'.pending
          BY <1>7, <4>2, <4>3
        <4> QED
          BY <1>2, <3>1, <4>4 DEF Accounted
      <3> QED
        BY <3>2, <3>3, <3>4
    <2> QED
      BY <1>1, <1>2, <2>1, <2>2 DEF Progress
  <1> QED
    BY <1>8, <1>9, <1>10 DEF SInv

LEMMA NoReceiptSInv == ASSUME SInv, NEW h \in checking, NoReceipt(h) PROVE SInv'
  <1>1. STypeOK /\ NonceOrder /\ Progress /\ ReceiptsTrue(sequence) /\ ReceiptsTrue(file)
    BY DEF SInv
  <1>2. /\ pc \in {"wait", "receipts"}
        /\ checking' = checking \ {h}
        /\ sequence' \in {sequence, [sequence EXCEPT !.pending = sequence.pending \ {h}]}
        /\ errors' = TRUE
        /\ UNCHANGED <<script, file, run, pc, index, upto, answers, mempool, mined>>
    BY DEF NoReceipt, Waiting, node
  <1>3. /\ Txs' = Txs
        /\ Hashes' = Hashes
        /\ Sequence' = Sequence
    BY <1>2, SameScript
  <1>4. sequence' \in Sequence /\ sequence'.receipts = sequence.receipts
    BY <1>1, <1>2 DEF STypeOK, Sequence
  <1>5. STypeOK'
    <2>1. errors' \in BOOLEAN /\ checking' \in SUBSET Hashes
      BY <1>1, <1>2 DEF STypeOK
    <2> QED
      BY <1>1, <1>2, <1>3, <1>4, <2>1 DEF STypeOK
  <1>6. NonceOrder' /\ ReceiptsTrue(sequence)' /\ ReceiptsTrue(file)'
    <2>1. ReceiptsTrue(sequence')
      BY <1>1, <1>4 DEF ReceiptsTrue
    <2> QED
      BY <1>1, <1>2, <2>1, SameMined
  <1>7. Progress'
    BY <1>1, <1>2 DEF Progress, Accounted
  <1> QED
    BY <1>5, <1>6, <1>7 DEF SInv

\* All transactions before the next batch have succeeded, or one from there
\* on is mined already.
LEMMA FirstOfBatch ==
    ASSUME SInv, pc \in {"wait", "receipts"}, checking = {}, ~errors,
           NEW first, first = IF pc = "wait" THEN Cardinality(sequence.receipts) + 1 ELSE upto + 1
    PROVE  /\ first \in Nat \ {0}
           /\ (\E j \in Txs : j >= first /\ Mined(j)) \/ \A i \in 1 .. first - 1 : OKMined(i)
  <1>1. STypeOK /\ NonceOrder /\ Progress /\ ReceiptsTrue(sequence)
    BY DEF SInv
  <1>2. CASE pc = "wait"
    <2> DEFINE k == Cardinality(sequence.receipts)
    <2>1. /\ k \in Nat
          /\ (\E j \in Txs : j > k /\ Mined(j)) \/ \A i \in 1 .. k : OKMined(i)
      BY <1>1, ReceiptsCount
    <2>2. first = k + 1 /\ first - 1 = k
      BY <1>2, <2>1
    <2>3. \A j \in Txs : j > k => j >= first
      BY <1>1, <2>1, <2>2, ScriptLength DEF STypeOK
    <2> HIDE DEF k
    <2> QED
      BY <2>1, <2>2, <2>3
  <1>3. CASE pc = "receipts"
    <2>1. sequence.pending = {}
      BY <1>1, <1>3 DEF Progress
    <2>2. /\ index = upto + 1 /\ upto \in Nat /\ index - 1 = upto
          /\ first = index /\ first - 1 = upto
      BY <1>1, <1>3 DEF Progress, STypeOK
    <2>3. CASE Doomed
      BY <2>2, <2>3 DEF Doomed
    <2>4. CASE ~Doomed
      <3>1. \A i \in 1 .. index - 1 : OKMined(i)
        BY <1>1, <1>3, <2>1, <2>4 DEF Progress, Accounted
      <3> QED
        BY <2>2, <3>1
    <2> QED
      BY <2>2, <2>3, <2>4
  <1> QED
    BY <1>2, <1>3

LEMMA AllCheckedSInv == ASSUME SInv, AllChecked PROVE SInv'
  <1> DEFINE first == IF pc = "wait" THEN Cardinality(sequence.receipts) + 1 ELSE upto + 1
             last == IF first + batch_size - 1 < Len(script.from) THEN first + batch_size - 1
                     ELSE Len(script.from)
  <1>1. STypeOK /\ NonceOrder /\ Progress /\ ReceiptsTrue(sequence) /\ ReceiptsTrue(file)
    BY DEF SInv
  <1>2. /\ pc \in {"wait", "receipts"}
        /\ checking = {}
        /\ file' = sequence
        /\ IF errors THEN pc' = "failed" /\ UNCHANGED <<index, upto, answers>>
           ELSE NextBatch(first)
        /\ UNCHANGED <<script, run, sequence, checking, errors, mempool, mined>>
    BY DEF AllChecked, node
  <1> HIDE DEF first
  <1>3. /\ Txs' = Txs
        /\ Hashes' = Hashes
        /\ Sequence' = Sequence
    BY <1>2, SameScript
  <1>4. NonceOrder' /\ ReceiptsTrue(sequence)' /\ ReceiptsTrue(file)'
    BY <1>1, <1>2, SameMined
  <1>5. CASE errors
    <2>1. STypeOK'
      BY <1>1, <1>2, <1>3, <1>5 DEF STypeOK
    <2>2. Progress'
      BY <1>2, <1>5 DEF Progress
    <2> QED
      BY <1>4, <2>1, <2>2 DEF SInv
  <1>6. CASE ~errors
    <2>1. /\ first \in Nat \ {0}
          /\ (\E j \in Txs : j >= first /\ Mined(j)) \/ \A i \in 1 .. first - 1 : OKMined(i)
      BY <1>2, <1>6, FirstOfBatch DEF first
    <2>2. /\ Len(script.from) \in Nat
          /\ Txs = 1 .. Len(script.from)
      BY <1>1, ScriptLength DEF STypeOK
    <2>3. NextBatch(first)
      BY <1>2, <1>6
    <2>4. \A j : OKMined(j)' = OKMined(j) /\ Mined(j)' = Mined(j)
      BY <1>2, SameMined
    <2>5. CASE first > Len(script.from)
      <3>1. pc' = "done" /\ UNCHANGED <<index, upto, answers>>
        BY <2>3, <2>5 DEF NextBatch
      <3>2. STypeOK'
        BY <1>1, <1>2, <1>3, <3>1 DEF STypeOK
      <3>3. /\ \A j \in Txs : ~(j >= first)
            /\ \A j \in Txs : j \in 1 .. first - 1
        BY <2>1, <2>2, <2>5
      <3>4. \A i \in Txs : OKMined(i)
        BY <2>1, <3>3
      <3>5. Progress'
        BY <1>3, <2>4, <3>1, <3>4 DEF Progress
      <3> QED
        BY <1>4, <3>2, <3>5 DEF SInv
    <2>6. CASE ~(first > Len(script.from))
      <3>1. /\ pc' = "send"
            /\ index' = first
            /\ upto' = last
            /\ answers' = [i \in Txs |-> "none"]
        BY <2>3, <2>6 DEF NextBatch
      <3>2. batch_size \in Nat \ {0}
        BY ScriptAssumption DEF batch_size
      <3>3. /\ last \in Nat
            /\ first <= last
            /\ last <= Len(script.from)
        BY <2>1, <2>2, <2>6, <3>2
      <3>4. STypeOK'
        <4>1. answers' \in [Txs -> {"none", "checked", "sent", "error"}]
          BY <3>1
        <4>2. index' \in Nat /\ upto' \in Nat
          BY <2>1, <3>1, <3>3
        <4> QED
          BY <1>1, <1>2, <1>3, <3>1, <4>1, <4>2 DEF STypeOK
      <3>5. Accounted'
        <4>1. CASE \E j \in Txs : j >= first /\ Mined(j)
          <5>1. PICK j \in Txs : j >= first /\ Mined(j)
            BY <4>1
          <5>2. answers'[j] # "sent"
            BY <3>1
          <5>3. Doomed'
            BY <1>3, <2>4, <3>1, <5>1, <5>2 DEF Doomed
          <5> QED
            BY <5>3 DEF Accounted
        <4>2. CASE \A i \in 1 .. first - 1 : OKMined(i)
          BY <2>4, <3>1, <4>2 DEF Accounted
        <4> QED
          BY <2>1, <4>1, <4>2
      <3>6. index' \in 1 .. upto' + 1 /\ upto' <= Len(script.from)'
        BY <1>2, <2>1, <3>1, <3>3
      <3>7. Progress'
        BY <3>1, <3>5, <3>6 DEF Progress
      <3> QED
        BY <1>4, <3>4, <3>7 DEF SInv
    <2> QED
      BY <2>5, <2>6
  <1> QED
    BY <1>5, <1>6

LEMMA ResumeSInv == ASSUME SInv, Resume PROVE SInv'
  <1>1. STypeOK /\ NonceOrder /\ ReceiptsTrue(file)
    BY DEF SInv
  <1>2. /\ run' = run + 1
        /\ pc' = "wait"
        /\ sequence' = file
        /\ checking' = file.pending
        /\ errors' = FALSE
        /\ answers' = [i \in Txs |-> "none"]
        /\ index' = 0 /\ upto' = 0
        /\ UNCHANGED <<script, file, mempool, mined>>
    BY DEF Resume, node
  <1>3. /\ Txs' = Txs
        /\ Hashes' = Hashes
        /\ Sequence' = Sequence
    BY <1>2, SameScript
  <1>4. STypeOK'
    <2>1. answers' \in [Txs -> {"none", "checked", "sent", "error"}]
      BY <1>2
    <2>2. checking' \in SUBSET Hashes
      BY <1>1, <1>2 DEF STypeOK, Sequence
    <2>3. run' \in Nat
      BY <1>1, <1>2 DEF STypeOK
    <2> QED
      BY <1>1, <1>2, <1>3, <2>1, <2>2, <2>3 DEF STypeOK
  <1>5. NonceOrder' /\ ReceiptsTrue(sequence)' /\ ReceiptsTrue(file)'
    BY <1>1, <1>2, SameMined
  <1>6. Progress'
    BY <1>2 DEF Progress
  <1> QED
    BY <1>4, <1>5, <1>6 DEF SInv

\* One more transaction is mined.
LEMMA MineStep ==
    ASSUME STypeOK, NEW h \in mempool, NEW ok \in BOOLEAN, Mine(h, ok)
    PROVE  /\ h \in Hashes
           /\ mined' \in Seq([hash : Hashes, ok : BOOLEAN])
           /\ Len(mined) \in Nat
           /\ Len(mined') = Len(mined) + 1
           /\ DOMAIN mined = 1 .. Len(mined)
           /\ DOMAIN mined' = 1 .. Len(mined) + 1
           /\ \A n \in DOMAIN mined : mined'[n] = mined[n]
           /\ mined'[Len(mined) + 1] = [hash |-> h, ok |-> ok]
  <1>1. h \in Hashes /\ [hash |-> h, ok |-> ok] \in [hash : Hashes, ok : BOOLEAN]
    BY DEF STypeOK
  <1>2. mined \in Seq([hash : Hashes, ok : BOOLEAN])
    BY DEF STypeOK
  <1>3. mined' = Append(mined, [hash |-> h, ok |-> ok])
    BY DEF Mine
  <1> QED
    BY <1>1, <1>2, <1>3

LEMMA MineSInv == ASSUME SInv, NEW h \in mempool, NEW ok \in BOOLEAN, Mine(h, ok) PROVE SInv'
  <1>1. STypeOK /\ NonceOrder /\ Progress /\ ReceiptsTrue(sequence) /\ ReceiptsTrue(file)
    BY DEF SInv
  <1>2. /\ TransactionCount(h.tx) = Nonce(h.tx)
        /\ mempool' = mempool \ {h}
        /\ UNCHANGED <<script, file, run, pc, sequence, index, upto, answers, checking, errors>>
    BY DEF Mine, process
  <1>3. /\ Txs' = Txs
        /\ Hashes' = Hashes
        /\ Sequence' = Sequence
        /\ \A i : Nonce(i)' = Nonce(i)
    BY <1>2, SameScript
  <1>4. /\ h \in Hashes
        /\ mined' \in Seq([hash : Hashes, ok : BOOLEAN])
        /\ Len(mined) \in Nat
        /\ DOMAIN mined = 1 .. Len(mined)
        /\ DOMAIN mined' = 1 .. Len(mined) + 1
        /\ \A n \in DOMAIN mined : mined'[n] = mined[n]
        /\ mined'[Len(mined) + 1] = [hash |-> h, ok |-> ok]
    BY <1>1, MineStep
  <1>5. STypeOK'
    <2>1. mempool' \in SUBSET Hashes
      BY <1>1, <1>2 DEF STypeOK
    <2> QED
      BY <1>1, <1>2, <1>3, <1>4, <2>1 DEF STypeOK
  <1>6. NonceOrder'
    <2> SUFFICES ASSUME NEW n \in DOMAIN mined'
                 PROVE  Nonce(mined'[n].hash.tx) = Cardinality(MinedBy(mined[n].hash.tx, n - 1)')
      BY <1>3 DEF NonceOrder
    <2>1. CASE n \in DOMAIN mined
      <3>1. mined'[n] = mined[n] /\ mined[n].hash.tx \in Txs
        BY <1>1, <1>4, <2>1, MinedType
      <3>2. Nonce(mined[n].hash.tx) = Cardinality(MinedBy(mined[n].hash.tx, n - 1))
        BY <1>1, <2>1 DEF NonceOrder
      <3>3. MinedBy(mined[n].hash.tx, n - 1)' = MinedBy(mined[n].hash.tx, n - 1)
        BY <1>2, <1>4, <2>1, <3>1 DEF MinedBy
      <3> QED
        BY <3>1, <3>2, <3>3
    <2>2. CASE n \notin DOMAIN mined
      <3>1. n = Len(mined) + 1 /\ n - 1 = Len(mined) /\ mined'[n].hash = h
        BY <1>4, <2>2
      <3>2. h.tx \in Txs
        BY <1>4 DEF Hashes
      <3>3. Nonce(h.tx) = Cardinality(MinedBy(h.tx, Len(mined)))
        BY <1>1, <1>2, <3>2, CountType
      <3>4. MinedBy(mined[n].hash.tx, n - 1)' = MinedBy(h.tx, Len(mined))
        BY <1>2, <1>4, <3>1 DEF MinedBy
      <3> QED
        BY <3>1, <3>3, <3>4
    <2> QED
      BY <2>1, <2>2
  <1>7. \A i : (OKMined(i) => OKMined(i)') /\ (Mined(i) => Mined(i)')
    BY <1>4 DEF OKMined, Mined
  <1>8. ReceiptsTrue(sequence)' /\ ReceiptsTrue(file)'
    BY <1>1, <1>2, <1>4 DEF ReceiptsTrue
  <1>9. Progress'
    <2>1. Doomed => Doomed'
      BY <1>2, <1>3, <1>7 DEF Doomed
    <2>2. \A i : Hash(i)' = Hash(i)
      BY <1>2, SameHash
    <2>3. Accounted => Accounted'
      BY <1>2, <1>7, <2>1, <2>2 DEF Accounted
    <2> QED
      BY <1>1, <1>2, <1>3, <1>7, <2>3 DEF Progress
  <1> QED
    BY <1>5, <1>6, <1>8, <1>9 DEF SInv

\* Forgetting a transaction, or nothing.
LEMMA ForgetSInv ==
    ASSUME SInv, mempool' \subseteq mempool,
           UNCHANGED <<script, file, run, pc, sequence, index, upto, answers, checking, errors, mined>>
    PROVE  SInv'
  <1>1. STypeOK /\ NonceOrder /\ Progress /\ ReceiptsTrue(sequence) /\ ReceiptsTrue(file)
    BY DEF SInv
  <1>2. /\ Txs' = Txs
        /\ Hashes' = Hashes
        /\ Sequence' = Sequence
    BY SameScript
  <1>3. STypeOK'
    BY <1>1, <1>2 DEF STypeOK
  <1>4. NonceOrder' /\ ReceiptsTrue(sequence)' /\ ReceiptsTrue(file)'
    BY <1>1, SameMined
  <1>5. \A i : OKMined(i)' = OKMined(i) /\ Hash(i)' = Hash(i) /\ Mined(i)' = Mined(i)
    BY SameMined, SameHash
  <1>6. Accounted' = Accounted
    BY <1>2, <1>5 DEF Accounted, Doomed
  <1>7. Progress'
    BY <1>1, <1>2, <1>5, <1>6 DEF Progress
  <1> QED
    BY <1>3, <1>4, <1>7 DEF SInv

LEMMA NextSInv == ASSUME SInv, [Next]_vars PROVE SInv'
  <1>1. ASSUME NEW i \in Txs, CheckNonce(i) PROVE SInv'
    <2> DEFINE a == IF TransactionCount(i) = Nonce(i) THEN "checked" ELSE "error"
    <2>1. a \in {"checked", "error"} /\ a # "sent"
      OBVIOUS
    <2>2. /\ pc = "send" /\ i \in index .. upto
          /\ answers' = [answers EXCEPT ![i] = a]
          /\ mempool' = mempool
          /\ UNCHANGED <<script, file, run, pc, sequence, index, upto, checking, errors, mined>>
      BY <1>1 DEF CheckNonce, node
    <2> HIDE DEF a
    <2> QED
      BY <2>1, <2>2, AnswerStep
  <1>2. ASSUME NEW i \in Txs, SendTransaction(i) PROVE SInv'
    <2>1. /\ pc = "send" /\ i \in index .. upto
          /\ TransactionCount(i) <= Nonce(i)
          /\ mempool' = (mempool \ Same(i)) \cup {Hash(i)}
          /\ answers' = [answers EXCEPT ![i] = "sent"]
          /\ UNCHANGED <<script, file, run, pc, sequence, index, upto, checking, errors, mined>>
      BY <1>2 DEF SendTransaction, Unsent, Accepts
    <2> QED
      BY <2>1, AnswerStep
  <1>3. ASSUME NEW i \in Txs, SendRejected(i) \/ AnswerLost(i) PROVE SInv'
    <2>1. /\ pc = "send" /\ i \in index .. upto
          /\ mempool' \in {mempool, (mempool \ Same(i)) \cup {Hash(i)}}
          /\ answers' = [answers EXCEPT ![i] = "error"]
          /\ UNCHANGED <<script, file, run, pc, sequence, index, upto, checking, errors, mined>>
      BY <1>3 DEF SendRejected, AnswerLost, Unsent, Accepts, node
    <2> QED
      BY <2>1, AnswerStep
  <1>4. CASE RecordHash
    BY <1>4, RecordHashSInv
  <1>5. CASE SendFailed \/ Crash
    BY <1>5, FailSInv
  <1>6. CASE BatchSent
    BY <1>6, BatchSentSInv
  <1>7. ASSUME NEW h \in checking, GotReceipt(h) PROVE SInv'
    BY <1>7, GotReceiptSInv
  <1>8. ASSUME NEW h \in checking, NoReceipt(h) PROVE SInv'
    BY <1>8, NoReceiptSInv
  <1>9. CASE AllChecked
    BY <1>9, AllCheckedSInv
  <1>10. CASE Resume
    BY <1>10, ResumeSInv
  <1>11. ASSUME NEW h \in mempool, NEW ok \in BOOLEAN, Mine(h, ok) PROVE SInv'
    BY <1>11, MineSInv
  <1>12. ASSUME NEW h \in mempool, Forget(h) PROVE SInv'
    BY <1>12, ForgetSInv DEF Forget, process
  <1>13. CASE UNCHANGED vars
    BY <1>13, ForgetSInv DEF vars, process, node
  <1> QED
    BY <1>1, <1>2, <1>3, <1>4, <1>5, <1>6, <1>7, <1>8, <1>9, <1>10, <1>11, <1>12, <1>13
    DEF Next, ProcessStep

LEMMA AlwaysSInv == Spec => []SInv
  <1>1. Init => SInv
    BY InitSInv
  <1>2. SInv /\ [Next]_vars => SInv'
    BY NextSInv
  <1> QED
    BY <1>1, <1>2, PTL DEF Spec

(* When the script says that the execution is complete and successful,     *)
(* every transaction was mined and succeeded: counting the receipts to     *)
(* find where to resume, also from a file that lacks some, never skips a   *)
(* transaction without failing later.  This holds for every script, also   *)
(* with signed transactions that are mined out of order.                   *)
THEOREM CompleteIsAll == Spec => []CompleteMeansAll
  <1>1. SInv => CompleteMeansAll
    BY DEF SInv, Progress, OKMined, CompleteMeansAll
  <1> QED
    BY <1>1, AlwaysSInv, PTL

-----------------------------------------------------------------------------
(* The order of the script                                                 *)

\* The transactions mined are the first of the script, one after the other.
Prefix == \A n \in DOMAIN mined : mined[n].hash.tx = n

\* With sequential_broadcast the node never has more than the next
\* transaction to mine, whatever an earlier run has left there.
OneAhead ==
    SequentialBroadcast =>
        /\ \A h \in mempool : h.tx <= Len(mined) + 1
        /\ pc = "send" /\ index <= upto => index = upto /\ index <= Len(mined) + 1

OInv == Ordered => Prefix /\ OneAhead

LEMMA PrefixMined ==
    ASSUME STypeOK, Prefix, NEW i \in Txs
    PROVE  Mined(i) <=> i <= Len(mined)
  <1>1. Len(mined) \in Nat /\ DOMAIN mined = 1 .. Len(mined)
    BY MinedType
  <1>2. i \in Nat \ {0}
    BY ScriptLength DEF STypeOK
  <1> QED
    BY <1>1, <1>2 DEF Mined, Prefix

\* With one sender, a transaction has to wait for all those before it.
LEMMA NonceAhead ==
    ASSUME STypeOK, Prefix, Ordered, ~SequentialBroadcast, NEW i \in Txs, i > Len(mined) + 1
    PROVE  TransactionCount(i) < Nonce(i)
  <1> DEFINE counted == MinedBy(i, Len(mined))
             before == {j \in Txs : j < i /\ script.from[j] = script.from[i]}
             next == Len(mined) + 1
  <1>1. /\ TransactionCount(i) = Cardinality(counted)
        /\ Nonce(i) = Cardinality(before)
    BY CountType DEF Nonce
  <1>2. /\ Len(mined) \in Nat
        /\ DOMAIN mined = 1 .. Len(mined)
        /\ i \in Nat \ {0}
        /\ Txs = 1 .. Len(script.from)
        /\ Len(script.from) \in Nat
    BY MinedType, ScriptLength DEF STypeOK
  <1>3. \A j \in Txs : script.from[j] = script.from[i]
    BY DEF Ordered, SequentialBroadcast
  <1>4. before = 1 .. i - 1
    BY <1>2, <1>3
  <1>5. counted \subseteq 1 .. Len(mined)
    BY DEF MinedBy
  <1>6. counted \cup {next} \subseteq before /\ next \notin counted
    BY <1>2, <1>4, <1>5
  <1>7. IsFiniteSet(before)
    <2>1. IsFiniteSet(1 .. i - 1)
      BY <1>2, FS_Interval
    <2> QED
      BY <1>4, <2>1
  <1> HIDE DEF counted, before
  <1>8. IsFiniteSet(counted)
    BY <1>6, <1>7, FS_Subset
  <1>9. Cardinality(counted \cup {next}) = Cardinality(counted) + 1
    BY <1>6, <1>8, FS_AddElement
  <1>10. Cardinality(counted \cup {next}) <= Cardinality(before)
    BY <1>6, <1>7, FS_Subset
  <1>11. Cardinality(counted) \in Nat /\ Cardinality(before) \in Nat
    BY <1>7, <1>8, FS_CardinalityType
  <1> QED
    BY <1>1, <1>9, <1>10, <1>11

\* The node can mine the next transaction of the script and no other.
LEMMA MinesNext ==
    ASSUME SInv, Ordered, Prefix, OneAhead,
           NEW h \in mempool, TransactionCount(h.tx) = Nonce(h.tx)
    PROVE  h.tx = Len(mined) + 1
  <1>1. STypeOK /\ NonceOrder
    BY DEF SInv
  <1>2. h.tx \in Txs /\ h.tx \in Nat /\ Len(mined) \in Nat
    BY <1>1, ScriptLength, MinedType DEF STypeOK, Hashes
  <1>3. TransactionCount(h.tx) \in Nat /\ Nonce(h.tx) \in Nat
    BY <1>1, <1>2, CountType
  <1>4. ~(h.tx <= Len(mined))
    <2>1. h.tx <= Len(mined) => TransactionCount(h.tx) > Nonce(h.tx)
      BY <1>1, <1>2, NonceUsed, PrefixMined
    <2> QED
      BY <1>3, <2>1
  <1>5. ~(h.tx > Len(mined) + 1)
    <2>1. CASE SequentialBroadcast
      BY <1>2, <2>1 DEF OneAhead
    <2>2. CASE ~SequentialBroadcast
      <3>1. h.tx > Len(mined) + 1 => TransactionCount(h.tx) < Nonce(h.tx)
        BY <1>1, <1>2, <2>2, NonceAhead
      <3> QED
        BY <1>3, <3>1
    <2> QED
      BY <2>1, <2>2
  <1> QED
    BY <1>2, <1>4, <1>5

\* The next batch does not start behind the next transaction to mine.
LEMMA NotBehind ==
    ASSUME SInv, Prefix, pc \in {"wait", "receipts"}, checking = {}, ~errors,
           NEW first, first = IF pc = "wait" THEN Cardinality(sequence.receipts) + 1 ELSE upto + 1
    PROVE  first \in Nat /\ first <= Len(mined) + 1
  <1>1. STypeOK /\ NonceOrder /\ Progress /\ ReceiptsTrue(sequence)
    BY DEF SInv
  <1>2. Len(mined) \in Nat
    BY <1>1, MinedType
  <1>3. /\ first \in Nat \ {0}
        /\ (\E j \in Txs : j >= first /\ Mined(j)) \/ \A i \in 1 .. first - 1 : OKMined(i)
    BY FirstOfBatch
  <1>4. CASE pc = "wait"
    BY <1>1, <1>2, <1>4, ReceiptsCount
  <1>5. CASE pc = "receipts"
    <2>1. CASE \E j \in Txs : j >= first /\ Mined(j)
      <3>1. PICK j \in Txs : j >= first /\ Mined(j)
        BY <2>1
      <3>2. j \in Nat /\ j <= Len(mined)
        BY <1>1, <3>1, PrefixMined, ScriptLength DEF STypeOK
      <3> QED
        BY <1>2, <1>3, <3>1, <3>2
    <2>2. CASE \A i \in 1 .. first - 1 : OKMined(i)
      <3>1. CASE first = 1
        BY <1>2, <3>1
      <3>2. CASE first # 1
        <4>1. first - 1 \in 1 .. first - 1
          BY <1>3, <3>2
        <4>2. PICK n \in DOMAIN mined : mined[n].hash.tx = first - 1
          BY <2>2, <4>1 DEF OKMined
        <4>3. n = first - 1 /\ n <= Len(mined)
          BY <1>1, <4>2, MinedType DEF Prefix
        <4> QED
          BY <1>2, <1>3, <4>3
      <3> QED
        BY <3>1, <3>2
    <2> QED
      BY <1>3, <2>1, <2>2
  <1> QED
    BY <1>4, <1>5

LEMMA InitOInv == Init => OInv
  <1> SUFFICES ASSUME Init PROVE Prefix /\ OneAhead
    BY DEF OInv
  <1>1. DOMAIN mined = {} /\ mempool = {} /\ pc = "wait"
    BY DEF Init
  <1> QED
    BY <1>1 DEF Prefix, OneAhead

\* A step that sends and mines nothing, and starts no batch.
LEMMA QuietOInv ==
    ASSUME OInv, UNCHANGED <<script, mined>>, mempool' \subseteq mempool,
           pc' # "send" \/ UNCHANGED <<pc, index, upto>>
    PROVE  OInv'
  <1>1. SequentialBroadcast' = SequentialBroadcast /\ Ordered' = Ordered
    BY SameScript
  <1>2. SUFFICES ASSUME Prefix, OneAhead PROVE Prefix' /\ OneAhead'
    BY <1>1 DEF OInv
  <1>3. Prefix'
    BY <1>2 DEF Prefix
  <1>4. OneAhead'
    BY <1>1, <1>2 DEF OneAhead
  <1> QED
    BY <1>3, <1>4

\* Of a sequential broadcast the node gets the one transaction of the batch.
LEMMA SendOInv ==
    ASSUME SInv, OInv, NEW i \in Txs, pc = "send", i \in index .. upto,
           mempool' \in {mempool, (mempool \ Same(i)) \cup {Hash(i)}},
           UNCHANGED <<script, pc, index, upto, mined>>
    PROVE  OInv'
  <1>1. SequentialBroadcast' = SequentialBroadcast /\ Ordered' = Ordered
    BY SameScript
  <1>2. SUFFICES ASSUME Prefix, OneAhead PROVE Prefix' /\ OneAhead'
    BY <1>1 DEF OInv
  <1>3. index \in Nat /\ upto \in Nat /\ i \in Nat /\ index <= i /\ i <= upto /\ index <= upto
    BY DEF SInv, STypeOK
  <1>4. Prefix'
    BY <1>2 DEF Prefix
  <1>5. OneAhead'
    <2> SUFFICES ASSUME SequentialBroadcast
                 PROVE  /\ \A h \in mempool' : h.tx <= Len(mined) + 1
                        /\ index = upto /\ index <= Len(mined) + 1
      BY <1>1 DEF OneAhead
    <2>1. index = upto /\ index <= Len(mined) + 1
      BY <1>2, <1>3 DEF OneAhead
    <2>2. i = index /\ Hash(i).tx = i
      BY <1>3, <2>1 DEF Hash
    <2> QED
      BY <1>2, <2>1, <2>2 DEF OneAhead
  <1> QED
    BY <1>4, <1>5

LEMMA RecordHashOInv == ASSUME SInv, OInv, RecordHash PROVE OInv'
  <1>1. /\ pc = "send" /\ index <= upto /\ index' = index + 1
        /\ UNCHANGED <<script, pc, upto, mempool, mined>>
    BY DEF RecordHash, node
  <1>2. SequentialBroadcast' = SequentialBroadcast /\ Ordered' = Ordered
    BY <1>1, SameScript
  <1>3. SUFFICES ASSUME Prefix, OneAhead PROVE Prefix' /\ OneAhead'
    BY <1>2 DEF OInv
  <1>4. index \in Nat /\ upto \in Nat
    BY DEF SInv, STypeOK
  <1>5. Prefix'
    BY <1>1, <1>3 DEF Prefix
  <1>6. SequentialBroadcast => ~(index' <= upto')
    BY <1>1, <1>3, <1>4 DEF OneAhead
  <1>7. OneAhead'
    BY <1>1, <1>2, <1>3, <1>6 DEF OneAhead
  <1> QED
    BY <1>5, <1>7

LEMMA AllCheckedOInv == ASSUME SInv, OInv, AllChecked PROVE OInv'
  <1> DEFINE first == IF pc = "wait" THEN Cardinality(sequence.receipts) + 1 ELSE upto + 1
  <1>1. /\ pc \in {"wait", "receipts"}
        /\ checking = {}
        /\ IF errors THEN pc' = "failed" /\ UNCHANGED <<index, upto, answers>>
           ELSE NextBatch(first)
        /\ UNCHANGED <<script, mempool, mined>>
    BY DEF AllChecked, node
  <1> HIDE DEF first
  <1>2. SequentialBroadcast' = SequentialBroadcast /\ Ordered' = Ordered
    BY <1>1, SameScript
  <1>3. CASE pc' # "send"
    BY <1>1, <1>3, QuietOInv
  <1>4. CASE pc' = "send"
    <2> SUFFICES ASSUME Prefix, OneAhead PROVE Prefix' /\ OneAhead'
      BY <1>2 DEF OInv
    <2>1. ~errors /\ NextBatch(first)
      BY <1>1, <1>4
    <2>2. /\ ~(first > Len(script.from))
          /\ index' = first
          /\ upto' = IF first + batch_size - 1 < Len(script.from) THEN first + batch_size - 1
                     ELSE Len(script.from)
      BY <1>4, <2>1 DEF NextBatch
    <2>3. first \in Nat /\ first <= Len(mined) + 1
      BY <1>1, <2>1, NotBehind DEF first
    <2>4. Len(script.from) \in Nat
      BY ScriptLength DEF SInv, STypeOK
    <2>5. SequentialBroadcast => batch_size = 1
      BY DEF batch_size
    <2>6. SequentialBroadcast => upto' = first
      BY <2>2, <2>3, <2>4, <2>5
    <2>7. Prefix'
      BY <1>1 DEF Prefix
    <2>8. OneAhead'
      BY <1>1, <1>2, <2>2, <2>3, <2>6 DEF OneAhead
    <2> QED
      BY <2>7, <2>8
  <1> QED
    BY <1>3, <1>4

LEMMA MineOInv ==
    ASSUME SInv, OInv, NEW h \in mempool, NEW ok \in BOOLEAN, Mine(h, ok)
    PROVE  OInv'
  <1>1. /\ TransactionCount(h.tx) = Nonce(h.tx)
        /\ mempool' = mempool \ {h}
        /\ UNCHANGED <<script, pc, index, upto>>
    BY DEF Mine, process
  <1>2. SequentialBroadcast' = SequentialBroadcast /\ Ordered' = Ordered
    BY <1>1, SameScript
  <1>3. SUFFICES ASSUME Ordered, Prefix, OneAhead PROVE Prefix' /\ OneAhead'
    BY <1>2 DEF OInv
  <1>4. h.tx = Len(mined) + 1
    BY <1>1, <1>3, MinesNext
  <1>5. /\ Len(mined) \in Nat
        /\ Len(mined') = Len(mined) + 1
        /\ DOMAIN mined = 1 .. Len(mined)
        /\ DOMAIN mined' = 1 .. Len(mined) + 1
        /\ \A n \in DOMAIN mined : mined'[n] = mined[n]
        /\ mined'[Len(mined) + 1] = [hash |-> h, ok |-> ok]
    BY MineStep DEF SInv
  <1>6. Prefix'
    BY <1>3, <1>4, <1>5 DEF Prefix
  <1>7. OneAhead'
    <2>1. \A g \in mempool : g.tx \in Nat
      BY ScriptLength DEF SInv, STypeOK, Hashes
    <2>2. index \in Nat
      BY DEF SInv, STypeOK
    <2> QED
      BY <1>1, <1>2, <1>3, <1>5, <2>1, <2>2 DEF OneAhead
  <1> QED
    BY <1>6, <1>7

LEMMA NextOInv == ASSUME SInv, OInv, [Next]_vars PROVE OInv'
  <1>1. ASSUME NEW i \in Txs,
               CheckNonce(i) \/ SendTransaction(i) \/ SendRejected(i) \/ AnswerLost(i)
        PROVE  OInv'
    <2>1. /\ pc = "send" /\ i \in index .. upto
          /\ mempool' \in {mempool, (mempool \ Same(i)) \cup {Hash(i)}}
          /\ UNCHANGED <<script, pc, index, upto, mined>>
      BY <1>1 DEF CheckNonce, SendTransaction, SendRejected, AnswerLost, Unsent, Accepts, node
    <2> QED
      BY <2>1, SendOInv
  <1>2. CASE RecordHash
    BY <1>2, RecordHashOInv
  <1>3. CASE SendFailed \/ Crash \/ BatchSent \/ Resume
    BY <1>3, QuietOInv DEF SendFailed, Crash, BatchSent, Resume, node
  <1>4. ASSUME NEW h \in checking, GotReceipt(h) \/ NoReceipt(h) PROVE OInv'
    BY <1>4, QuietOInv DEF GotReceipt, NoReceipt, node
  <1>5. CASE AllChecked
    BY <1>5, AllCheckedOInv
  <1>6. ASSUME NEW h \in mempool, NEW ok \in BOOLEAN, Mine(h, ok) PROVE OInv'
    BY <1>6, MineOInv
  <1>7. ASSUME NEW h \in mempool, Forget(h) PROVE OInv'
    BY <1>7, QuietOInv DEF Forget, process
  <1>8. CASE UNCHANGED vars
    BY <1>8, QuietOInv DEF vars, process, node
  <1> QED
    BY <1>1, <1>2, <1>3, <1>4, <1>5, <1>6, <1>7, <1>8 DEF Next, ProcessStep

(* broadcast and --resume never get the transactions of a script out of    *)
(* order on the chain: whatever was lost, forgotten, replaced or left over *)
(* from a run that was cut off, those mined are the first ones of the      *)
(* script, each once.  The scripts are those with one sender and those     *)
(* that are sent one by one, because of --slow or of several signers; a    *)
(* batch of one signer that also holds signed transactions of another has  *)
(* no order.                                                               *)
THEOREM MinedInOrder == Spec => []InOrder
  <1>1. Init => OInv
    BY InitOInv
  <1>2. SInv /\ OInv /\ [Next]_vars => OInv'
    BY NextOInv
  <1>3. OInv => InOrder
    BY DEF OInv, Prefix, InOrder
  <1> QED
    BY <1>1, <1>2, <1>3, AlwaysSInv, PTL DEF Spec
=============================================================================
