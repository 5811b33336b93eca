--------------------------- MODULE ScriptBroadcast ---------------------------
(***************************************************************************)
(* forge script --broadcast and --resume (crates/script, script-sequence): *)
(* the transactions of a script are sent in batches, every hash the node   *)
(* returns is recorded as pending and the sequence saved to a file, then   *)
(* the receipts of the batch are waited for.  The process may die at any   *)
(* time; --resume loads the file, waits for what was pending and sends the *)
(* transactions from number receipts.len() on.                             *)
(*                                                                         *)
(* Transaction i of the script has a fixed sender and nonce.  Fees are     *)
(* estimated once per run, so that its hash depends on the run: a hash is  *)
(* a pair of transaction and run.  One that the script was given signed    *)
(* (vm.broadcastRawTransaction) has the same hash in every run.  The node  *)
(* is external: it accepts a transaction whose nonce is not used up, may   *)
(* replace one with the same nonce, mines in nonce order, and may forget a *)
(* transaction.                                                            *)
(***************************************************************************)
EXTENDS Naturals, FiniteSets, Sequences

CONSTANTS
    Scripts,        \* the scripts: the senders, which are signed, is it slow
    MaxTxs,         \* their greatest length
    BatchSize,      \* --batch-size
    MaxRuns,        \* bound on the runs
    MaxFaults       \* bound on failing requests and forgotten transactions

ASSUME ScriptAssumption ==
    /\ BatchSize \in Nat \ {0}
    /\ {MaxTxs, MaxRuns, MaxFaults} \subseteq Nat
    /\ \A s \in Scripts : /\ DOMAIN s = {"from", "signed", "slow"}
                          /\ Len(s.from) \in 1 .. MaxTxs
                          /\ DOMAIN s.from = 1 .. Len(s.from)
                          /\ s.slow \in BOOLEAN

VARIABLES
    script,         \* from, signed, slow: --slow, or a chain without batches
    pc,             \* where the process is
    sequence,       \* ScriptSequence: receipts and pending
    file,           \* what was saved of it
    run,            \* number of this run
    index, upto,    \* the next transaction to record, the last of the batch
    answers,        \* transaction -> what its send_transaction returned
    checking,       \* hashes whose receipt is being waited for
    errors,         \* did wait_for_pending collect an error
    faults,         \* faults so far
    mempool,        \* external: hashes the node knows
    forgot,         \* external: hashes it has forgotten
    mined           \* external: the transactions mined, in order

process == <<pc, sequence, index, upto, answers, checking, errors>>
node == <<mempool, forgot, mined>>
vars == <<script, file, run, faults, process, node>>

Txs == DOMAIN script.from

IsUnsigned(i) == i \notin script.signed

Nonce(i) == Cardinality({j \in Txs : j < i /\ script.from[j] = script.from[i]})

\* external: eth_getTransactionCount of the sender at the latest block
TransactionCount(i) ==
    Cardinality({n \in DOMAIN mined : script.from[mined[n].hash.tx] = script.from[i]})

Hash(i) == [tx |-> i, run |-> IF IsUnsigned(i) THEN run ELSE 0]

NewSequence == [receipts |-> {}, pending |-> {}]

Init ==
    /\ script \in Scripts
    /\ pc = "wait"
    /\ sequence = NewSequence
    /\ file = NewSequence
    /\ run = 1
    /\ index = 0 /\ upto = 0
    /\ answers = [i \in Txs |-> "none"]
    /\ checking = {}
    /\ errors = FALSE
    /\ faults = 0
    /\ mempool = {} /\ forgot = {}
    /\ mined = <<>>

-----------------------------------------------------------------------------
(* broadcast                                                               *)

\* Those whose wallets are needed; who signed what is signed already is not asked.
required_addresses == {script.from[i] : i \in {j \in Txs : IsUnsigned(j)}}

\* Slip: only --slow counts.
SequentialIfSlow == script.slow

(* More than one signer: "There would be no way of assuring their order    *)
(* otherwise".                                                             *)
SequentialBroadcast == script.slow \/ Cardinality(required_addresses) # 1

batch_size == IF SequentialBroadcast THEN 1 ELSE BatchSize

\* Starts on the batch from `first'; after the last one all is done.
NextBatch(first) ==
    IF first > Len(script.from)
    THEN /\ pc' = "done"
         /\ UNCHANGED <<index, upto, answers>>
    ELSE /\ pc' = "send"
         /\ index' = first
         /\ upto' = IF first + batch_size - 1 < Len(script.from) THEN first + batch_size - 1
                    ELSE Len(script.from)
         /\ answers' = [i \in Txs |-> "none"]

(* send_transaction of a transaction of the batch, up to the request; with *)
(* sequential_broadcast it compares the nonce first, unless it is signed.  *)
ChecksNonce(i) == SequentialBroadcast /\ IsUnsigned(i)

CheckNonce(i) ==
    /\ pc = "send" /\ i \in index .. upto
    /\ ChecksNonce(i)
    /\ answers[i] = "none"
    /\ answers' = [answers EXCEPT ![i] = IF TransactionCount(i) = Nonce(i) THEN "checked"
                                         ELSE "error"]
    /\ UNCHANGED <<script, file, run, faults, pc, sequence, index, upto, checking, errors, node>>

Unsent(i) ==
    /\ pc = "send" /\ i \in index .. upto
    /\ answers[i] = IF ChecksNonce(i) THEN "checked" ELSE "none"

Same(i) == {h \in mempool : h.tx = i}

(* The node accepts it: the nonce is not used up, and no transaction with  *)
(* the same nonce is known or this one replaces it.                        *)
Accepts(i) ==
    /\ TransactionCount(i) <= Nonce(i)
    /\ mempool' = (mempool \ Same(i)) \cup {Hash(i)}

SendTransaction(i) ==
    /\ Unsent(i)
    /\ Accepts(i)
    /\ answers' = [answers EXCEPT ![i] = "sent"]
    /\ UNCHANGED <<script, file, run, faults, pc, sequence, index, upto, checking, errors, forgot, mined>>

(* The nonce is used up, or the transaction known or underpriced. *)
SendRejected(i) ==
    /\ Unsent(i)
    /\ TransactionCount(i) > Nonce(i) \/ Same(i) # {}
    /\ answers' = [answers EXCEPT ![i] = "error"]
    /\ UNCHANGED <<script, file, run, faults, pc, sequence, index, upto, checking, errors, node>>

(* The request fails.  If the answer is what was lost, the node has the    *)
(* transaction.                                                            *)
AnswerLost(i) ==
    /\ faults < MaxFaults
    /\ Unsent(i)
    /\ Accepts(i) \/ UNCHANGED mempool
    /\ faults' = faults + 1
    /\ answers' = [answers EXCEPT ![i] = "error"]
    /\ UNCHANGED <<script, file, run, pc, sequence, index, upto, checking, errors, forgot, mined>>

\* Slip: keeps the hash the transaction had in the first run.
AddFirstHash(s, h) == [s EXCEPT !.pending = @ \cup {[h EXCEPT !.run = IF @ = 0 THEN 0 ELSE 1]}]

\* add_pending
AddPending(s, h) == [s EXCEPT !.pending = @ \cup {h}]

(* The answers are taken in the order of the transactions (`buffered').    *)
(* Each hash is recorded and the sequence saved.                           *)
RecordHash ==
    /\ pc = "send" /\ index <= upto
    /\ answers[index] = "sent"
    /\ sequence' = AddPending(sequence, Hash(index))
    /\ file' = sequence'
    /\ index' = index + 1
    /\ UNCHANGED <<script, run, faults, pc, upto, answers, checking, errors, node>>

(* "Failed to send transaction": the other requests of the batch are       *)
(* dropped, whether or not the node has them.  Dropping the sequence saves *)
(* it.                                                                     *)
SendFailed ==
    /\ pc = "send" /\ index <= upto
    /\ answers[index] = "error"
    /\ pc' = "failed"
    /\ file' = sequence
    /\ UNCHANGED <<script, run, faults, sequence, index, upto, answers, checking, errors, node>>

BatchSent ==
    /\ pc = "send" /\ index > upto
    /\ pc' = "receipts"
    /\ checking' = sequence.pending
    /\ errors' = FALSE
    /\ UNCHANGED <<script, file, run, faults, sequence, index, upto, answers, node>>

-----------------------------------------------------------------------------
(* wait_for_pending, at the start of a run ("wait") and after every batch  *)

Waiting(h) == pc \in {"wait", "receipts"} /\ h \in checking

Receipt(h) == {n \in DOMAIN mined : mined[n].hash = h}

\* Slip: a reverted transaction counts as executed.
Executed(n) == TRUE

\* The status of a receipt.
Succeeded(n) == mined[n].ok

(* check_tx_status finds the receipt: a success moves to receipts; a       *)
(* failure leaves pending and is an error.                                 *)
GotReceipt(h) ==
    /\ Waiting(h)
    /\ checking' = checking \ {h}
    /\ \E n \in Receipt(h) :
         /\ sequence' = [receipts |-> IF Succeeded(n) THEN sequence.receipts \cup {h}
                                      ELSE sequence.receipts,
                         pending |-> sequence.pending \ {h}]
         /\ errors' = (errors \/ ~Succeeded(n))
    /\ UNCHANGED <<script, file, run, faults, pc, index, upto, answers, node>>

(* It gives up: eth_getTransactionByHash failed, which counts as dropped,  *)
(* or watching failed four times, which leaves the hash pending.  If there *)
(* is just no receipt in time it tries again for ever, even if the node    *)
(* answers that it does not know the transaction.                          *)
NoReceipt(h) ==
    /\ Waiting(h)
    /\ faults < MaxFaults
    /\ faults' = faults + 1
    /\ checking' = checking \ {h}
    /\ sequence' \in {sequence, [sequence EXCEPT !.pending = @ \ {h}]}
    /\ errors' = TRUE
    /\ UNCHANGED <<script, file, run, pc, index, upto, answers, node>>

(* All are checked; the sequence is saved. *)
AllChecked ==
    /\ pc \in {"wait", "receipts"}
    /\ checking = {}
    /\ file' = sequence
    /\ IF errors THEN pc' = "failed" /\ UNCHANGED <<index, upto, answers>>
       ELSE NextBatch(IF pc = "wait" THEN Cardinality(sequence.receipts) + 1 ELSE upto + 1)
    /\ UNCHANGED <<script, run, faults, sequence, checking, errors, node>>

-----------------------------------------------------------------------------
(* Crash and resume                                                        *)

Running == pc \in {"wait", "send", "receipts"}

(* The process is killed.  A file that is being written is lost, and the   *)
(* one of the dry run takes its place.                                     *)
Crash ==
    /\ Running
    /\ run < MaxRuns
    /\ pc' = "failed"
    /\ file' \in {file, NewSequence}
    /\ UNCHANGED <<script, run, faults, sequence, index, upto, answers, checking, errors, node>>

(* --resume *)
Resume ==
    /\ pc = "failed"
    /\ run < MaxRuns
    /\ run' = run + 1
    /\ pc' = "wait"
    /\ sequence' = file
    /\ checking' = file.pending
    /\ errors' = FALSE
    /\ answers' = [i \in Txs |-> "none"]
    /\ index' = 0 /\ upto' = 0
    /\ UNCHANGED <<script, file, faults, node>>

-----------------------------------------------------------------------------
(* The node                                                                *)

Mine(h, ok) ==
    /\ h \in mempool
    /\ TransactionCount(h.tx) = Nonce(h.tx)
    /\ mined' = Append(mined, [hash |-> h, ok |-> ok])
    /\ mempool' = mempool \ {h}
    /\ UNCHANGED <<script, file, run, faults, process, forgot>>

Forget(h) ==
    /\ faults < MaxFaults
    /\ h \in mempool
    /\ faults' = faults + 1
    /\ mempool' = mempool \ {h}
    /\ forgot' = forgot \cup {h}
    /\ UNCHANGED <<script, file, run, process, mined>>

ProcessStep ==
    \/ \E i \in Txs : CheckNonce(i)
    \/ \E i \in Txs : SendTransaction(i) \/ SendRejected(i)
    \/ RecordHash
    \/ SendFailed
    \/ BatchSent
    \/ \E h \in checking : GotReceipt(h)
    \/ AllChecked

Next ==
    \/ ProcessStep
    \/ \E i \in Txs : AnswerLost(i)
    \/ \E h \in checking : NoReceipt(h)
    \/ Crash
    \/ Resume
    \/ \E h \in mempool : \E ok \in BOOLEAN : Mine(h, ok)
    \/ \E h \in mempool : Forget(h)

Spec == Init /\ [][Next]_vars

(* The process runs on, and the node mines what it can.  Nobody has to     *)
(* resume.                                                                 *)
Fairness ==
    /\ WF_vars(ProcessStep)
    /\ WF_vars(\E h \in mempool : \E ok \in BOOLEAN : Mine(h, ok))

FairSpec == Spec /\ Fairness

-----------------------------------------------------------------------------
(* "ONCHAIN EXECUTION COMPLETE & SUCCESSFUL": then every transaction of    *)
(* the script was mined once and succeeded, whatever crashes, lost answers *)
(* and reverts came before.                                                *)
CompleteMeansAll ==
    pc = "done" =>
        \A i \in Txs : \E n \in DOMAIN mined : mined[n].hash.tx = i /\ mined[n].ok

\* The scripts with --slow, of one sender, or of several signers: all but those
\* that mix one signer's transactions with signed ones of others.
Ordered ==
    \/ script.slow
    \/ \A i, j \in Txs : script.from[i] = script.from[j]
    \/ Cardinality(required_addresses) # 1

(* The transactions are mined in the order of the script, also those of    *)
(* different senders, also if an earlier run was cut off.  Batches of one  *)
(* signer with signed transactions of another have no order (README,       *)
(* Divergences): those apart, no answer, crash or leftover of an earlier   *)
(* run brings a later transaction before an earlier one.                   *)
InOrder ==
    Ordered => \A m, n \in DOMAIN mined : m < n => mined[m].hash.tx < mined[n].hash.tx

(* Every run ends, successful or not, unless the node forgets a            *)
(* transaction: no receipt is waited for that cannot come because the      *)
(* transaction before it was never sent, or was replaced.                  *)
Ends == Running ~> (~Running \/ forgot # {})

(* The comment of wait_for_pending: a transaction that "has not confirmed, *)
(* and cannot be found in the mempool" is removed from pending "so that it *)
(* will be rebroadcast in later steps".                                    *)
ForgottenRemoved ==
    \A h \in [tx : 1 .. MaxTxs, run : 0 .. MaxRuns] :
        (Running /\ h \in checking \cap forgot) ~> ~(Running /\ h \in checking)

(* Not kept by the code (README, Divergences).                             *)
(* InOrder for every script.                                               *)
AlwaysInOrder ==
    \A m, n \in DOMAIN mined : m < n => mined[m].hash.tx < mined[n].hash.tx
==============================================================================
