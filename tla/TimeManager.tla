---------------------------- MODULE TimeManager ----------------------------
(***************************************************************************)
(* anvil's TimeManager (crates/anvil/src/eth/backend/time.rs).             *)
(*                                                                         *)
(* Its four fields have a lock each, so a method that uses several is not  *)
(* atomic.  next_timestamp is called by the one thread that mines a block; *)
(* the other methods by RPC handlers at any time.  A step is one write or  *)
(* one group of reads.                                                     *)
(***************************************************************************)
EXTENDS Integers

CONSTANTS
    Requests,       \* RPC requests in flight at the same time
    U64,            \* 2^64
    MaxNow,         \* bound on the system clock
    Seconds,        \* arguments of evm_increaseTime and the interval
    Timestamps,     \* arguments of evm_setNextBlockTimestamp
    Resets,         \* arguments of evm_setTime, or of a revert or rollback
    MaxOffset,      \* bound on the offset
    MaxLast,        \* bound: no block after one with a later timestamp
    None            \* no value

ASSUME TimeAssumption ==
    /\ U64 \in Nat \ {0}
    /\ MaxNow \in Nat
    /\ MaxOffset \in Nat
    /\ MaxLast \in Nat
    /\ Timestamps \subseteq 0 .. U64 - 1
    /\ Resets \subseteq 0 .. U64 - 1
    /\ Seconds \subseteq 0 .. U64 - 1
    /\ None \notin Int

VARIABLES
    now,                    \* seconds since the epoch
    offset,
    last_timestamp,
    next_exact_timestamp,
    interval,
    clock_pc,               \* where next_timestamp is
    local,                  \* its locals
    request,                \* the requests in flight
    accepted,               \* the exact timestamp last accepted, until used
    block,                  \* the timestamp of the last block
    wasReset                \* was the time reset since that block

fields == <<offset, last_timestamp, next_exact_timestamp, interval>>
history == <<accepted, block, wasReset>>
timeVars == <<now, fields, clock_pc, local, request, history>>

NoLocals == [now |-> 0, last |-> 0, next |-> 0, offset |-> None]

NoRequest == [at |-> "none", timestamp |-> 0, now |-> 0]

TimeInit ==
    /\ now \in 0 .. MaxNow
    /\ \E start \in Resets \cup {0} :
         /\ last_timestamp = start
         /\ offset = start - now
         /\ block = start
    /\ next_exact_timestamp = None
    /\ interval = None
    /\ clock_pc = "idle"
    /\ local = NoLocals
    /\ request = [r \in Requests |-> NoRequest]
    /\ accepted = None
    /\ wasReset = FALSE

Tick ==
    /\ now < MaxNow
    /\ now' = now + 1
    /\ UNCHANGED <<fields, clock_pc, local, request, history>>

-----------------------------------------------------------------------------
(* Requests                                                                *)

Arrives(r) == request[r] = NoRequest

IncreaseTime(r, seconds) ==
    /\ Arrives(r)
    /\ offset + seconds <= MaxOffset
    /\ offset' = offset + seconds
    /\ UNCHANGED <<now, last_timestamp, next_exact_timestamp, interval, clock_pc, local,
                   request, history>>

SetBlockTimestampInterval(r, seconds) ==
    /\ Arrives(r)
    /\ interval' = seconds
    /\ UNCHANGED <<now, offset, last_timestamp, next_exact_timestamp, clock_pc, local,
                   request, history>>

RemoveBlockTimestampInterval(r) ==
    /\ Arrives(r)
    /\ interval' = None
    /\ UNCHANGED <<now, offset, last_timestamp, next_exact_timestamp, clock_pc, local,
                   request, history>>

(* set_next_block_timestamp compares with the last timestamp ... *)
SetNextBlockTimestamp(r, timestamp) ==
    /\ Arrives(r)
    /\ timestamp >= last_timestamp
    /\ request' = [request EXCEPT ![r] =
                      [at |-> "exact", timestamp |-> timestamp, now |-> now]]
    /\ UNCHANGED <<now, fields, clock_pc, local, history>>

(* ... and stores the timestamp for the next block. *)
ReplaceExact(r) ==
    /\ request[r].at = "exact"
    /\ next_exact_timestamp' = request[r].timestamp
    /\ accepted' = request[r].timestamp
    /\ request' = [request EXCEPT ![r] = NoRequest]
    /\ UNCHANGED <<now, offset, last_timestamp, interval, clock_pc, local, block, wasReset>>

(* reset reads the clock and writes its three fields one after the other.  *)
ResetLast(r, timestamp) ==
    /\ Arrives(r)
    /\ last_timestamp' = timestamp
    /\ wasReset' = TRUE
    /\ request' = [request EXCEPT ![r] =
                      [at |-> "offset", timestamp |-> timestamp, now |-> now]]
    /\ UNCHANGED <<now, offset, next_exact_timestamp, interval, clock_pc, local, accepted, block>>

ResetOffset(r) ==
    /\ request[r].at = "offset"
    /\ offset' = request[r].timestamp - request[r].now
    /\ request' = [request EXCEPT ![r].at = "take"]
    /\ UNCHANGED <<now, last_timestamp, next_exact_timestamp, interval, clock_pc, local, history>>

ResetExact(r) ==
    /\ request[r].at = "take"
    /\ next_exact_timestamp' = None
    /\ accepted' = None
    /\ request' = [request EXCEPT ![r] = NoRequest]
    /\ UNCHANGED <<now, offset, last_timestamp, interval, clock_pc, local, block, wasReset>>

-----------------------------------------------------------------------------
(* next_timestamp                                                          *)

AsU64(x) == x % U64

SaturatingAdd(a, b) == IF a + b < U64 THEN a + b ELSE U64 - 1

\* The timestamp before it is compared with the last one.
Candidate ==
    IF next_exact_timestamp # None THEN next_exact_timestamp
    ELSE IF interval # None THEN SaturatingAdd(local.last, interval)
    ELSE AsU64(local.now + offset)

\* Slip: the candidate is taken as it is.
AsItIs(candidate) == candidate

\* "Ensures that the timestamp is always increasing"
NotEarlier(candidate) ==
    IF candidate < local.last THEN AsU64(local.last + 1) ELSE candidate

(* compute_next_timestamp reads the clock and the last timestamp ... *)
ReadLast ==
    /\ clock_pc = "idle"
    /\ last_timestamp <= MaxLast
    /\ local' = [NoLocals EXCEPT !.now = now, !.last = last_timestamp]
    /\ clock_pc' = "compute"
    /\ UNCHANGED <<now, fields, request, history>>

(* ... then the other fields. *)
ComputeNextTimestamp ==
    /\ clock_pc = "compute"
    /\ local' = [now |-> local.now, last |-> local.last,
                 next |-> NotEarlier(Candidate),
                 offset |-> IF next_exact_timestamp = None THEN None
                            ELSE NotEarlier(Candidate) - local.now]
    /\ clock_pc' = "take"
    /\ UNCHANGED <<now, fields, request, history>>

(* "Make sure we reset the `next_exact_timestamp`" *)
TakeNextExact ==
    /\ clock_pc = "take"
    /\ next_exact_timestamp' = None
    /\ clock_pc' = IF local.offset = None THEN "last" ELSE "offset"
    /\ UNCHANGED <<now, offset, last_timestamp, interval, local, request, history>>

StoreOffset ==
    /\ clock_pc = "offset"
    /\ offset' = local.offset
    /\ clock_pc' = "last"
    /\ UNCHANGED <<now, last_timestamp, next_exact_timestamp, interval, local, request,
                   history>>

(* The timestamp is returned to do_mine_block. *)
StoreLast ==
    /\ clock_pc = "last"
    /\ last_timestamp' = local.next
    /\ clock_pc' = "idle"
    /\ block' = local.next
    /\ accepted' = IF accepted = local.next THEN None ELSE accepted
    /\ wasReset' = FALSE
    /\ local' = NoLocals
    /\ UNCHANGED <<now, offset, next_exact_timestamp, interval, request>>

TimeRequest(r) ==
    \/ \E s \in Seconds : IncreaseTime(r, s)
    \/ \E s \in Seconds : SetBlockTimestampInterval(r, s)
    \/ RemoveBlockTimestampInterval(r)
    \/ \E t \in Timestamps : SetNextBlockTimestamp(r, t)
    \/ ReplaceExact(r)
    \/ \E t \in Resets : ResetLast(r, t)
    \/ ResetOffset(r)
    \/ ResetExact(r)

TimeNext ==
    \/ Tick
    \/ \E r \in Requests : TimeRequest(r)
    \/ ReadLast
    \/ ComputeNextTimestamp
    \/ TakeNextExact
    \/ StoreOffset
    \/ StoreLast

TimeSpec == TimeInit /\ [][TimeNext]_timeVars

-----------------------------------------------------------------------------
(* Every variable has its type. *)
TimeTypeOK ==
    /\ now \in 0 .. MaxNow
    /\ offset \in Int
    /\ last_timestamp \in 0 .. U64 - 1
    /\ next_exact_timestamp \in 0 .. U64 - 1 \cup {None}
    /\ interval \in Seconds \cup {None}
    /\ clock_pc \in {"idle", "compute", "take", "offset", "last"}
    /\ local \in [now : 0 .. MaxNow, last : 0 .. U64 - 1, next : 0 .. U64 - 1,
                  offset : Int \cup {None}]
    /\ request \in [Requests -> [at : {"none", "exact", "offset", "take"},
                                 timestamp : 0 .. U64 - 1, now : 0 .. MaxNow]]
    /\ clock_pc = "offset" => local.offset # None
    /\ block \in 0 .. U64 - 1
    /\ wasReset \in BOOLEAN

(* The timestamps of successive blocks never decrease, unless the time is  *)
(* reset between them: the clock may be behind the last block after an     *)
(* interval or an exact timestamp was used.                                *)
NeverBackwards == [][block' < block => wasReset]_timeVars

-----------------------------------------------------------------------------
(* Not kept by the code (README, Divergences): an exact timestamp that was  *)
(* accepted is still there for the next block, or the block that is being   *)
(* mined uses it.                                                           *)
NoLostRequest ==
    accepted # None => \/ next_exact_timestamp = accepted
                       \/ clock_pc # "idle" /\ local.next = accepted
=============================================================================
