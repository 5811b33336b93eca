----------------------------- MODULE Cheatcodes -----------------------------
(***************************************************************************)
(* The call hooks of the cheatcode inspector (crates/cheatcodes,           *)
(* inspector.rs): pranks, broadcasts and expected reverts.                 *)
(*                                                                         *)
(* The inspector has one prank, one broadcast and one expected revert for  *)
(* the whole call stack, each with the depth it was set at, and applies    *)
(* and clears them in the hooks around every call.  Contracts are free:    *)
(* a frame calls, delegates, creates, cheats, returns and reverts as it    *)
(* likes, and may go on after a call that failed.  A hook runs at the      *)
(* depth of the calling frame, 0 for the call of the test itself.          *)
(*                                                                         *)
(* What a frame asked for is kept with the frame, apart from what the      *)
(* inspector makes of it: `next' and `expects' are what the cheats promise *)
(* in their documentation.                                                 *)
(***************************************************************************)
EXTENDS Naturals, Sequences, FiniteSets

CONSTANTS
    Contracts,      \* addresses with code
    Mocked,         \* those with a mocked call
    Eoas,           \* addresses to prank and broadcast as
    Runner,         \* tx.origin of the test
    MaxDepth,       \* bound on the call stack
    MaxSteps        \* bound on cheats, calls and creations

None == [none |-> TRUE]

ASSUME CheatsAssumption ==
    /\ Mocked \subseteq Contracts /\ Mocked # Contracts
    /\ Runner \in Eoas
    /\ Contracts \cap Eoas = {}
    /\ None \notin Eoas
    /\ {MaxDepth, MaxSteps} \subseteq Nat

Test == CHOOSE c \in Contracts \ Mocked : TRUE

VARIABLES
    stack,              \* the frames
    origin,             \* env.tx.caller
    nonce,              \* account.info.nonce of the Eoas
    prank, broadcast, expected_revert,
    broadcastable_transactions,
    result,             \* what the root call returned
    steps,
    past                \* history: what the properties must know

cheats == <<prank, broadcast, expected_revert>>
vars == <<stack, origin, nonce, cheats, broadcastable_transactions, result, steps, past>>

\* Nonces on chain, when the script starts.
OnChain == 1

(* this is the address whose storage the frame has and that its calls come *)
(* from, sender is msg.sender, delegate is set in a delegate call's frame; *)
(* made counts the creations of this frame that the journal undoes if the  *)
(* frame reverts, those of returned callees too.                           *)
Frame(this, sender, delegate) ==
    [this |-> this, sender |-> sender, delegate |-> delegate, made |-> [e \in Eoas |-> 0],
     next |-> None, expects |-> 0, met |-> 0]

(* The frame with other requests. *)
Asking(frame, next, expects, met) ==
    [this |-> frame.this, sender |-> frame.sender, delegate |-> frame.delegate, made |-> frame.made,
     next |-> next, expects |-> expects, met |-> met]

Init ==
    /\ stack = <<>>
    /\ origin = Runner
    /\ nonce = [e \in Eoas |-> OnChain]
    /\ prank = None /\ broadcast = None /\ expected_revert = None
    /\ broadcastable_transactions = <<>>
    /\ result = "none"
    /\ steps = 0
    /\ past = [meddled |-> FALSE, leaked |-> FALSE, skewed |-> FALSE, honest |-> TRUE]

depth == Len(stack)
Top == stack[depth]
Running == stack # <<>>

CanStep ==
    /\ Running
    /\ steps < MaxSteps
    /\ steps' = steps + 1

-----------------------------------------------------------------------------
(* The call of the test or script                                          *)

\* Slip: the nonce is left as the transaction made it.
KeepNonce(n) == n

(* "decreasing sender nonce to ensure that it matches on-chain nonce"      *)
CorrectNonce(n) == IF n > 0 THEN n - 1 ELSE 0

(* The transaction takes a nonce of its sender before the hook runs.       *)
RootCall ==
    /\ stack = <<>> /\ result = "none"
    /\ stack' = <<Frame(Test, Runner, FALSE)>>
    /\ nonce' = [nonce EXCEPT ![Runner] = CorrectNonce(@ + 1)]
    /\ UNCHANGED <<origin, cheats, broadcastable_transactions, result, steps, past>>

-----------------------------------------------------------------------------
(* Cheats                                                                  *)

\* The frames that have asked for another sender.
Promised == {k \in 1 .. depth : stack[k].next # None}

(* A frame changes the callers while another frame relies on them. *)
Meddle == past' = [past EXCEPT !.meddled = @ \/ Promised \ {depth} # {}]

SetNext(next) == stack' = [stack EXCEPT ![depth] = Asking(@, next, @.expects, @.met)]

Ask(who, org, once, delegate) ==
    SetNext([who |-> who, origin |-> org, once |-> once, delegate |-> delegate])

StopAsking == SetNext(None)

(* prank and startPrank, with and without an origin; with the delegateCall *)
(* flag, "Ensure that code exists at `msg.sender`"                         *)
Prank(who, org, single, delegate) ==
    /\ CanStep
    /\ delegate => who \in Contracts
    /\ prank # None => prank.used /\ prank.single_call = single
    /\ broadcast = None
    /\ prank' = [prank_caller |-> Top.this, prank_origin |-> origin, new_caller |-> who,
                 new_origin |-> org, depth |-> depth, single_call |-> single,
                 delegate_call |-> delegate, used |-> FALSE]
    /\ Ask(who, org, single, delegate)
    /\ Meddle
    /\ UNCHANGED <<origin, nonce, broadcast, expected_revert, broadcastable_transactions, result>>

StopPrank ==
    /\ CanStep
    /\ prank # None
    /\ prank' = None
    /\ StopAsking
    /\ Meddle
    /\ UNCHANGED <<origin, nonce, broadcast, expected_revert, broadcastable_transactions, result>>

(* broadcast and startBroadcast *)
Broadcast(who, single) ==
    /\ CanStep
    /\ prank = None /\ broadcast = None
    /\ broadcast' = [new_origin |-> who, original_caller |-> Top.this, original_origin |-> origin,
                     depth |-> depth, single_call |-> single]
    /\ Ask(who, who, single, FALSE)
    /\ Meddle
    /\ UNCHANGED <<origin, nonce, prank, expected_revert, broadcastable_transactions, result>>

StopBroadcast ==
    /\ CanStep
    /\ broadcast # None
    /\ broadcast' = None
    /\ StopAsking
    /\ Meddle
    /\ UNCHANGED <<origin, nonce, prank, expected_revert, broadcastable_transactions, result>>

(* expectRevert *)
ExpectRevert(count) ==
    /\ CanStep
    /\ expected_revert = None
    /\ expected_revert' = [depth |-> depth, max_depth |-> depth, count |-> count,
                           actual_count |-> 0]
    /\ stack' = [stack EXCEPT ![depth] = Asking(@, @.next, count, 0)]
    /\ UNCHANGED <<origin, nonce, prank, broadcast, broadcastable_transactions, result, past>>

-----------------------------------------------------------------------------
(* The hooks before a call by `caller', the sender it has so far           *)

\* Slip: the depth is not compared.
PranksCaller(caller) == prank # None /\ caller = prank.prank_caller

PranksFrom(caller) == prank # None /\ depth >= prank.depth /\ caller = prank.prank_caller

\* "At the target depth we set `msg.sender`"
PranksSender(caller) == PranksFrom(caller) /\ depth = prank.depth

\* "At the target depth, or deeper, we set `tx.origin`"
PranksOrigin(caller) == PranksFrom(caller) /\ prank.new_origin # None

Broadcasts(caller) ==
    broadcast # None /\ depth = broadcast.depth /\ caller = broadcast.original_caller

(* create_common sets the origin at the target depth or deeper. *)
BroadcastsCreate ==
    broadcast # None /\ depth >= broadcast.depth /\ Top.this = broadcast.original_caller

Sender(caller) ==
    IF Broadcasts(caller) THEN broadcast.new_origin
    ELSE IF PranksSender(caller) THEN prank.new_caller
    ELSE caller

Applied == [prank EXCEPT !.used = TRUE]

\* initialize_interp: "track the max call depth during `expectRevert`"
Entered ==
    expected_revert' = IF expected_revert = None \/ expected_revert.max_depth > depth THEN expected_revert
                       ELSE [expected_revert EXCEPT !.max_depth = depth + 1]

Collect(from) ==
    broadcastable_transactions' =
        Append(broadcastable_transactions, [from |-> from, nonce |-> nonce[from]])

Push(frame) == stack' = Append(stack, frame)

(* The rest of the hook: the callee runs at the target address, with the   *)
(* sender that the prank or the broadcast gives it; org is tx.origin so    *)
(* far.  A broadcast call that is not static becomes a transaction, and    *)
(* the sender's nonce goes up (without a journal entry).                   *)
Enter(target, caller, org, delegate, static) ==
    /\ CanStep
    /\ depth < MaxDepth
    /\ ~(Broadcasts(caller) /\ static /\ broadcast.single_call)
    /\ Push(Frame(target, Sender(caller), delegate))
    /\ prank' = IF PranksSender(caller) \/ PranksOrigin(caller) THEN Applied ELSE prank
    /\ origin' = IF Broadcasts(caller) THEN broadcast.new_origin
                 ELSE IF PranksOrigin(caller) THEN prank.new_origin
                 ELSE org
    /\ IF Broadcasts(caller) /\ ~static
       THEN /\ Collect(broadcast.new_origin)
            /\ nonce' = [nonce EXCEPT ![broadcast.new_origin] = @ + 1]
       ELSE UNCHANGED <<broadcastable_transactions, nonce>>
    /\ Entered
    /\ UNCHANGED <<broadcast, result, past>>

(* A call or a static call comes from the frame's address. *)
Call(to, static) ==
    /\ to \notin Mocked
    /\ Enter(to, Top.this, origin, FALSE, static)

PranksDelegate == prank # None /\ prank.delegate_call

(* A delegate call keeps the address and the sender of the frame, so that  *)
(* "`call.caller` will not equal `prank.prank_caller`", as a rule; a prank *)
(* with the flag replaces them, and tx.origin, at any depth and for any    *)
(* caller.  The code it runs is of no matter here.                         *)
DelegateCall(static) ==
    IF PranksDelegate
    THEN Enter(prank.new_caller, prank.new_caller,
               IF prank.new_origin # None THEN prank.new_origin ELSE origin, TRUE, static)
    ELSE Enter(Top.this, Top.sender, origin, TRUE, static)

Created(frame, e) ==
    IF e \in Eoas THEN [frame EXCEPT !.made = [frame.made EXCEPT ![e] = @ + 1]] ELSE frame

(* A creation.  The EVM takes a nonce of the creator, in the journal of    *)
(* the creating frame.  The hook does not mark the prank used.             *)
Create(to) ==
    /\ CanStep
    /\ depth < MaxDepth
    /\ to \notin Mocked
    /\ LET sender == Sender(Top.this)
       IN  /\ stack' = Append([stack EXCEPT ![depth] = Created(@, sender)],
                              Frame(to, sender, FALSE))
           /\ nonce' = IF sender \in Eoas THEN [nonce EXCEPT ![sender] = @ + 1] ELSE nonce
    /\ origin' = IF BroadcastsCreate THEN broadcast.new_origin
                 ELSE IF PranksOrigin(Top.this) THEN prank.new_origin
                 ELSE origin
    /\ IF Broadcasts(Top.this) THEN Collect(broadcast.new_origin)
       ELSE UNCHANGED broadcastable_transactions
    /\ Entered
    /\ past' = [past EXCEPT !.skewed = @ \/ PranksSender(Top.this)]
    /\ UNCHANGED <<prank, broadcast, result>>

-----------------------------------------------------------------------------
(* The hooks after a call                                                  *)

(* "Clean single-call prank once we have returned to the original depth"   *)
Clear(c, d) == IF c # None /\ d = c.depth /\ c.single_call THEN None ELSE c

\* Slip: tx.origin is left.
OriginLeft(d) == origin

OriginAfter(d) ==
    IF broadcast # None /\ d = broadcast.depth THEN broadcast.original_origin
    ELSE IF prank # None /\ d = prank.depth THEN prank.prank_origin
    ELSE origin

\* "call didn't revert at a lower depth than cheatcode call depth"
CalledDeeper(e) == e.max_depth > e.depth

(* handle_expect_revert, for a reason that the outcome "expected" matches. *)
AsExpected(e, outcome) == CalledDeeper(e) /\ outcome = "expected"

\* Slip: at its own depth only, not when the frame itself ends.
ProcessedAt(d) == expected_revert # None /\ d = expected_revert.depth

Processed(d) == expected_revert # None /\ d <= expected_revert.depth

(* What the caller sees: an expected revert is a success, and the          *)
(* expectation is gone or counted; anything else is an error.              *)
Seen(d, outcome) ==
    IF ~Processed(d) THEN outcome
    ELSE IF AsExpected(expected_revert, outcome) THEN "ok" ELSE "other"

ExpectedAfter(d, outcome) ==
    LET e == expected_revert
    IN  IF ~Processed(d) THEN e
        ELSE IF AsExpected(e, outcome) /\ e.actual_count + 1 < e.count
        THEN [e EXCEPT !.actual_count = @ + 1]
        ELSE None

(* What the caller was promised to see. *)
Owed(caller, outcome) ==
    IF caller.expects = 0 THEN outcome
    ELSE IF outcome = "expected" THEN "ok" ELSE "other"

(* The requests left to a frame whose call ended so. *)
Called(frame, outcome) ==
    Asking(frame,
           IF frame.next # None /\ frame.next.once THEN None ELSE frame.next,
           IF frame.expects > 0 /\ outcome = "expected" THEN frame.expects - 1 ELSE 0,
           IF frame.expects > 0 THEN frame.met + 1 ELSE frame.met)

(* call_end and create_end for a callee of frame d that ended so, where    *)
(* frames is what is left of the stack.                                    *)
EndHooks(d, frames, outcome) ==
    /\ origin' = OriginAfter(d)
    /\ prank' = Clear(prank, d)
    /\ broadcast' = Clear(broadcast, d)
    /\ expected_revert' = ExpectedAfter(d, outcome)
    /\ stack' = IF d = 0 THEN <<>>
                ELSE [frames EXCEPT ![d] = Called(@, outcome)]
    /\ result' = IF d = 0 THEN Seen(d, outcome) ELSE result

(* The top frame returns, or reverts with the data that the expectation    *)
(* matches or with other data.  A revert undoes the creations below it.    *)
End(outcome) ==
    /\ Running
    /\ LET d == depth - 1
           reverts == outcome # "ok"
           kept == [e \in Eoas |-> stack[d].made[e] + Top.made[e]]
           frames == IF reverts \/ d = 0 THEN SubSeq(stack, 1, d)
                     ELSE [SubSeq(stack, 1, d) EXCEPT ![d] = [@ EXCEPT !.made = kept]]
           unmet == Top.expects > 0
           owed == IF unmet THEN "other" ELSE IF d = 0 THEN outcome ELSE Owed(stack[d], outcome)
       IN /\ EndHooks(d, frames, outcome)
          /\ nonce' = IF reverts THEN [e \in Eoas |-> nonce[e] - Top.made[e]] ELSE nonce
          /\ past' = [meddled |-> past.meddled \/ Top.next # None,
                      leaked |-> past.leaked \/ (reverts /\ unmet /\ Top.met > 0),
                      skewed |-> past.skewed \/ (reverts /\ \E e \in Eoas : Top.made[e] > 0),
                      honest |-> past.honest /\ Seen(d, outcome) = owed]
    /\ UNCHANGED <<broadcastable_transactions, steps>>

(* A mocked call, or a static call as single broadcast, ends in the hook.  *)
CallEnds(outcome) ==
    /\ EndHooks(depth, stack, outcome)
    /\ past' = [past EXCEPT !.leaked = @ \/ (outcome = "expected" /\ Top.expects > 0)]
    /\ UNCHANGED <<nonce, broadcastable_transactions>>

CallMocked(to, outcome) ==
    /\ CanStep
    /\ to \in Mocked
    /\ CallEnds(outcome)

StaticBroadcast ==
    /\ CanStep
    /\ Broadcasts(Top.this) /\ broadcast.single_call
    /\ CallEnds("other")

-----------------------------------------------------------------------------
Cheat ==
    \/ \E single \in BOOLEAN :
          \/ \E org \in {None} \cup (Eoas \ {Runner}) :
                \/ \E who \in Eoas : Prank(who, org, single, FALSE)
                \/ \E who \in Contracts \ Mocked : Prank(who, org, single, TRUE)
          \/ \E who \in Eoas : Broadcast(who, single)
    \/ StopPrank
    \/ StopBroadcast
    \/ \E count \in 1 .. 2 : ExpectRevert(count)

Next ==
    \/ RootCall
    \/ Cheat
    \/ \E to \in Contracts :
          \/ \E static \in BOOLEAN : Call(to, static)
          \/ Create(to)
          \/ \E outcome \in {"ok", "expected"} : CallMocked(to, outcome)
    \/ \E static \in BOOLEAN : DelegateCall(static)
    \/ StaticBroadcast
    \/ \E outcome \in {"ok", "expected", "other"} : End(outcome)

Spec == Init /\ [][Next]_vars

-----------------------------------------------------------------------------
\* The frames below k that asked for their delegate calls to be pranked.
DelegateAskers(k) == {j \in 1 .. k - 1 : stack[j].next # None /\ stack[j].next.delegate}

(* The context of a call, a creation or a delegate call of a frame. *)
PlainSender(frame) == IF frame.next = None THEN frame.this ELSE frame.next.who

DelegateSender(frame) ==
    IF frame.next # None /\ frame.sender = frame.this THEN frame.next.who ELSE frame.sender

(* Frame k has the sender, and as a delegate call the address, it should.  *)
AsAsked(k) ==
    IF ~stack[k].delegate THEN stack[k].sender = PlainSender(stack[k - 1])
    ELSE IF DelegateAskers(k) = {}
    THEN /\ stack[k].this = stack[k - 1].this
         /\ stack[k].sender = DelegateSender(stack[k - 1])
    ELSE \E j \in DelegateAskers(k) :
            stack[k].this = stack[j].next.who /\ stack[k].sender = stack[j].next.who

(* A frame that pranks or broadcasts gets what it asked for, and for calls *)
(* and creations nobody else does: such a frame on the stack runs with the *)
(* sender that the frame below it asked for, and that one's own address if *)
(* it asked for nothing.  A delegate call runs as its caller does, unless  *)
(* a frame on the stack asked for delegate calls to be pranked: then it    *)
(* runs at and as the address asked for.  (The exception: a frame that its *)
(* own address called is taken for its sender.)  The inspector knows one   *)
(* prank and one broadcast and a depth; calls that fail, nested calls,     *)
(* re-entered callers and cheats in between must not confuse it.  Not so   *)
(* once a frame changes the callers that another frame relies on, or ends  *)
(* with its prank still set.                                               *)
SendersAsAsked == ~past.meddled => \A k \in 2 .. depth : AsAsked(k)

(* Frame k made a delegate call that its prank or broadcast does not cover.*)
Uncovered(k) ==
    /\ stack[k + 1].delegate
    /\ ~stack[k].next.delegate
    /\ stack[k].sender # stack[k].this

(* tx.origin is what the frame that is pranking asked for, while its call  *)
(* runs, and that of the test as soon as the call is over, however it      *)
(* ended.  A delegate call that the prank does not cover starts with that  *)
(* of the test, and has the other one after the first call inside it.      *)
OriginAsAsked ==
    ~past.meddled =>
        LET asking == {k \in Promised \ {depth} : stack[k].next.origin # None}
        IN  IF asking = {} THEN origin = Runner
            ELSE \E k \in asking : \/ origin = stack[k].next.origin
                                   \/ origin = Runner /\ Uncovered(k)

(* The transactions collected for a sender have the nonces that follow its *)
(* nonce on chain without a gap or a duplicate, calls and creations mixed, *)
(* so that they can be broadcast in order.  Not so once a creation was     *)
(* undone by a revert or made under a prank.                               *)
NoncesFollow ==
    ~past.skewed =>
        \A n \in DOMAIN broadcastable_transactions :
            LET tx == broadcastable_transactions[n]
                before == {m \in 1 .. n - 1 : broadcastable_transactions[m].from = tx.from}
            IN tx.nonce = OnChain + Cardinality(before)

(* After expectRevert a frame sees its next call succeed if and only if it *)
(* reverted as expected; every other call it sees as it was; and a frame   *)
(* (the test itself too) that ends with reverts still expected is seen to  *)
(* fail.  Not so if a frame reverts after some but not all of the reverts  *)
(* it expected, or if what reverts is a mocked call.                       *)
RevertsHonest == past.leaked \/ past.honest

(* A delegate prank reaches the delegate calls of the frame that asked for *)
(* it, and of no other.  No run checks this: it does not hold.             *)
OwnDelegateCalls ==
    ~past.meddled =>
        \A k \in 2 .. depth :
            stack[k].delegate /\ stack[k - 1].next = None =>
                stack[k].this = stack[k - 1].this /\ stack[k].sender = stack[k - 1].sender

(* The documentation of expectRevert: "a `count` number of reverts from    *)
(* the upcoming calls".                                                    *)
OnlyCallsCount == past.honest
=============================================================================
