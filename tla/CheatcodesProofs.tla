-------------------------- MODULE CheatcodesProofs --------------------------
(***************************************************************************)
(* Theorems about Cheatcodes, for any contracts, accounts, depth of the    *)
(* stack and number of steps.                                              *)
(*                                                                         *)
(* The inspector knows one prank, one broadcast and one expected revert;   *)
(* the frames know what they asked for.  The inductive invariant CInv ties *)
(* the two together in four parts: the types, and three parts that each    *)
(* hold until the history says that the promise was given up.              *)
(*   CallersInv  the prank or broadcast is the request of the frame at its *)
(*               depth, no other frame has a request, and tx.origin is the *)
(*               one they give or that of the test;                        *)
(*   NonceInv    the nonce of a sender is its nonce on chain and one for   *)
(*               each transaction collected for it;                        *)
(*   RevertInv   the expected revert is that of the frame at its depth,    *)
(*               with as many reverts to come, and max_depth says whether  *)
(*               that frame has called anything since.                     *)
(***************************************************************************)
EXTENDS Cheatcodes, Integers, FiniteSetTheorems, TLAPS

(* What a frame may have asked for. *)
Asked ==
    [who : Contracts \cup Eoas, origin : Eoas \cup {None}, once : BOOLEAN, delegate : BOOLEAN]

FrameType ==
    [this : Contracts, sender : Contracts \cup Eoas, delegate : BOOLEAN, made : [Eoas -> Nat],
     next : Asked \cup {None}, expects : Nat, met : Nat]

PrankType ==
    [prank_caller : Contracts, prank_origin : Eoas, new_caller : Contracts \cup Eoas,
     new_origin : Eoas \cup {None}, depth : Nat \ {0}, single_call : BOOLEAN,
     delegate_call : BOOLEAN, used : BOOLEAN]

BroadcastType ==
    [new_origin : Eoas, original_caller : Contracts, original_origin : Eoas,
     depth : Nat \ {0}, single_call : BOOLEAN]

ExpectedType == [depth : Nat \ {0}, max_depth : Nat, count : Nat, actual_count : Nat]

(* The type invariant. *)
CTypeOK ==
    /\ stack \in Seq(FrameType)
    /\ origin \in Eoas
    /\ nonce \in [Eoas -> Int]
    /\ prank \in PrankType \cup {None}
    /\ PranksDelegate => prank.new_caller \in Contracts
    /\ broadcast \in BroadcastType \cup {None}
    /\ expected_revert \in ExpectedType \cup {None}
    /\ broadcastable_transactions \in Seq([from : Eoas, nonce : Int])
    /\ past \in [meddled : BOOLEAN, leaked : BOOLEAN, skewed : BOOLEAN, honest : BOOLEAN]

-----------------------------------------------------------------------------
(* The parts of the invariant                                              *)

(* The prank is what the frame at its depth asked for, and excludes a      *)
(* broadcast.                                                              *)
PrankKept ==
    prank # None =>
        /\ broadcast = None
        /\ prank.depth <= depth
        /\ prank.prank_caller = stack[prank.depth].this
        /\ prank.prank_origin = Runner
        /\ stack[prank.depth].next = [who |-> prank.new_caller, origin |-> prank.new_origin,
                                      once |-> prank.single_call,
                                      delegate |-> prank.delegate_call]

(* So is the broadcast. *)
BroadcastKept ==
    broadcast # None =>
        /\ broadcast.depth <= depth
        /\ broadcast.original_caller = stack[broadcast.depth].this
        /\ broadcast.original_origin = Runner
        /\ stack[broadcast.depth].next = [who |-> broadcast.new_origin,
                                          origin |-> broadcast.new_origin,
                                          once |-> broadcast.single_call,
                                          delegate |-> FALSE]

(* A frame that has asked for a sender is the one at their depth. *)
OneAsks ==
    \A k \in 1 .. depth : stack[k].next # None =>
        \/ prank # None /\ prank.depth = k
        \/ broadcast # None /\ broadcast.depth = k

(* tx.origin differs from that of the test only above the frame that asked *)
(* for another one, and there unless that frame's delegate call is not     *)
(* covered.                                                                *)
OriginKept ==
    IF prank # None /\ prank.depth < depth /\ prank.new_origin # None
    THEN origin = prank.new_origin \/ (origin = Runner /\ Uncovered(prank.depth))
    ELSE IF broadcast # None /\ broadcast.depth < depth
    THEN origin = broadcast.new_origin \/ (origin = Runner /\ Uncovered(broadcast.depth))
    ELSE origin = Runner

(* Every frame has the sender that the frame below it asked for. *)
Senders == \A k \in 2 .. depth : AsAsked(k)

CallersInv == PrankKept /\ BroadcastKept /\ OneAsks /\ OriginKept /\ Senders

(* The transactions collected for a sender. *)
From(e) == {m \in 1 .. Len(broadcastable_transactions) : broadcastable_transactions[m].from = e}

(* Its nonce counts them. *)
NonceKept == \A e \in Eoas : nonce[e] = OnChain + Cardinality(From(e))

(* Each took the nonce after those before it. *)
Follow ==
    \A n \in DOMAIN broadcastable_transactions :
        LET tx == broadcastable_transactions[n]
            before == {m \in 1 .. n - 1 : broadcastable_transactions[m].from = tx.from}
        IN tx.nonce = OnChain + Cardinality(before)

NonceInv == NonceKept /\ Follow

(* The expected revert is what the frame at its depth has yet to see, and  *)
(* is above the frame's own depth in max_depth once the frame calls.       *)
ExpectedKept ==
    expected_revert # None =>
        LET e == expected_revert IN
        /\ e.depth <= depth
        /\ e.max_depth >= e.depth
        /\ e.actual_count < e.count
        /\ stack[e.depth].expects = e.count - e.actual_count
        /\ depth > e.depth => e.max_depth > e.depth
        /\ depth = e.depth /\ stack[depth].met = 0 => e.max_depth = e.depth

(* A frame that expects reverts is the one at its depth. *)
OneExpects ==
    \A k \in 1 .. depth : stack[k].expects > 0 =>
        expected_revert # None /\ expected_revert.depth = k

RevertInv == ExpectedKept /\ OneExpects /\ past.honest

(* The inductive invariant. *)
CInv ==
    /\ CTypeOK
    /\ ~past.meddled => CallersInv
    /\ ~past.skewed => NonceInv
    /\ ~past.leaked => RevertInv

-----------------------------------------------------------------------------
(* Frames, requests and None                                               *)

LEMMA NoneApart ==
    /\ \A r \in PrankType : r # None
    /\ \A r \in BroadcastType : r # None
    /\ \A r \in ExpectedType : r # None
    /\ \A r \in Asked : r # None
  <1>1. DOMAIN None = {"none"}
    BY DEF None
  <1>2. \A r \in PrankType : "depth" \in DOMAIN r
    BY DEF PrankType
  <1>3. \A r \in BroadcastType : "depth" \in DOMAIN r
    BY DEF BroadcastType
  <1>4. \A r \in ExpectedType : "depth" \in DOMAIN r
    BY DEF ExpectedType
  <1>5. \A r \in Asked : "who" \in DOMAIN r
    BY DEF Asked
  <1>6. "depth" # "none" /\ "who" # "none"
    OBVIOUS
  <1>7. "depth" \notin DOMAIN None /\ "who" \notin DOMAIN None
    BY <1>1, <1>6
  <1> QED
    BY <1>2, <1>3, <1>4, <1>5, <1>7, Zenon

LEMMA SetFrame ==
    ASSUME NEW S, NEW s \in Seq(S), NEW i \in 1 .. Len(s), NEW f \in S
    PROVE  LET t == [s EXCEPT ![i] = f]
           IN  /\ t \in Seq(S)
               /\ Len(t) = Len(s)
               /\ t[i] = f
               /\ \A k \in 1 .. Len(s) : k # i => t[k] = s[k]
  OBVIOUS

LEMMA NewFrame ==
    ASSUME NEW this \in Contracts, NEW sender \in Contracts \cup Eoas, NEW delegate \in BOOLEAN
    PROVE  LET f == Frame(this, sender, delegate)
           IN  /\ f \in FrameType
               /\ f.this = this
               /\ f.sender = sender
               /\ f.delegate = delegate
               /\ f.made = [e \in Eoas |-> 0]
               /\ f.next = None
               /\ f.expects = 0
               /\ f.met = 0
  BY DEF FrameType, Frame

LEMMA WithMade ==
    ASSUME NEW f \in FrameType, NEW made \in [Eoas -> Nat]
    PROVE  LET g == [f EXCEPT !.made = made]
           IN  /\ g \in FrameType
               /\ g.this = f.this
               /\ g.sender = f.sender
               /\ g.delegate = f.delegate
               /\ g.made = made
               /\ g.next = f.next
               /\ g.expects = f.expects
               /\ g.met = f.met
  BY DEF FrameType

-----------------------------------------------------------------------------
(* What the actions do to the stack                                        *)

LEMMA TopType ==
    ASSUME CTypeOK, Running
    PROVE  /\ Len(stack) \in Nat /\ Len(stack) > 0
           /\ depth = Len(stack)
           /\ Top = stack[Len(stack)]
           /\ Top \in FrameType
           /\ \A k \in 1 .. Len(stack) : stack[k] \in FrameType
           /\ \A caller \in Contracts \cup Eoas : Sender(caller) \in Contracts \cup Eoas
  <1>1. stack \in Seq(FrameType) /\ stack # <<>>
    BY DEF CTypeOK, Running
  <1>2. /\ Len(stack) \in Nat /\ Len(stack) > 0
        /\ depth = Len(stack)
        /\ Top = stack[Len(stack)]
        /\ \A k \in 1 .. Len(stack) : stack[k] \in FrameType
    BY <1>1 DEF depth, Top
  <1>3. Top \in FrameType
    BY <1>2
  <1>7. ASSUME NEW caller \in Contracts \cup Eoas PROVE Sender(caller) \in Contracts \cup Eoas
    <2>1. Broadcasts(caller) => broadcast.new_origin \in Eoas
      BY DEF CTypeOK, Broadcasts, BroadcastType
    <2>2. PranksSender(caller) => prank.new_caller \in Contracts \cup Eoas
      BY DEF CTypeOK, PranksSender, PranksFrom, PrankType
    <2> QED
      BY <2>1, <2>2 DEF Sender
  <1> QED
    BY <1>2, <1>3, <1>7

\* Cheats change what the top frame asked for, and nothing else.
LEMMA SetNextStack ==
    ASSUME CTypeOK, Running, NEW next \in Asked \cup {None}, SetNext(next)
    PROVE  /\ stack' \in Seq(FrameType)
           /\ Len(stack') = Len(stack)
           /\ stack'[Len(stack)].next = next
           /\ stack'[Len(stack)].this = Top.this
           /\ stack'[Len(stack)].sender = Top.sender
           /\ stack'[Len(stack)].delegate = Top.delegate
           /\ stack'[Len(stack)].expects = Top.expects
           /\ stack'[Len(stack)].met = Top.met
           /\ \A k \in 1 .. Len(stack) : k # Len(stack) => stack'[k] = stack[k]
  <1> DEFINE f == Asking(Top, next, Top.expects, Top.met)
  <1>1. /\ stack \in Seq(FrameType)
        /\ Len(stack) \in 1 .. Len(stack)
        /\ depth = Len(stack)
        /\ Top = stack[Len(stack)]
        /\ Top \in FrameType
    BY TopType DEF CTypeOK
  <1>2. Top.expects \in Nat /\ Top.met \in Nat
    BY <1>1 DEF FrameType
  <1>3. /\ f \in FrameType
        /\ f.this = Top.this
        /\ f.sender = Top.sender
        /\ f.delegate = Top.delegate
        /\ f.next = next
        /\ f.expects = Top.expects
        /\ f.met = Top.met
    BY <1>1, <1>2 DEF Asking, FrameType
  <1>4. stack' = [stack EXCEPT ![Len(stack)] = f]
    BY <1>1 DEF SetNext
  <1> HIDE DEF f
  <1> QED
    BY <1>1, <1>3, <1>4, SetFrame

LEMMA ExpectStack ==
    ASSUME CTypeOK, NEW count \in 1 .. 2, ExpectRevert(count)
    PROVE  /\ stack' \in Seq(FrameType)
           /\ Len(stack') = Len(stack)
           /\ stack'[Len(stack)].next = Top.next
           /\ stack'[Len(stack)].this = Top.this
           /\ stack'[Len(stack)].sender = Top.sender
           /\ stack'[Len(stack)].delegate = Top.delegate
           /\ stack'[Len(stack)].expects = count
           /\ stack'[Len(stack)].met = 0
           /\ \A k \in 1 .. Len(stack) : k # Len(stack) => stack'[k] = stack[k]
  <1> DEFINE f == Asking(Top, Top.next, count, 0)
  <1>1. Running
    BY DEF ExpectRevert, CanStep
  <1>2. /\ stack \in Seq(FrameType)
        /\ Len(stack) \in 1 .. Len(stack)
        /\ depth = Len(stack)
        /\ Top = stack[Len(stack)]
        /\ Top \in FrameType
    BY <1>1, TopType DEF CTypeOK
  <1>3. Top.next \in Asked \cup {None} /\ count \in Nat /\ 0 \in Nat
    BY <1>2 DEF FrameType
  <1>4. /\ f \in FrameType
        /\ f.this = Top.this
        /\ f.sender = Top.sender
        /\ f.delegate = Top.delegate
        /\ f.next = Top.next
        /\ f.expects = count
        /\ f.met = 0
    BY <1>2, <1>3 DEF Asking, FrameType
  <1>5. stack' = [stack EXCEPT ![Len(stack)] = f]
    BY <1>2 DEF ExpectRevert
  <1> HIDE DEF f
  <1> QED
    BY <1>2, <1>4, <1>5, SetFrame

\* Calls and creations push a frame; a creation counts in the one below.
LEMMA CreatedType ==
    ASSUME NEW f \in FrameType, NEW e
    PROVE  /\ Created(f, e) \in FrameType
           /\ Created(f, e).this = f.this
           /\ Created(f, e).sender = f.sender
           /\ Created(f, e).delegate = f.delegate
           /\ Created(f, e).next = f.next
           /\ Created(f, e).expects = f.expects
           /\ Created(f, e).met = f.met
  <1>1. CASE e \in Eoas
    <2> DEFINE made == [f.made EXCEPT ![e] = @ + 1]
    <2>1. f.made \in [Eoas -> Nat]
      BY DEF FrameType
    <2>2. made \in [Eoas -> Nat]
      BY <1>1, <2>1
    <2>3. Created(f, e) = [f EXCEPT !.made = made]
      BY <1>1 DEF Created
    <2> HIDE DEF made
    <2> QED
      BY <2>2, <2>3, WithMade
  <1>2. CASE e \notin Eoas
    BY <1>2 DEF Created
  <1> QED
    BY <1>1, <1>2

Pushes(to, sender, delegate) ==
    \/ Push(Frame(to, sender, delegate))
    \/ stack' = Append([stack EXCEPT ![depth] = Created(@, sender)], Frame(to, sender, delegate))

LEMMA PushStack ==
    ASSUME CTypeOK, Running, NEW to \in Contracts, NEW sender \in Contracts \cup Eoas,
           NEW delegate \in BOOLEAN, Pushes(to, sender, delegate)
    PROVE  /\ stack' \in Seq(FrameType)
           /\ Len(stack') = Len(stack) + 1
           /\ \A k \in 1 .. Len(stack) : /\ stack'[k].this = stack[k].this
                                         /\ stack'[k].sender = stack[k].sender
                                         /\ stack'[k].delegate = stack[k].delegate
                                         /\ stack'[k].next = stack[k].next
                                         /\ stack'[k].expects = stack[k].expects
                                         /\ stack'[k].met = stack[k].met
           /\ stack'[Len(stack) + 1].this = to
           /\ stack'[Len(stack) + 1].sender = sender
           /\ stack'[Len(stack) + 1].delegate = delegate
           /\ stack'[Len(stack) + 1].next = None
           /\ stack'[Len(stack) + 1].expects = 0
  <1> DEFINE f == Frame(to, sender, delegate)
             c == Created(Top, sender)
  <1>1. /\ stack \in Seq(FrameType)
        /\ Len(stack) \in Nat
        /\ Len(stack) \in 1 .. Len(stack)
        /\ depth = Len(stack)
        /\ Top = stack[Len(stack)]
        /\ Top \in FrameType
    BY TopType DEF CTypeOK
  <1>2. /\ f \in FrameType
        /\ f.this = to
        /\ f.sender = sender
        /\ f.delegate = delegate
        /\ f.next = None
        /\ f.expects = 0
    BY <1>1, NewFrame
  <1>3. /\ c \in FrameType
        /\ c.this = Top.this
        /\ c.sender = Top.sender
        /\ c.delegate = Top.delegate
        /\ c.next = Top.next
        /\ c.expects = Top.expects
        /\ c.met = Top.met
    BY <1>1, CreatedType
  <1>4. \/ stack' = Append(stack, f)
        \/ stack' = Append([stack EXCEPT ![Len(stack)] = c], f)
    BY <1>1 DEF Push, Pushes
  <1> HIDE DEF f, c
  <1>5. CASE stack' = Append(stack, f)
    BY <1>1, <1>2, <1>5
  <1>6. CASE stack' = Append([stack EXCEPT ![Len(stack)] = c], f)
    <2>1. PICK s : s = [stack EXCEPT ![Len(stack)] = c]
      OBVIOUS
    <2>2. /\ s \in Seq(FrameType)
          /\ Len(s) = Len(stack)
          /\ s[Len(stack)] = c
          /\ \A k \in 1 .. Len(stack) : k # Len(stack) => s[k] = stack[k]
      BY <1>1, <1>3, <2>1, SetFrame
    <2>3. stack' = Append(s, f)
      BY <1>6, <2>1
    <2>4. /\ stack' \in Seq(FrameType)
          /\ Len(stack') = Len(stack) + 1
          /\ stack'[Len(stack) + 1] = f
          /\ \A k \in 1 .. Len(stack) : stack'[k] = s[k]
      BY <1>1, <1>2, <2>2, <2>3
    <2> QED
      BY <1>1, <1>2, <1>3, <2>2, <2>4
  <1> QED
    BY <1>4, <1>5, <1>6

\* A frame whose call ended keeps what it was, and of its requests what is left.
LEMMA CalledType ==
    ASSUME NEW f \in FrameType, NEW outcome
    PROVE  /\ Called(f, outcome) \in FrameType
           /\ Called(f, outcome).this = f.this
           /\ Called(f, outcome).sender = f.sender
           /\ Called(f, outcome).delegate = f.delegate
           /\ Called(f, outcome).next = IF f.next # None /\ f.next.once THEN None ELSE f.next
           /\ Called(f, outcome).expects =
                IF f.expects > 0 /\ outcome = "expected" THEN f.expects - 1 ELSE 0
           /\ f.expects > 0 => Called(f, outcome).met > 0
  <1> DEFINE next == IF f.next # None /\ f.next.once THEN None ELSE f.next
             expects == IF f.expects > 0 /\ outcome = "expected" THEN f.expects - 1 ELSE 0
             met == IF f.expects > 0 THEN f.met + 1 ELSE f.met
  <1>1. Called(f, outcome) = Asking(f, next, expects, met)
    BY DEF Called
  <1>2. /\ f.this \in Contracts
        /\ f.sender \in Contracts \cup Eoas
        /\ f.delegate \in BOOLEAN
        /\ f.made \in [Eoas -> Nat]
        /\ f.next \in Asked \cup {None}
        /\ f.expects \in Nat
        /\ f.met \in Nat
    BY DEF FrameType
  <1>3. next \in Asked \cup {None} /\ expects \in Nat /\ met \in Nat
    BY <1>2
  <1>4. f.expects > 0 => met > 0
    BY <1>2
  <1> HIDE DEF next, expects, met
  <1>5. /\ Asking(f, next, expects, met) \in FrameType
        /\ Asking(f, next, expects, met).this = f.this
        /\ Asking(f, next, expects, met).sender = f.sender
        /\ Asking(f, next, expects, met).delegate = f.delegate
        /\ Asking(f, next, expects, met).next = next
        /\ Asking(f, next, expects, met).expects = expects
        /\ Asking(f, next, expects, met).met = met
    BY <1>2, <1>3 DEF Asking, FrameType
  <1> USE DEF next, expects
  <1> QED
    BY <1>1, <1>4, <1>5

\* What EndHooks leave of the frames that they are given.
LEMMA HooksStack ==
    ASSUME NEW frames \in Seq(FrameType), NEW d \in 1 .. Len(frames), NEW outcome,
           stack' = [frames EXCEPT ![d] = Called(@, outcome)]
    PROVE  /\ stack' \in Seq(FrameType)
           /\ Len(stack') = Len(frames)
           /\ \A k \in 1 .. Len(frames) : k # d => stack'[k] = frames[k]
           /\ stack'[d].this = frames[d].this
           /\ stack'[d].sender = frames[d].sender
           /\ stack'[d].delegate = frames[d].delegate
           /\ stack'[d].next =
                IF frames[d].next # None /\ frames[d].next.once THEN None ELSE frames[d].next
           /\ stack'[d].expects =
                IF frames[d].expects > 0 /\ outcome = "expected" THEN frames[d].expects - 1 ELSE 0
           /\ frames[d].expects > 0 => stack'[d].met > 0
  <1>1. PICK g : g = Called(frames[d], outcome)
    OBVIOUS
  <1>2. frames[d] \in FrameType
    OBVIOUS
  <1>3. /\ g \in FrameType
        /\ g.this = frames[d].this
        /\ g.sender = frames[d].sender
        /\ g.delegate = frames[d].delegate
        /\ g.next =
             IF frames[d].next # None /\ frames[d].next.once THEN None ELSE frames[d].next
        /\ g.expects =
             IF frames[d].expects > 0 /\ outcome = "expected" THEN frames[d].expects - 1 ELSE 0
        /\ frames[d].expects > 0 => g.met > 0
    BY <1>1, <1>2, CalledType
  <1>4. stack' = [frames EXCEPT ![d] = g]
    BY <1>1
  <1>5. /\ stack' \in Seq(FrameType)
        /\ Len(stack') = Len(frames)
        /\ stack'[d] = g
        /\ \A k \in 1 .. Len(frames) : k # d => stack'[k] = frames[k]
    BY <1>3, <1>4, SetFrame
  <1> QED
    BY <1>3, <1>5

\* The frame below the one that ends, and those below that.
LEMMA EndStack ==
    ASSUME CTypeOK, NEW outcome, End(outcome), Len(stack) > 1
    PROVE  LET d == Len(stack) - 1
           IN  /\ stack' \in Seq(FrameType)
               /\ Len(stack') = d
               /\ \A k \in 1 .. d : k # d => stack'[k] = stack[k]
               /\ stack'[d].this = stack[d].this
               /\ stack'[d].sender = stack[d].sender
               /\ stack'[d].delegate = stack[d].delegate
               /\ stack'[d].next =
                    IF stack[d].next # None /\ stack[d].next.once THEN None ELSE stack[d].next
               /\ stack'[d].expects =
                    IF stack[d].expects > 0 /\ outcome = "expected"
                    THEN stack[d].expects - 1 ELSE 0
               /\ stack[d].expects > 0 => stack'[d].met > 0
  <1> DEFINE d == Len(stack) - 1
             kept == [e \in Eoas |-> stack[d].made[e] + Top.made[e]]
             below == SubSeq(stack, 1, d)
             frames == IF outcome # "ok" \/ d = 0 THEN below
                       ELSE [below EXCEPT ![d] = [@ EXCEPT !.made = kept]]
  <1>1. Running
    BY DEF End
  <1>2. /\ stack \in Seq(FrameType)
        /\ Len(stack) \in Nat
        /\ depth = Len(stack)
        /\ Top \in FrameType
        /\ d \in Nat /\ d > 0 /\ d \in 1 .. Len(stack) /\ d < Len(stack)
        /\ stack[d] \in FrameType
    BY <1>1, TopType DEF CTypeOK
  <1>3. stack' = [frames EXCEPT ![d] = Called(@, outcome)]
    BY <1>2 DEF End, EndHooks
  <1> HIDE DEF d
  <1>4. /\ below \in Seq(FrameType)
        /\ Len(below) = d
        /\ \A k \in 1 .. d : below[k] = stack[k]
    BY <1>2
  <1>5. kept \in [Eoas -> Nat]
    BY <1>2 DEF FrameType
  <1> HIDE DEF below, kept
  <1>6. PICK g : g = [stack[d] EXCEPT !.made = kept]
    OBVIOUS
  <1>7. /\ g \in FrameType
        /\ g.this = stack[d].this
        /\ g.sender = stack[d].sender
        /\ g.delegate = stack[d].delegate
        /\ g.next = stack[d].next
        /\ g.expects = stack[d].expects
    BY <1>2, <1>5, <1>6, WithMade
  <1>8. frames = below \/ frames = [below EXCEPT ![d] = g]
    <2>1. d \in 1 .. d
      BY <1>2
    <2>2. below[d] = stack[d]
      BY <1>4, <2>1
    <2> QED
      BY <1>6, <2>2
  <1> HIDE DEF frames
  <1>9. /\ frames \in Seq(FrameType)
        /\ Len(frames) = d
        /\ \A k \in 1 .. d : k # d => frames[k] = stack[k]
        /\ frames[d].this = stack[d].this
        /\ frames[d].sender = stack[d].sender
        /\ frames[d].delegate = stack[d].delegate
        /\ frames[d].next = stack[d].next
        /\ frames[d].expects = stack[d].expects
    <2>1. CASE frames = below
      BY <1>2, <1>4, <2>1
    <2>2. CASE frames = [below EXCEPT ![d] = g]
      <3>1. d \in 1 .. Len(below)
        BY <1>2, <1>4
      <3>2. /\ frames \in Seq(FrameType)
            /\ Len(frames) = Len(below)
            /\ frames[d] = g
            /\ \A k \in 1 .. Len(below) : k # d => frames[k] = below[k]
        BY <1>4, <1>7, <2>2, <3>1, SetFrame
      <3> QED
        BY <1>2, <1>4, <1>7, <3>2
    <2> QED
      BY <1>8, <2>1, <2>2
  <1>10. d \in 1 .. Len(frames)
    BY <1>2, <1>9
  <1>11. /\ stack' \in Seq(FrameType)
         /\ Len(stack') = d
         /\ \A k \in 1 .. d : k # d => stack'[k] = stack[k]
         /\ stack'[d].this = stack[d].this
         /\ stack'[d].sender = stack[d].sender
         /\ stack'[d].delegate = stack[d].delegate
         /\ stack'[d].next =
              IF stack[d].next # None /\ stack[d].next.once THEN None ELSE stack[d].next
         /\ stack'[d].expects =
              IF stack[d].expects > 0 /\ outcome = "expected" THEN stack[d].expects - 1 ELSE 0
         /\ stack[d].expects > 0 => stack'[d].met > 0
    <2>1. /\ stack' \in Seq(FrameType)
          /\ Len(stack') = Len(frames)
          /\ \A k \in 1 .. Len(frames) : k # d => stack'[k] = frames[k]
          /\ stack'[d].this = frames[d].this
          /\ stack'[d].sender = frames[d].sender
          /\ stack'[d].delegate = frames[d].delegate
          /\ stack'[d].next =
               IF frames[d].next # None /\ frames[d].next.once THEN None ELSE frames[d].next
          /\ stack'[d].expects =
               IF frames[d].expects > 0 /\ outcome = "expected"
               THEN frames[d].expects - 1 ELSE 0
          /\ frames[d].expects > 0 => stack'[d].met > 0
      BY <1>3, <1>9, <1>10, HooksStack, ZenonT(60)
    <2> QED
      BY <1>9, <2>1
  <1> QED
    BY <1>11 DEF d

\* A call that ends in the hook leaves the other frames alone.
LEMMA CallEndsStack ==
    ASSUME CTypeOK, Running, NEW outcome, CallEnds(outcome)
    PROVE  /\ stack' \in Seq(FrameType)
           /\ Len(stack') = Len(stack)
           /\ \A k \in 1 .. Len(stack) : k # Len(stack) => stack'[k] = stack[k]
           /\ stack'[Len(stack)].this = Top.this
           /\ stack'[Len(stack)].sender = Top.sender
           /\ stack'[Len(stack)].delegate = Top.delegate
           /\ stack'[Len(stack)].next =
                IF Top.next # None /\ Top.next.once THEN None ELSE Top.next
           /\ stack'[Len(stack)].expects =
                IF Top.expects > 0 /\ outcome = "expected" THEN Top.expects - 1 ELSE 0
           /\ Top.expects > 0 => stack'[Len(stack)].met > 0
  <1>1. /\ stack \in Seq(FrameType)
        /\ Len(stack) \in 1 .. Len(stack)
        /\ Len(stack) # 0
        /\ depth = Len(stack)
        /\ Top = stack[Len(stack)]
    BY TopType DEF CTypeOK
  <1>2. stack' = [stack EXCEPT ![Len(stack)] = Called(@, outcome)]
    BY <1>1 DEF CallEnds, EndHooks
  <1>3. PICK d \in 1 .. Len(stack) : d = Len(stack)
    BY <1>1
  <1>4. stack' = [stack EXCEPT ![d] = Called(@, outcome)]
    BY <1>2, <1>3
  <1>5. /\ stack' \in Seq(FrameType)
        /\ Len(stack') = Len(stack)
        /\ \A k \in 1 .. Len(stack) : k # d => stack'[k] = stack[k]
        /\ stack'[d].this = stack[d].this
        /\ stack'[d].sender = stack[d].sender
        /\ stack'[d].delegate = stack[d].delegate
        /\ stack'[d].next =
             IF stack[d].next # None /\ stack[d].next.once THEN None ELSE stack[d].next
        /\ stack'[d].expects =
             IF stack[d].expects > 0 /\ outcome = "expected" THEN stack[d].expects - 1 ELSE 0
        /\ stack[d].expects > 0 => stack'[d].met > 0
    BY <1>1, <1>4, HooksStack
  <1>6. Top = stack[d]
    BY <1>1, <1>3
  <1> QED
    BY <1>3, <1>5, <1>6

-----------------------------------------------------------------------------
(* Types                                                                   *)

LEMMA InitType == Init => CTypeOK
  <1> SUFFICES ASSUME Init PROVE CTypeOK
    OBVIOUS
  <1>1. nonce \in [Eoas -> Int]
    BY DEF Init, OnChain
  <1> QED
    BY <1>1, CheatsAssumption DEF Init, CTypeOK, PranksDelegate

LEMMA EnteredType ==
    ASSUME CTypeOK, Entered PROVE expected_revert' \in ExpectedType \cup {None}
  <1>1. Len(stack) + 1 \in Nat /\ depth = Len(stack)
    BY DEF CTypeOK, depth
  <1> QED
    BY <1>1 DEF CTypeOK, Entered, ExpectedType

LEMMA HooksType ==
    ASSUME CTypeOK, NEW d \in Nat, NEW frames, NEW outcome, EndHooks(d, frames, outcome)
    PROVE  /\ origin' \in Eoas
           /\ prank' \in PrankType \cup {None}
           /\ PranksDelegate' => prank'.new_caller \in Contracts
           /\ broadcast' \in BroadcastType \cup {None}
           /\ expected_revert' \in ExpectedType \cup {None}
  <1>1. origin' \in Eoas
    <2>1. broadcast # None => broadcast.original_origin \in Eoas
      BY DEF CTypeOK, BroadcastType
    <2>2. prank # None => prank.prank_origin \in Eoas
      BY DEF CTypeOK, PrankType
    <2> QED
      BY <2>1, <2>2 DEF EndHooks, OriginAfter, CTypeOK
  <1>2. /\ prank' \in PrankType \cup {None}
        /\ PranksDelegate' => prank'.new_caller \in Contracts
        /\ broadcast' \in BroadcastType \cup {None}
    BY DEF EndHooks, Clear, CTypeOK, PranksDelegate
  <1>3. expected_revert' \in ExpectedType \cup {None}
    <2>1. ASSUME expected_revert \in ExpectedType
          PROVE  [expected_revert EXCEPT !.actual_count = @ + 1] \in ExpectedType
      <3>1. expected_revert.actual_count + 1 \in Nat
        BY <2>1 DEF ExpectedType
      <3>2. PICK n \in Nat : n = expected_revert.actual_count + 1
        BY <3>1
      <3>3. [expected_revert EXCEPT !.actual_count = n] \in ExpectedType
        BY <2>1 DEF ExpectedType
      <3> QED
        BY <3>2, <3>3
    <2>2. Processed(d) => expected_revert \in ExpectedType
      BY DEF Processed, CTypeOK
    <2>3. \/ expected_revert' = None
          \/ expected_revert' = expected_revert
          \/ /\ Processed(d)
             /\ expected_revert' = [expected_revert EXCEPT !.actual_count = @ + 1]
      BY DEF EndHooks, ExpectedAfter
    <2> QED
      BY <2>1, <2>2, <2>3 DEF CTypeOK
  <1> QED
    BY <1>1, <1>2, <1>3

LEMMA CollectType ==
    ASSUME CTypeOK, NEW e \in Eoas, Collect(e)
    PROVE  broadcastable_transactions' \in Seq([from : Eoas, nonce : Int])
  <1>1. PICK tx : tx = [from |-> e, nonce |-> nonce[e]]
    OBVIOUS
  <1>2. tx \in [from : Eoas, nonce : Int]
    BY <1>1 DEF CTypeOK
  <1>3. broadcastable_transactions' = Append(broadcastable_transactions, tx)
    BY <1>1 DEF Collect
  <1> QED
    BY <1>2, <1>3 DEF CTypeOK

LEMMA RootType == ASSUME CTypeOK, RootCall PROVE CTypeOK'
  <1>1. Test \in Contracts
    BY CheatsAssumption DEF Test
  <1>2. Frame(Test, Runner, FALSE) \in FrameType
    BY <1>1, CheatsAssumption, NewFrame
  <1>3. stack' \in Seq(FrameType)
    <2>1. PICK f \in FrameType : f = Frame(Test, Runner, FALSE)
      BY <1>2
    <2>2. stack' = <<f>>
      BY <2>1 DEF RootCall
    <2> QED
      BY <2>2
  <1>4. nonce' \in [Eoas -> Int]
    BY CheatsAssumption DEF RootCall, CTypeOK, CorrectNonce
  <1> QED
    BY <1>3, <1>4 DEF RootCall, CTypeOK, cheats, PranksDelegate

LEMMA CheatType == ASSUME CTypeOK, Cheat PROVE CTypeOK'
  <1>a. Running
    BY DEF Cheat, Prank, StopPrank, Broadcast, StopBroadcast, ExpectRevert, CanStep
  <1>b. /\ depth \in Nat \ {0}
        /\ Top.this \in Contracts
    BY <1>a, TopType DEF FrameType
  <1>c. Meddle => past' \in [meddled : BOOLEAN, leaked : BOOLEAN, skewed : BOOLEAN, honest : BOOLEAN]
    BY DEF Meddle, CTypeOK
  <1>1. ASSUME NEW who \in Contracts \cup Eoas, NEW single \in BOOLEAN, NEW org \in Eoas \cup {None},
               NEW delegate \in BOOLEAN, Prank(who, org, single, delegate)
        PROVE  CTypeOK'
    <2>1. [who |-> who, origin |-> org, once |-> single, delegate |-> delegate] \in Asked \cup {None}
      BY DEF Asked
    <2>2. stack' \in Seq(FrameType)
      BY <1>a, <1>1, <2>1, SetNextStack DEF Prank, Ask
    <2>3. prank' \in PrankType
      BY <1>1, <1>b DEF Prank, PrankType, CTypeOK
    <2>4. PranksDelegate' => prank'.new_caller \in Contracts
      BY <1>1 DEF Prank, PranksDelegate
    <2> QED
      BY <1>1, <1>c, <2>2, <2>3, <2>4 DEF Prank, CTypeOK
  <1>2. ASSUME NEW who \in Eoas, NEW single \in BOOLEAN, Broadcast(who, single)
        PROVE  CTypeOK'
    <2>1. [who |-> who, origin |-> who, once |-> single, delegate |-> FALSE] \in Asked \cup {None}
      BY DEF Asked
    <2>2. stack' \in Seq(FrameType)
      BY <1>a, <1>2, <2>1, SetNextStack DEF Broadcast, Ask
    <2>3. broadcast' \in BroadcastType
      BY <1>2, <1>b DEF Broadcast, BroadcastType, CTypeOK
    <2> QED
      BY <1>2, <1>c, <2>2, <2>3 DEF Broadcast, CTypeOK, PranksDelegate
  <1>3. CASE StopPrank \/ StopBroadcast
    <2>1. stack' \in Seq(FrameType)
      BY <1>a, <1>3, SetNextStack DEF StopPrank, StopBroadcast, StopAsking
    <2> QED
      BY <1>3, <1>c, <2>1 DEF StopPrank, StopBroadcast, CTypeOK, PranksDelegate
  <1>4. ASSUME NEW count \in 1 .. 2, ExpectRevert(count) PROVE CTypeOK'
    <2>1. stack' \in Seq(FrameType)
      BY <1>4, ExpectStack
    <2>2. expected_revert' \in ExpectedType
      BY <1>4, <1>b DEF ExpectRevert, ExpectedType
    <2> QED
      BY <1>4, <2>1, <2>2 DEF ExpectRevert, CTypeOK, PranksDelegate
  <1> QED
    BY <1>1, <1>2, <1>3, <1>4 DEF Cheat

\* A call or a delegate call of the top frame enters a contract.
LEMMA Entering ==
    ASSUME CTypeOK,
           \/ \E to \in Contracts, static \in BOOLEAN : Call(to, static)
           \/ \E static \in BOOLEAN : DelegateCall(static)
    PROVE  \E to \in Contracts, caller \in Contracts \cup Eoas, org \in Eoas,
              delegate \in BOOLEAN, static \in BOOLEAN : Enter(to, caller, org, delegate, static)
  <1>1. Running
    BY DEF Call, DelegateCall, Enter, CanStep
  <1>2. Top.this \in Contracts /\ Top.sender \in Contracts \cup Eoas
    BY <1>1, TopType DEF FrameType
  <1>3. origin \in Eoas
    BY DEF CTypeOK
  <1>4. ASSUME NEW to \in Contracts, NEW static \in BOOLEAN, Call(to, static)
        PROVE  Enter(to, Top.this, origin, FALSE, static)
    BY <1>4 DEF Call
  <1>5. ASSUME PranksDelegate
        PROVE  /\ prank.new_caller \in Contracts
               /\ prank.new_origin # None => prank.new_origin \in Eoas
    BY <1>5 DEF CTypeOK, PranksDelegate, PrankType
  <1>6. ASSUME NEW static \in BOOLEAN, DelegateCall(static), PranksDelegate
        PROVE  \E org \in Eoas : Enter(prank.new_caller, prank.new_caller, org, TRUE, static)
    BY <1>3, <1>5, <1>6 DEF DelegateCall
  <1>7. ASSUME NEW static \in BOOLEAN, DelegateCall(static), ~PranksDelegate
        PROVE  Enter(Top.this, Top.sender, origin, TRUE, static)
    BY <1>7 DEF DelegateCall
  <1> QED
    BY <1>2, <1>3, <1>4, <1>5, <1>6, <1>7

LEMMA EnterType ==
    ASSUME CTypeOK, NEW to \in Contracts, NEW caller \in Contracts \cup Eoas, NEW org \in Eoas,
           NEW delegate \in BOOLEAN, NEW static \in BOOLEAN,
           Enter(to, caller, org, delegate, static)
    PROVE  CTypeOK'
  <1>1. Running /\ Pushes(to, Sender(caller), delegate) /\ Entered
    BY DEF Enter, CanStep, Pushes
  <1>2. stack' \in Seq(FrameType)
    <2>1. Sender(caller) \in Contracts \cup Eoas
      BY <1>1, TopType
    <2> QED
      BY <1>1, <2>1, PushStack
  <1>3. expected_revert' \in ExpectedType \cup {None}
    BY <1>1, EnteredType
  <1>4. prank # None => prank \in PrankType /\ Applied \in PrankType
    BY DEF CTypeOK, Applied, PrankType
  <1>5. /\ prank' \in PrankType \cup {None}
        /\ PranksDelegate' => prank'.new_caller \in Contracts
    <2>1. prank' = prank \/ (prank # None /\ prank' = Applied)
      BY DEF Enter, PranksSender, PranksOrigin, PranksFrom
    <2>2. prank # None => /\ Applied.new_caller = prank.new_caller
                          /\ Applied.delegate_call = prank.delegate_call
      BY <1>4 DEF Applied, PrankType
    <2> QED
      BY <1>4, <2>1, <2>2 DEF CTypeOK, PranksDelegate
  <1>6. Broadcasts(caller) => broadcast.new_origin \in Eoas
    BY DEF Broadcasts, CTypeOK, BroadcastType
  <1>7. PranksOrigin(caller) => prank.new_origin \in Eoas
    BY <1>4 DEF PranksOrigin, PranksFrom, CTypeOK, PrankType
  <1>8. origin' \in Eoas
    BY <1>6, <1>7 DEF Enter, CTypeOK
  <1>9. /\ nonce' \in [Eoas -> Int]
        /\ broadcastable_transactions' \in Seq([from : Eoas, nonce : Int])
    <2>1. CASE Broadcasts(caller) /\ ~static
      <3>1. Collect(broadcast.new_origin) /\ broadcast.new_origin \in Eoas
        BY <1>6, <2>1 DEF Enter
      <3>2. broadcastable_transactions' \in Seq([from : Eoas, nonce : Int])
        BY <3>1, CollectType
      <3>3. nonce' = [nonce EXCEPT ![broadcast.new_origin] = @ + 1]
        BY <2>1 DEF Enter
      <3> QED
        BY <3>1, <3>2, <3>3 DEF CTypeOK
    <2>2. CASE ~(Broadcasts(caller) /\ ~static)
      BY <2>2 DEF Enter, CTypeOK
    <2> QED
      BY <2>1, <2>2
  <1> QED
    BY <1>2, <1>3, <1>5, <1>8, <1>9 DEF Enter, CTypeOK

LEMMA CreateType ==
    ASSUME CTypeOK, NEW to \in Contracts, Create(to)
    PROVE  CTypeOK'
  <1>1. /\ Running
        /\ Pushes(to, Sender(Top.this), FALSE)
        /\ Entered
    BY DEF Create, CanStep, Pushes
  <1>2. stack' \in Seq(FrameType)
    <2>1. Top.this \in Contracts
      BY <1>1, TopType DEF FrameType
    <2>2. Sender(Top.this) \in Contracts \cup Eoas
      BY <1>1, <2>1, TopType
    <2> QED
      BY <1>1, <2>2, PushStack
  <1>3. expected_revert' \in ExpectedType \cup {None}
    BY <1>1, EnteredType
  <1>4. BroadcastsCreate => broadcast.new_origin \in Eoas
    BY DEF BroadcastsCreate, CTypeOK, BroadcastType
  <1>5. PranksOrigin(Top.this) => prank.new_origin \in Eoas
    BY DEF PranksOrigin, PranksFrom, CTypeOK, PrankType
  <1>6. origin' \in Eoas
    BY <1>4, <1>5 DEF Create, CTypeOK
  <1>7. nonce' \in [Eoas -> Int]
    BY DEF Create, CTypeOK
  <1>8. Broadcasts(Top.this) => broadcast.new_origin \in Eoas
    BY DEF Broadcasts, CTypeOK, BroadcastType
  <1>9. broadcastable_transactions' \in Seq([from : Eoas, nonce : Int])
    <2>1. CASE Broadcasts(Top.this)
      BY <1>8, <2>1, CollectType DEF Create
    <2>2. CASE ~Broadcasts(Top.this)
      BY <2>2 DEF Create, CTypeOK
    <2> QED
      BY <2>1, <2>2
  <1>10. past' \in [meddled : BOOLEAN, leaked : BOOLEAN, skewed : BOOLEAN, honest : BOOLEAN]
    BY DEF Create, CTypeOK, PranksSender, PranksFrom
  <1> QED
    BY <1>2, <1>3, <1>6, <1>7, <1>9, <1>10 DEF Create, CTypeOK, PranksDelegate

LEMMA CallEndsType ==
    ASSUME CTypeOK, Running, NEW outcome, CallEnds(outcome) PROVE CTypeOK'
  <1>1. stack' \in Seq(FrameType)
    BY CallEndsStack
  <1>2. depth \in Nat /\ EndHooks(depth, stack, outcome)
    BY TopType DEF CallEnds
  <1>3. /\ origin' \in Eoas
        /\ prank' \in PrankType \cup {None}
        /\ PranksDelegate' => prank'.new_caller \in Contracts
        /\ broadcast' \in BroadcastType \cup {None}
        /\ expected_revert' \in ExpectedType \cup {None}
    BY <1>2, HooksType
  <1>4. past' \in [meddled : BOOLEAN, leaked : BOOLEAN, skewed : BOOLEAN, honest : BOOLEAN]
    BY DEF CallEnds, CTypeOK
  <1> QED
    BY <1>1, <1>3, <1>4 DEF CallEnds, CTypeOK

LEMMA EndType == ASSUME CTypeOK, NEW outcome, End(outcome) PROVE CTypeOK'
  <1>1. Running
    BY DEF End
  <1>2. /\ depth = Len(stack)
        /\ Len(stack) \in Nat /\ Len(stack) > 0
        /\ depth - 1 \in Nat
        /\ Top \in FrameType
    BY <1>1, TopType
  <1>3. stack' \in Seq(FrameType)
    <2>1. CASE Len(stack) > 1
      BY <2>1, EndStack
    <2>2. CASE Len(stack) = 1
      <3>1. stack' = <<>>
        BY <1>2, <2>2 DEF End, EndHooks
      <3> QED
        BY <3>1
    <2> QED
      BY <1>2, <2>1, <2>2
  <1>4. PICK frames : EndHooks(depth - 1, frames, outcome)
    BY DEF End
  <1>5. /\ origin' \in Eoas
        /\ prank' \in PrankType \cup {None}
        /\ PranksDelegate' => prank'.new_caller \in Contracts
        /\ broadcast' \in BroadcastType \cup {None}
        /\ expected_revert' \in ExpectedType \cup {None}
    BY <1>2, <1>4, HooksType
  <1>6. nonce' \in [Eoas -> Int]
    BY <1>2, SMTT(30) DEF End, CTypeOK, FrameType
  <1>7. past' \in [meddled : BOOLEAN, leaked : BOOLEAN, skewed : BOOLEAN, honest : BOOLEAN]
    BY DEF End, CTypeOK
  <1> QED
    BY <1>3, <1>5, <1>6, <1>7 DEF End, CTypeOK

(* The steps of Next, for the proofs below. *)
LEMMA Steps ==
    ASSUME [Next]_vars
    PROVE  \/ RootCall
           \/ Cheat
           \/ \E to \in Contracts, static \in BOOLEAN : Call(to, static)
           \/ \E static \in BOOLEAN : DelegateCall(static)
           \/ \E to \in Contracts : Create(to)
           \/ \E outcome \in {"ok", "expected", "other"} : Running /\ CallEnds(outcome)
           \/ \E outcome \in {"ok", "expected", "other"} : End(outcome)
           \/ UNCHANGED vars
  <1>1. ASSUME NEW to \in Contracts, NEW outcome \in {"ok", "expected"}, CallMocked(to, outcome)
        PROVE  \E o \in {"ok", "expected", "other"} : Running /\ CallEnds(o)
    BY <1>1 DEF CallMocked, CanStep
  <1>2. ASSUME StaticBroadcast
        PROVE  \E o \in {"ok", "expected", "other"} : Running /\ CallEnds(o)
    BY <1>2 DEF StaticBroadcast, CanStep
  <1> QED
    BY <1>1, <1>2 DEF Next

LEMMA NextType == ASSUME CTypeOK, [Next]_vars PROVE CTypeOK'
  <1>1. CASE UNCHANGED vars
    BY <1>1 DEF vars, cheats, CTypeOK, PranksDelegate
  <1> QED
    BY <1>1, Steps, RootType, CheatType, Entering, EnterType, CreateType, CallEndsType, EndType

-----------------------------------------------------------------------------
(* Senders and origins                                                     *)

\* The frame that the prank or the broadcast belongs to has asked for it.
LEMMA KeptAsked ==
    ASSUME CTypeOK, CallersInv
    PROVE  /\ prank # None => /\ prank \in PrankType
                              /\ prank.depth \in 1 .. Len(stack)
                              /\ stack[prank.depth].next # None
                              /\ stack[prank.depth].next.who = prank.new_caller
                              /\ stack[prank.depth].next.origin = prank.new_origin
                              /\ stack[prank.depth].next.once = prank.single_call
                              /\ stack[prank.depth].next.delegate = prank.delegate_call
           /\ broadcast # None => /\ broadcast \in BroadcastType
                                  /\ broadcast.depth \in 1 .. Len(stack)
                                  /\ stack[broadcast.depth].next # None
                                  /\ stack[broadcast.depth].next.who = broadcast.new_origin
                                  /\ stack[broadcast.depth].next.origin = broadcast.new_origin
                                  /\ stack[broadcast.depth].next.once = broadcast.single_call
                                  /\ stack[broadcast.depth].next.delegate = FALSE
  <1>1. ASSUME prank # None
        PROVE  /\ prank \in PrankType
               /\ prank.depth \in 1 .. Len(stack)
               /\ stack[prank.depth].next # None
               /\ stack[prank.depth].next.who = prank.new_caller
               /\ stack[prank.depth].next.origin = prank.new_origin
               /\ stack[prank.depth].next.once = prank.single_call
               /\ stack[prank.depth].next.delegate = prank.delegate_call
    <2>1. prank \in PrankType
      BY <1>1 DEF CTypeOK
    <2>2. /\ prank.new_caller \in Contracts \cup Eoas
          /\ prank.new_origin \in Eoas \cup {None}
          /\ prank.single_call \in BOOLEAN
          /\ prank.delegate_call \in BOOLEAN
          /\ prank.depth \in Nat \ {0}
      BY <2>1 DEF PrankType
    <2>3. prank.depth \in 1 .. Len(stack)
      BY <1>1, <2>2 DEF CallersInv, PrankKept, depth, CTypeOK
    <2>4. PICK asked : asked = [who |-> prank.new_caller, origin |-> prank.new_origin,
                                once |-> prank.single_call, delegate |-> prank.delegate_call]
      OBVIOUS
    <2>5. /\ asked \in Asked
          /\ asked.who = prank.new_caller
          /\ asked.origin = prank.new_origin
          /\ asked.once = prank.single_call
          /\ asked.delegate = prank.delegate_call
      BY <2>2, <2>4 DEF Asked
    <2>6. stack[prank.depth].next = asked
      BY <1>1, <2>4 DEF CallersInv, PrankKept
    <2> QED
      BY <2>1, <2>3, <2>5, <2>6, NoneApart
  <1>2. ASSUME broadcast # None
        PROVE  /\ broadcast \in BroadcastType
               /\ broadcast.depth \in 1 .. Len(stack)
               /\ stack[broadcast.depth].next # None
               /\ stack[broadcast.depth].next.who = broadcast.new_origin
               /\ stack[broadcast.depth].next.origin = broadcast.new_origin
               /\ stack[broadcast.depth].next.once = broadcast.single_call
               /\ stack[broadcast.depth].next.delegate = FALSE
    <2>1. broadcast \in BroadcastType
      BY <1>2 DEF CTypeOK
    <2>2. /\ broadcast.new_origin \in Eoas
          /\ broadcast.single_call \in BOOLEAN
          /\ broadcast.depth \in Nat \ {0}
      BY <2>1 DEF BroadcastType
    <2>3. broadcast.depth \in 1 .. Len(stack)
      BY <1>2, <2>2 DEF CallersInv, BroadcastKept, depth, CTypeOK
    <2>4. PICK asked : asked = [who |-> broadcast.new_origin, origin |-> broadcast.new_origin,
                                once |-> broadcast.single_call, delegate |-> FALSE]
      OBVIOUS
    <2>5. /\ asked \in Asked
          /\ asked.who = broadcast.new_origin
          /\ asked.origin = broadcast.new_origin
          /\ asked.once = broadcast.single_call
          /\ asked.delegate = FALSE
      BY <2>2, <2>4 DEF Asked
    <2>6. stack[broadcast.depth].next = asked
      BY <1>2, <2>4 DEF CallersInv, BroadcastKept
    <2> QED
      BY <2>1, <2>3, <2>5, <2>6, NoneApart
  <1> QED
    BY <1>1, <1>2

\* Frames that stay as they are have the senders they had.
LEMMA SameAsked ==
    ASSUME CTypeOK, Senders, NEW d \in 1 .. Len(stack),
           \A k \in 1 .. Len(stack) : k < d => /\ stack'[k].this = stack[k].this
                                              /\ stack'[k].sender = stack[k].sender
                                              /\ stack'[k].delegate = stack[k].delegate
                                              /\ stack'[k].next = stack[k].next,
           stack'[d].this = stack[d].this,
           stack'[d].sender = stack[d].sender,
           stack'[d].delegate = stack[d].delegate
    PROVE  \A k \in 2 .. d : AsAsked(k)'
  <1> SUFFICES ASSUME NEW k \in 2 .. d PROVE AsAsked(k)'
    OBVIOUS
  <1>1. Len(stack) \in Nat
    BY DEF CTypeOK
  <1>2. k - 1 \in 1 .. Len(stack) /\ k - 1 < d /\ k \in 2 .. Len(stack) /\ k \in 1 .. Len(stack)
    BY <1>1
  <1>3. \A j \in 1 .. k - 1 : j \in 1 .. Len(stack) /\ j < d
    BY <1>1
  <1>4. \A j \in 1 .. k - 1 : stack'[j].next = stack[j].next
    BY <1>3
  <1>5. DelegateAskers(k)' = DelegateAskers(k)
    BY <1>4 DEF DelegateAskers
  <1>6. \A j \in DelegateAskers(k) : stack'[j].next = stack[j].next
    BY <1>4 DEF DelegateAskers
  <1>7. /\ stack'[k].this = stack[k].this /\ stack'[k].sender = stack[k].sender
        /\ stack'[k].delegate = stack[k].delegate
    <2>1. CASE k = d
      BY <2>1
    <2>2. CASE k # d
      <3>1. k < d
        BY <1>1, <2>2
      <3> QED
        BY <1>2, <3>1
    <2> QED
      BY <2>1, <2>2
  <1>8. /\ stack'[k - 1].this = stack[k - 1].this /\ stack'[k - 1].sender = stack[k - 1].sender
        /\ stack'[k - 1].next = stack[k - 1].next
    BY <1>2
  <1>9. PlainSender(stack[k - 1])' = PlainSender(stack[k - 1])
    BY <1>8 DEF PlainSender
  <1>10. DelegateSender(stack[k - 1])' = DelegateSender(stack[k - 1])
    BY <1>8 DEF DelegateSender
  <1>11. AsAsked(k)
    BY <1>2 DEF Senders, depth
  <1> QED
    BY <1>5, <1>6, <1>7, <1>8, <1>9, <1>10, <1>11 DEF AsAsked

LEMMA SameUncovered ==
    ASSUME NEW k, stack'[k].this = stack[k].this, stack'[k].sender = stack[k].sender,
           stack'[k].next = stack[k].next, stack'[k + 1].delegate = stack[k + 1].delegate
    PROVE  Uncovered(k)' = Uncovered(k)
  BY DEF Uncovered

\* If no other frame relies on its callers, those in force are the top frame's.
LEMMA NobodyElse ==
    ASSUME CTypeOK, CallersInv, Running, Meddle, ~past.meddled, ~past'.meddled
    PROVE  /\ \A k \in 1 .. Len(stack) : k # Len(stack) => stack[k].next = None
           /\ prank # None => prank.depth = Len(stack)
           /\ broadcast # None => broadcast.depth = Len(stack)
           /\ origin = Runner
  <1>1. past' = [past EXCEPT !.meddled = @ \/ Promised \ {depth} # {}]
    BY DEF Meddle
  <1>2. past'.meddled = (past.meddled \/ Promised \ {depth} # {})
    BY <1>1 DEF CTypeOK
  <1>3. Promised \ {depth} = {}
    BY <1>2
  <1>4. \A k \in 1 .. Len(stack) : k # Len(stack) => stack[k].next = None
    BY <1>3 DEF Promised, depth
  <1>5. /\ prank # None => prank.depth = Len(stack)
        /\ broadcast # None => broadcast.depth = Len(stack)
    BY <1>4, KeptAsked
  <1>6. origin = Runner
    BY <1>5 DEF CallersInv, OriginKept, depth, CTypeOK
  <1> QED
    BY <1>4, <1>5, <1>6

LEMMA PrankCallers ==
    ASSUME CTypeOK, CallersInv, ~past.meddled, ~past'.meddled,
           NEW who \in Contracts \cup Eoas, NEW single \in BOOLEAN, NEW org \in Eoas \cup {None},
           NEW delegate \in BOOLEAN, Prank(who, org, single, delegate)
    PROVE  CallersInv'
  <1> DEFINE asked == [who |-> who, origin |-> org, once |-> single, delegate |-> delegate]
  <1>1. Running /\ Meddle /\ SetNext(asked) /\ broadcast' = None /\ broadcast = None
    BY DEF Prank, CanStep, Ask
  <1>2. asked \in Asked
    BY DEF Asked
  <1>3. /\ \A k \in 1 .. Len(stack) : k # Len(stack) => stack[k].next = None
        /\ origin = Runner
    BY <1>1, NobodyElse
  <1>4. /\ stack \in Seq(FrameType) /\ Len(stack) \in Nat /\ Len(stack) > 0
        /\ depth = Len(stack)
        /\ Top = stack[Len(stack)]
    BY <1>1, TopType DEF CTypeOK
  <1>5. /\ Len(stack') = Len(stack)
        /\ stack'[Len(stack)].next = asked
        /\ stack'[Len(stack)].this = Top.this
        /\ stack'[Len(stack)].sender = Top.sender
        /\ stack'[Len(stack)].delegate = Top.delegate
        /\ \A k \in 1 .. Len(stack) : k # Len(stack) => stack'[k] = stack[k]
    BY <1>1, <1>2, SetNextStack
  <1>6. /\ prank'.prank_caller = Top.this
        /\ prank'.prank_origin = origin
        /\ prank'.new_caller = who
        /\ prank'.new_origin = org
        /\ prank'.depth = Len(stack)
        /\ prank'.single_call = single
        /\ prank'.delegate_call = delegate
        /\ origin' = origin
        /\ prank' \in PrankType
    <2>1. Top.this \in Contracts
      BY <1>1, TopType DEF FrameType
    <2> QED
      BY <1>4, <2>1 DEF Prank, PrankType, CTypeOK
  <1>7. prank' # None
    BY <1>6, NoneApart
  <1>8. PrankKept'
    BY <1>1, <1>3, <1>4, <1>5, <1>6 DEF PrankKept, depth
  <1>9. BroadcastKept'
    BY <1>1 DEF BroadcastKept
  <1>10. OneAsks'
    BY <1>3, <1>4, <1>5, <1>6, <1>7 DEF OneAsks, depth
  <1>11. OriginKept'
    BY <1>1, <1>3, <1>4, <1>5, <1>6 DEF OriginKept, depth
  <1>12. Senders'
    <2>1. PICK d \in 1 .. Len(stack) : d = Len(stack)
      BY <1>4
    <2>2. \A k \in 2 .. d : AsAsked(k)'
      BY <1>4, <1>5, <2>1, SameAsked DEF CallersInv
    <2> QED
      BY <1>5, <2>1, <2>2 DEF Senders, depth
  <1> QED
    BY <1>8, <1>9, <1>10, <1>11, <1>12 DEF CallersInv

LEMMA BroadcastCallers ==
    ASSUME CTypeOK, CallersInv, ~past.meddled, ~past'.meddled,
           NEW who \in Eoas, NEW single \in BOOLEAN, Broadcast(who, single)
    PROVE  CallersInv'
  <1> DEFINE asked == [who |-> who, origin |-> who, once |-> single, delegate |-> FALSE]
  <1>1. Running /\ Meddle /\ SetNext(asked) /\ prank' = None
    BY DEF Broadcast, CanStep, Ask
  <1>2. asked \in Asked
    BY DEF Asked
  <1>3. /\ \A k \in 1 .. Len(stack) : k # Len(stack) => stack[k].next = None
        /\ origin = Runner
    BY <1>1, NobodyElse
  <1>4. /\ stack \in Seq(FrameType) /\ Len(stack) \in Nat /\ Len(stack) > 0
        /\ depth = Len(stack)
        /\ Top = stack[Len(stack)]
    BY <1>1, TopType DEF CTypeOK
  <1>5. /\ Len(stack') = Len(stack)
        /\ stack'[Len(stack)].next = asked
        /\ stack'[Len(stack)].this = Top.this
        /\ stack'[Len(stack)].sender = Top.sender
        /\ stack'[Len(stack)].delegate = Top.delegate
        /\ \A k \in 1 .. Len(stack) : k # Len(stack) => stack'[k] = stack[k]
    BY <1>1, <1>2, SetNextStack
  <1>6. /\ broadcast'.original_caller = Top.this
        /\ broadcast'.original_origin = origin
        /\ broadcast'.new_origin = who
        /\ broadcast'.depth = Len(stack)
        /\ broadcast'.single_call = single
        /\ origin' = origin
        /\ broadcast' \in BroadcastType
    <2>1. Top.this \in Contracts
      BY <1>1, TopType DEF FrameType
    <2> QED
      BY <1>4, <2>1 DEF Broadcast, BroadcastType, CTypeOK
  <1>7. broadcast' # None
    BY <1>6, NoneApart
  <1>8. PrankKept'
    BY <1>1 DEF PrankKept
  <1>9. BroadcastKept'
    BY <1>3, <1>4, <1>5, <1>6 DEF BroadcastKept, depth
  <1>10. OneAsks'
    BY <1>3, <1>4, <1>5, <1>6, <1>7 DEF OneAsks, depth
  <1>11. OriginKept'
    BY <1>1, <1>3, <1>4, <1>5, <1>6 DEF OriginKept, depth
  <1>12. Senders'
    <2>1. PICK d \in 1 .. Len(stack) : d = Len(stack)
      BY <1>4
    <2>2. \A k \in 2 .. d : AsAsked(k)'
      BY <1>4, <1>5, <2>1, SameAsked DEF CallersInv
    <2> QED
      BY <1>5, <2>1, <2>2 DEF Senders, depth
  <1> QED
    BY <1>8, <1>9, <1>10, <1>11, <1>12 DEF CallersInv

LEMMA StopCallers ==
    ASSUME CTypeOK, CallersInv, ~past.meddled, ~past'.meddled, StopPrank \/ StopBroadcast
    PROVE  CallersInv'
  <1>1. Running /\ Meddle /\ SetNext(None) /\ origin' = origin
    BY DEF StopPrank, StopBroadcast, CanStep, StopAsking
  <1>2. prank' = None /\ broadcast' = None
    <2>1. prank # None => broadcast = None
      BY DEF CallersInv, PrankKept
    <2> QED
      BY <2>1 DEF StopPrank, StopBroadcast
  <1>3. /\ \A k \in 1 .. Len(stack) : k # Len(stack) => stack[k].next = None
        /\ origin = Runner
    BY <1>1, NobodyElse
  <1>4. stack \in Seq(FrameType) /\ Len(stack) \in Nat /\ Len(stack) > 0
    BY <1>1, TopType DEF CTypeOK
  <1>5. /\ Len(stack') = Len(stack)
        /\ stack'[Len(stack)].next = None
        /\ stack'[Len(stack)].this = stack[Len(stack)].this
        /\ stack'[Len(stack)].sender = stack[Len(stack)].sender
        /\ stack'[Len(stack)].delegate = stack[Len(stack)].delegate
        /\ \A k \in 1 .. Len(stack) : k # Len(stack) => stack'[k] = stack[k]
    BY <1>1, SetNextStack, TopType
  <1>6. OneAsks'
    BY <1>3, <1>5 DEF OneAsks, depth
  <1>7. Senders'
    <2>1. PICK d \in 1 .. Len(stack) : d = Len(stack)
      BY <1>4
    <2>2. \A k \in 2 .. d : AsAsked(k)'
      BY <1>4, <1>5, <2>1, SameAsked DEF CallersInv
    <2> QED
      BY <1>5, <2>1, <2>2 DEF Senders, depth
  <1> QED
    BY <1>1, <1>2, <1>3, <1>6, <1>7 DEF CallersInv, PrankKept, BroadcastKept, OriginKept

\* Steps that change neither the callers nor what the frames asked for.
LEMMA SameCallers ==
    ASSUME CTypeOK, CallersInv, UNCHANGED <<prank, broadcast, origin>>,
           Len(stack') = Len(stack),
           \A k \in 1 .. Len(stack) : /\ stack'[k].this = stack[k].this
                                      /\ stack'[k].sender = stack[k].sender
                                      /\ stack'[k].delegate = stack[k].delegate
                                      /\ stack'[k].next = stack[k].next
    PROVE  CallersInv'
  <1>1. Len(stack) \in Nat
    BY DEF CTypeOK
  <1>2. PrankKept'
    <2> SUFFICES ASSUME prank # None PROVE PrankKept'
      BY DEF PrankKept
    <2>1. prank.depth \in 1 .. Len(stack)
      BY KeptAsked
    <2> QED
      BY <2>1 DEF CallersInv, PrankKept, depth
  <1>3. BroadcastKept'
    <2> SUFFICES ASSUME broadcast # None PROVE BroadcastKept'
      BY DEF BroadcastKept
    <2>1. broadcast.depth \in 1 .. Len(stack)
      BY KeptAsked
    <2> QED
      BY <2>1 DEF CallersInv, BroadcastKept, depth
  <1>4. OneAsks'
    BY DEF CallersInv, OneAsks, depth
  <1>5. OriginKept'
    <2>1. ASSUME NEW k \in 1 .. Len(stack), k < depth PROVE Uncovered(k)' = Uncovered(k)
      <3>1. k + 1 \in 1 .. Len(stack)
        BY <1>1, <2>1 DEF depth
      <3> QED
        BY <3>1, SameUncovered
    <2>2. /\ prank # None => prank.depth \in 1 .. Len(stack)
          /\ broadcast # None => broadcast.depth \in 1 .. Len(stack)
      BY KeptAsked
    <2>3. depth' = depth
      BY DEF depth
    <2> QED
      BY <2>1, <2>2, <2>3 DEF CallersInv, OriginKept
  <1>6. Senders'
    <2>1. CASE Len(stack) = 0
      BY <2>1 DEF Senders, depth
    <2>2. CASE Len(stack) > 0
      <3>1. PICK d \in 1 .. Len(stack) : d = Len(stack)
        BY <1>1, <2>2
      <3>2. \A k \in 2 .. d : AsAsked(k)'
        BY <3>1, SameAsked DEF CallersInv
      <3> QED
        BY <3>1, <3>2 DEF Senders, depth
    <2> QED
      BY <1>1, <2>1, <2>2
  <1> QED
    BY <1>2, <1>3, <1>4, <1>5, <1>6 DEF CallersInv

LEMMA ExpectCallers ==
    ASSUME CTypeOK, CallersInv, NEW count \in 1 .. 2, ExpectRevert(count)
    PROVE  CallersInv'
  <1>1. Running /\ UNCHANGED <<prank, broadcast, origin>>
    BY DEF ExpectRevert, CanStep
  <1>2. Top = stack[Len(stack)] /\ Len(stack) \in Nat
    BY <1>1, TopType
  <1>3. /\ Len(stack') = Len(stack)
        /\ \A k \in 1 .. Len(stack) : /\ stack'[k].this = stack[k].this
                                      /\ stack'[k].sender = stack[k].sender
                                      /\ stack'[k].delegate = stack[k].delegate
                                      /\ stack'[k].next = stack[k].next
    BY <1>2, ExpectStack
  <1> QED
    BY <1>1, <1>3, SameCallers

\* The hooks give a call, or a delegate call, the sender its caller asked for.
LEMMA SenderAsked ==
    ASSUME CTypeOK, CallersInv, Running
    PROVE  /\ Sender(Top.this) = PlainSender(Top)
           /\ Sender(Top.sender) = DelegateSender(Top)
  <1>1. /\ depth = Len(stack) /\ Len(stack) \in Nat /\ Len(stack) > 0
        /\ Top = stack[Len(stack)]
    BY TopType
  <1>2. CASE broadcast # None /\ broadcast.depth = Len(stack)
    <2>1. Top.this = broadcast.original_caller /\ prank = None
      BY <1>1, <1>2 DEF CallersInv, PrankKept, BroadcastKept
    <2>2. Top.next # None /\ Top.next.who = broadcast.new_origin
      BY <1>1, <1>2, KeptAsked
    <2>3. \A caller : /\ ~PranksSender(caller)
                      /\ Broadcasts(caller) <=> caller = Top.this
      BY <1>1, <1>2, <2>1 DEF Broadcasts, PranksSender, PranksFrom
    <2>4. \A caller : Sender(caller) = IF caller = Top.this THEN broadcast.new_origin ELSE caller
      BY <2>3 DEF Sender
    <2> QED
      BY <2>2, <2>4 DEF PlainSender, DelegateSender
  <1>3. CASE prank # None /\ prank.depth = Len(stack)
    <2>1. broadcast = None /\ Top.this = prank.prank_caller
      BY <1>1, <1>3 DEF CallersInv, PrankKept
    <2>2. Top.next # None /\ Top.next.who = prank.new_caller
      BY <1>1, <1>3, KeptAsked
    <2>3. \A caller : /\ ~Broadcasts(caller)
                      /\ PranksSender(caller) <=> caller = Top.this
      BY <1>1, <1>3, <2>1 DEF Broadcasts, PranksSender, PranksFrom
    <2>4. \A caller : Sender(caller) = IF caller = Top.this THEN prank.new_caller ELSE caller
      BY <2>3 DEF Sender
    <2> QED
      BY <2>2, <2>4 DEF PlainSender, DelegateSender
  <1>4. CASE /\ ~(broadcast # None /\ broadcast.depth = Len(stack))
             /\ ~(prank # None /\ prank.depth = Len(stack))
    <2>1. Top.next = None
      BY <1>1, <1>4 DEF CallersInv, OneAsks
    <2>2. \A caller : ~Broadcasts(caller) /\ ~PranksSender(caller)
      BY <1>1, <1>4 DEF Broadcasts, PranksSender, PranksFrom
    <2>3. \A caller : Sender(caller) = caller
      BY <2>2 DEF Sender
    <2> QED
      BY <2>1, <2>3 DEF PlainSender, DelegateSender
  <1> QED
    BY <1>2, <1>3, <1>4

\* A prank of delegate calls is the request of one frame on the stack.
LEMMA Askers ==
    ASSUME CTypeOK, CallersInv
    PROVE  {j \in 1 .. Len(stack) : stack[j].next # None /\ stack[j].next.delegate}
              = IF PranksDelegate THEN {prank.depth} ELSE {}
  <1>1. /\ prank # None => /\ prank.depth \in 1 .. Len(stack)
                           /\ stack[prank.depth].next # None
                           /\ stack[prank.depth].next.delegate = prank.delegate_call
                           /\ broadcast = None
        /\ broadcast # None => stack[broadcast.depth].next.delegate = FALSE
    BY KeptAsked DEF CallersInv, PrankKept
  <1>2. \A j \in 1 .. Len(stack) : stack[j].next # None =>
           \/ prank # None /\ prank.depth = j
           \/ broadcast # None /\ broadcast.depth = j
    BY DEF CallersInv, OneAsks, depth
  <1>3. CASE PranksDelegate
    BY <1>1, <1>2, <1>3 DEF PranksDelegate
  <1>4. CASE ~PranksDelegate
    BY <1>1, <1>2, <1>4 DEF PranksDelegate
  <1> QED
    BY <1>3, <1>4

\* What a new frame must be, by the callers in force.
Due(to, sender, delegate) ==
    IF ~delegate THEN sender = PlainSender(Top)
    ELSE IF PranksDelegate THEN to = prank.new_caller /\ sender = prank.new_caller
    ELSE to = Top.this /\ sender = DelegateSender(Top)

\* What tx.origin must be in it.
OriginDue(delegate) ==
    /\ \/ origin' = origin
       \/ prank # None /\ prank.new_origin # None /\ origin' = prank.new_origin
       \/ broadcast # None /\ origin' = broadcast.new_origin
    /\ prank # None /\ prank.depth = Len(stack) /\ prank.new_origin # None =>
          \/ origin' = prank.new_origin
          \/ delegate /\ ~prank.delegate_call /\ Top.sender # Top.this
    /\ broadcast # None /\ broadcast.depth = Len(stack) =>
          \/ origin' = broadcast.new_origin
          \/ delegate /\ Top.sender # Top.this

\* Call and Create: the callers in force reach into the new frame.
LEMMA PushCallers ==
    ASSUME CTypeOK, CallersInv, Running, NEW to \in Contracts, NEW sender \in Contracts \cup Eoas,
           NEW delegate \in BOOLEAN, Pushes(to, sender, delegate), Due(to, sender, delegate),
           prank' = prank \/ (prank # None /\ prank' = Applied),
           broadcast' = broadcast,
           OriginDue(delegate)
    PROVE  CallersInv'
  <1>1. /\ depth = Len(stack) /\ Len(stack) \in Nat /\ Len(stack) > 0
        /\ Top = stack[Len(stack)]
    BY TopType
  <1>2. /\ Len(stack') = Len(stack) + 1
        /\ \A k \in 1 .. Len(stack) : /\ stack'[k].this = stack[k].this
                                      /\ stack'[k].sender = stack[k].sender
                                      /\ stack'[k].delegate = stack[k].delegate
                                      /\ stack'[k].next = stack[k].next
        /\ stack'[Len(stack) + 1].this = to
        /\ stack'[Len(stack) + 1].sender = sender
        /\ stack'[Len(stack) + 1].delegate = delegate
        /\ stack'[Len(stack) + 1].next = None
    BY PushStack
  <1>3. /\ (prank' # None) <=> (prank # None)
        /\ prank # None => /\ prank'.prank_caller = prank.prank_caller
                           /\ prank'.prank_origin = prank.prank_origin
                           /\ prank'.new_caller = prank.new_caller
                           /\ prank'.new_origin = prank.new_origin
                           /\ prank'.depth = prank.depth
                           /\ prank'.single_call = prank.single_call
                           /\ prank'.delegate_call = prank.delegate_call
    <2>1. CASE prank' = prank
      BY <2>1
    <2>2. CASE prank # None /\ prank' = Applied
      <3>1. prank \in PrankType
        BY <2>2 DEF CTypeOK
      <3>2. prank' \in PrankType
        BY <2>2, <3>1 DEF Applied, PrankType
      <3>3. prank' # None
        BY <3>2, NoneApart
      <3> QED
        BY <2>2, <3>1, <3>3 DEF Applied, PrankType
    <2> QED
      BY <2>1, <2>2
  <1>4. PrankKept'
    <2> SUFFICES ASSUME prank # None PROVE PrankKept'
      BY <1>3 DEF PrankKept
    <2>1. prank.depth \in 1 .. Len(stack)
      BY KeptAsked
    <2>2. /\ broadcast = None
          /\ prank.prank_caller = stack[prank.depth].this
          /\ prank.prank_origin = Runner
          /\ stack[prank.depth].next = [who |-> prank.new_caller, origin |-> prank.new_origin,
                                        once |-> prank.single_call,
                                        delegate |-> prank.delegate_call]
      BY DEF CallersInv, PrankKept
    <2>3. prank.depth <= Len(stack')
      BY <1>1, <1>2, <2>1
    <2>4. /\ prank'.prank_caller = stack'[prank'.depth].this
          /\ stack'[prank'.depth].next = [who |-> prank'.new_caller, origin |-> prank'.new_origin,
                                          once |-> prank'.single_call,
                                          delegate |-> prank'.delegate_call]
      BY <1>2, <1>3, <2>1, <2>2
    <2> QED
      BY <1>3, <2>2, <2>3, <2>4 DEF PrankKept, depth
  <1>5. BroadcastKept'
    <2> SUFFICES ASSUME broadcast # None PROVE BroadcastKept'
      BY DEF BroadcastKept
    <2>1. broadcast.depth \in 1 .. Len(stack)
      BY KeptAsked
    <2> QED
      BY <1>1, <1>2, <2>1 DEF CallersInv, BroadcastKept, depth
  <1>6. OneAsks'
    <2> SUFFICES ASSUME NEW k \in 1 .. Len(stack'), stack'[k].next # None
                 PROVE  \/ prank' # None /\ prank'.depth = k
                        \/ broadcast' # None /\ broadcast'.depth = k
      BY DEF OneAsks, depth
    <2>1. k \in 1 .. Len(stack) /\ stack[k].next # None
      BY <1>1, <1>2
    <2> QED
      BY <1>3, <2>1 DEF CallersInv, OneAsks, depth
  <1>7. OriginKept'
    <2>0. \A k \in 1 .. Len(stack) : k < Len(stack) => Uncovered(k)' = Uncovered(k)
      <3> SUFFICES ASSUME NEW k \in 1 .. Len(stack), k < Len(stack)
                   PROVE  Uncovered(k)' = Uncovered(k)
        OBVIOUS
      <3>1. k + 1 \in 1 .. Len(stack)
        BY <1>1
      <3> QED
        BY <1>2, <3>1, SameUncovered
    <2>a. ASSUME NEW k \in 1 .. Len(stack), k = Len(stack),
                 delegate, ~Top.next.delegate, Top.sender # Top.this
          PROVE  Uncovered(k)'
      <3>1. /\ stack'[k].next = Top.next
            /\ stack'[k].sender = Top.sender
            /\ stack'[k].this = Top.this
            /\ stack'[k + 1].delegate = delegate
        BY <1>1, <1>2, <2>a
      <3> QED
        BY <2>a, <3>1 DEF Uncovered
    <2>1. CASE prank # None
      <3>1. prank.depth \in 1 .. Len(stack) /\ broadcast = None
        BY <2>1, KeptAsked DEF CallersInv, PrankKept
      <3>2. prank'.depth < depth' /\ prank' # None /\ broadcast' = None
        BY <1>1, <1>2, <1>3, <2>1, <3>1 DEF depth
      <3>3. CASE prank.new_origin = None
        <4>1. origin = Runner /\ origin' = origin
          BY <3>1, <3>3 DEF CallersInv, OriginKept, OriginDue
        <4> QED
          BY <1>3, <2>1, <3>2, <3>3, <4>1 DEF OriginKept
      <3>4. CASE prank.new_origin # None
        <4>1. \/ origin' = prank.new_origin
              \/ origin' = Runner /\ Uncovered(prank.depth)'
          <5>1. origin' = origin \/ origin' = prank.new_origin
            BY <2>1, <3>1 DEF OriginDue
          <5>2. CASE prank.depth = Len(stack)
            <6>1. origin = Runner
              BY <1>1, <3>1, <5>2 DEF CallersInv, OriginKept
            <6>2. Top.next.delegate = prank.delegate_call
              BY <1>1, <2>1, <5>2, KeptAsked
            <6>3. \/ origin' = prank.new_origin
                  \/ delegate /\ ~prank.delegate_call /\ Top.sender # Top.this
              BY <2>1, <3>4, <5>2 DEF OriginDue
            <6>4. PICK k \in 1 .. Len(stack) : k = prank.depth
              BY <3>1
            <6>5. origin' = prank.new_origin \/ Uncovered(k)'
              BY <2>a, <5>2, <6>2, <6>3, <6>4
            <6>6. k = prank'.depth
              BY <1>3, <2>1, <6>4
            <6> QED
              BY <5>1, <6>1, <6>5, <6>6
          <5>3. CASE prank.depth # Len(stack)
            <6>1. prank.depth < depth /\ prank.depth < Len(stack)
              BY <1>1, <3>1, <5>3
            <6>2. origin = prank.new_origin \/ (origin = Runner /\ Uncovered(prank.depth))
              BY <2>1, <3>4, <6>1 DEF CallersInv, OriginKept
            <6>3. Uncovered(prank.depth)' = Uncovered(prank.depth) \/ prank'.depth # prank.depth
              BY <1>3, <2>0, <2>1, <3>1, <6>1
            <6>4. PICK k \in 1 .. Len(stack) : k = prank.depth
              BY <3>1
            <6>5. Uncovered(k)' = Uncovered(k) /\ k = prank'.depth
              BY <1>3, <2>0, <2>1, <6>1, <6>4
            <6> QED
              BY <5>1, <6>2, <6>4, <6>5
          <5> QED
            BY <5>2, <5>3
        <4> QED
          BY <1>3, <2>1, <3>2, <3>4, <4>1 DEF OriginKept
      <3> QED
        BY <3>3, <3>4
    <2>2. CASE prank = None /\ broadcast # None
      <3>1. broadcast.depth \in 1 .. Len(stack)
        BY <2>2, KeptAsked
      <3>2. broadcast'.depth < depth' /\ prank' = None
        BY <1>1, <1>2, <1>3, <2>2, <3>1 DEF depth
      <3>3. PICK k \in 1 .. Len(stack) : k = broadcast.depth
        BY <3>1
      <3>4. origin' = origin \/ origin' = broadcast.new_origin
        BY <2>2 DEF OriginDue
      <3>5. CASE k = Len(stack)
        <4>1. origin = Runner
          BY <1>1, <2>2, <3>1, <3>3, <3>5 DEF CallersInv, OriginKept
        <4>2. ~Top.next.delegate
          BY <1>1, <2>2, <3>3, <3>5, KeptAsked
        <4>3. origin' = broadcast.new_origin \/ (delegate /\ Top.sender # Top.this)
          BY <2>2, <3>3, <3>5 DEF OriginDue
        <4>4. origin' = broadcast.new_origin \/ (origin' = Runner /\ Uncovered(k)')
          BY <2>a, <3>4, <3>5, <4>1, <4>2, <4>3
        <4> QED
          BY <2>2, <3>2, <3>3, <4>4 DEF OriginKept
      <3>6. CASE k # Len(stack)
        <4>1. k < depth /\ k < Len(stack)
          BY <1>1, <3>6
        <4>2. origin = broadcast.new_origin \/ (origin = Runner /\ Uncovered(k))
          BY <2>2, <3>3, <4>1 DEF CallersInv, OriginKept
        <4>3. Uncovered(k)' = Uncovered(k)
          BY <2>0, <4>1
        <4> QED
          BY <2>2, <3>2, <3>3, <3>4, <4>2, <4>3 DEF OriginKept
      <3> QED
        BY <3>5, <3>6
    <2>3. CASE prank = None /\ broadcast = None
      <3>1. origin' = origin /\ origin = Runner
        BY <2>3 DEF CallersInv, OriginKept, OriginDue
      <3> QED
        BY <1>3, <2>3, <3>1 DEF OriginKept
    <2> QED
      BY <2>1, <2>2, <2>3
  <1>8. Senders'
    <2>1. PICK d \in 1 .. Len(stack) : d = Len(stack)
      BY <1>1
    <2>2. \A k \in 2 .. d : AsAsked(k)'
      BY <1>2, <2>1, SameAsked DEF CallersInv
    <2>3. AsAsked(d + 1)'
      <3>1. /\ stack'[d].this = Top.this /\ stack'[d].sender = Top.sender
            /\ stack'[d].next = Top.next
        BY <1>1, <1>2, <2>1
      <3>2. /\ stack'[d + 1].this = to /\ stack'[d + 1].sender = sender
            /\ stack'[d + 1].delegate = delegate /\ d + 1 - 1 = d
        BY <1>1, <1>2, <2>1
      <3>3. /\ PlainSender(stack'[d]) = PlainSender(Top)
            /\ DelegateSender(stack'[d]) = DelegateSender(Top)
        BY <3>1 DEF PlainSender, DelegateSender
      <3>4. DelegateAskers(d + 1)' = IF PranksDelegate THEN {prank.depth} ELSE {}
        <4>1. DelegateAskers(d + 1)'
                = {j \in 1 .. d : stack'[j].next # None /\ stack'[j].next.delegate}
          BY <3>2 DEF DelegateAskers
        <4>2. @ = {j \in 1 .. d : stack[j].next # None /\ stack[j].next.delegate}
          BY <1>2, <2>1
        <4> QED
          BY <2>1, <4>1, <4>2, Askers
      <3>5. CASE ~delegate
        <4>1. stack'[d + 1].sender = PlainSender(stack'[d])
          BY <3>2, <3>3, <3>5 DEF Due
        <4> QED
          BY <3>2, <3>5, <4>1 DEF AsAsked
      <3>6. CASE delegate /\ PranksDelegate
        <4>1. PICK j \in 1 .. Len(stack) : j = prank.depth
          BY <3>6, KeptAsked DEF PranksDelegate
        <4>2. stack'[j].next.who = prank.new_caller
          BY <1>2, <3>6, <4>1, KeptAsked DEF PranksDelegate
        <4>3. DelegateAskers(d + 1)' = {j}
          BY <3>4, <3>6, <4>1
        <4>4. stack'[d + 1].this = stack'[j].next.who /\ stack'[d + 1].sender = stack'[j].next.who
          BY <3>2, <3>6, <4>2 DEF Due
        <4> QED
          BY <3>2, <3>6, <4>3, <4>4 DEF AsAsked
      <3>7. CASE delegate /\ ~PranksDelegate
        <4>1. stack'[d + 1].this = stack'[d].this /\ stack'[d + 1].sender = DelegateSender(stack'[d])
          BY <3>1, <3>2, <3>3, <3>7 DEF Due
        <4>2. DelegateAskers(d + 1)' = {}
          BY <3>4, <3>7
        <4> QED
          BY <3>2, <3>7, <4>1, <4>2 DEF AsAsked
      <3> QED
        BY <3>5, <3>6, <3>7
    <2> QED
      <3>1. \A k \in 2 .. d + 1 : k \in 2 .. d \/ k = d + 1
        BY <1>1, <2>1
      <3>2. depth' = d + 1
        BY <1>2, <2>1 DEF depth
      <3> QED
        BY <2>2, <2>3, <3>1, <3>2 DEF Senders
  <1> QED
    BY <1>4, <1>5, <1>6, <1>7, <1>8 DEF CallersInv

\* The hooks after a call of frame d clear the callers of d that were for one
\* call and put its origin back; all else stays in force.
LEMMA HooksCallers ==
    ASSUME CTypeOK, CallersInv, NEW d \in 1 .. Len(stack),
           \A k \in 1 .. Len(stack) : k > d => stack[k].next = None,
           Len(stack') = d,
           \A k \in 1 .. d : k # d => stack'[k] = stack[k],
           stack'[d].this = stack[d].this,
           stack'[d].sender = stack[d].sender,
           stack'[d].delegate = stack[d].delegate,
           stack'[d].next =
              IF stack[d].next # None /\ stack[d].next.once THEN None ELSE stack[d].next,
           origin' = OriginAfter(d),
           prank' = Clear(prank, d),
           broadcast' = Clear(broadcast, d)
    PROVE  CallersInv'
  <1>1. /\ Len(stack) \in Nat
        /\ d \in Nat /\ d > 0 /\ d <= Len(stack)
    BY DEF CTypeOK
  <1>2. ASSUME prank # None
        PROVE  /\ prank.depth \in 1 .. d
               /\ broadcast = None
               /\ prank.prank_caller = stack[prank.depth].this
               /\ prank.prank_origin = Runner
               /\ stack[prank.depth].next = [who |-> prank.new_caller,
                                             origin |-> prank.new_origin,
                                             once |-> prank.single_call,
                                             delegate |-> prank.delegate_call]
               /\ stack[prank.depth].next.once = prank.single_call
    <2>1. prank.depth \in 1 .. Len(stack) /\ stack[prank.depth].next # None
      BY <1>2, KeptAsked
    <2>2. prank.depth \in 1 .. d
      BY <1>1, <2>1
    <2> QED
      BY <1>2, <2>2, KeptAsked DEF CallersInv, PrankKept
  <1>3. ASSUME broadcast # None
        PROVE  /\ broadcast.depth \in 1 .. d
               /\ prank = None
               /\ broadcast.original_caller = stack[broadcast.depth].this
               /\ broadcast.original_origin = Runner
               /\ stack[broadcast.depth].next = [who |-> broadcast.new_origin,
                                                 origin |-> broadcast.new_origin,
                                                 once |-> broadcast.single_call,
                                                 delegate |-> FALSE]
               /\ stack[broadcast.depth].next.once = broadcast.single_call
    <2>1. broadcast.depth \in 1 .. Len(stack) /\ stack[broadcast.depth].next # None
      BY <1>3, KeptAsked
    <2>2. broadcast.depth \in 1 .. d
      BY <1>1, <2>1
    <2> QED
      BY <1>3, <2>2, KeptAsked DEF CallersInv, PrankKept, BroadcastKept
  <1>4. /\ prank' = IF prank # None /\ d = prank.depth /\ prank.single_call THEN None ELSE prank
        /\ broadcast' = IF broadcast # None /\ d = broadcast.depth /\ broadcast.single_call
                        THEN None ELSE broadcast
    BY DEF Clear
  <1>5. PrankKept'
    <2> SUFFICES ASSUME prank' # None PROVE PrankKept'
      BY DEF PrankKept
    <2>1. /\ prank' = prank /\ prank # None
          /\ ~(d = prank.depth /\ prank.single_call)
      BY <1>4
    <2>2. broadcast' = None
      BY <1>2, <1>4, <2>1
    <2>3. CASE prank.depth = d
      <3>1. stack'[d].next = stack[d].next
        BY <1>2, <2>1, <2>3
      <3> QED
        BY <1>1, <1>2, <2>1, <2>2, <2>3, <3>1 DEF PrankKept, depth
    <2>4. CASE prank.depth # d
      <3>1. stack'[prank.depth] = stack[prank.depth] /\ prank.depth <= d
        BY <1>2, <2>1, <2>4
      <3> QED
        BY <1>1, <1>2, <2>1, <2>2, <3>1 DEF PrankKept, depth
    <2> QED
      BY <2>3, <2>4
  <1>6. BroadcastKept'
    <2> SUFFICES ASSUME broadcast' # None PROVE BroadcastKept'
      BY DEF BroadcastKept
    <2>1. /\ broadcast' = broadcast /\ broadcast # None
          /\ ~(d = broadcast.depth /\ broadcast.single_call)
      BY <1>4
    <2>2. CASE broadcast.depth = d
      <3>1. stack'[d].next = stack[d].next
        BY <1>3, <2>1, <2>2
      <3> QED
        BY <1>1, <1>3, <2>1, <2>2, <3>1 DEF BroadcastKept, depth
    <2>3. CASE broadcast.depth # d
      <3>1. stack'[broadcast.depth] = stack[broadcast.depth] /\ broadcast.depth <= d
        BY <1>3, <2>1, <2>3
      <3> QED
        BY <1>1, <1>3, <2>1, <3>1 DEF BroadcastKept, depth
    <2> QED
      BY <2>2, <2>3
  <1>7. OneAsks'
    <2> SUFFICES ASSUME NEW k \in 1 .. d, stack'[k].next # None
                 PROVE  \/ prank' # None /\ prank'.depth = k
                        \/ broadcast' # None /\ broadcast'.depth = k
      BY DEF OneAsks, depth
    <2>1. stack[k].next # None /\ (k = d => ~stack[k].next.once)
      BY <1>1
    <2>2. k \in 1 .. depth
      BY <1>1 DEF depth
    <2>3. \/ prank # None /\ prank.depth = k
          \/ broadcast # None /\ broadcast.depth = k
      BY <2>1, <2>2 DEF CallersInv, OneAsks
    <2>4. CASE prank # None /\ prank.depth = k
      <3>1. prank' = prank
        BY <1>2, <1>4, <2>1, <2>4
      <3> QED
        BY <2>4, <3>1
    <2>5. CASE broadcast # None /\ broadcast.depth = k
      <3>1. broadcast' = broadcast
        BY <1>3, <1>4, <2>1, <2>5
      <3> QED
        BY <2>5, <3>1
    <2> QED
      BY <2>3, <2>4, <2>5
  <1>8. OriginKept'
    <2>0. ASSUME NEW k \in 1 .. d, k < d PROVE Uncovered(k)' = Uncovered(k)
      <3>1. k # d /\ k + 1 \in 1 .. d
        BY <1>1, <2>0
      <3>2. stack'[k] = stack[k] /\ stack'[k + 1].delegate = stack[k + 1].delegate
        BY <3>1
      <3> QED
        BY <3>2, SameUncovered
    <2>d. depth' = d
      BY DEF depth
    <2>1. CASE prank # None
      <3>1. broadcast = None /\ broadcast' = None
        BY <1>2, <1>4, <2>1
      <3>2. PICK k \in 1 .. d : k = prank.depth
        BY <1>2, <2>1
      <3>3. CASE k = d
        <4>1. origin' = Runner
          BY <1>2, <2>1, <3>1, <3>2, <3>3 DEF OriginAfter
        <4>2. ~(prank' # None /\ prank'.depth < d)
          <5>1. prank' = None \/ prank'.depth = d
            BY <1>4, <3>2, <3>3, Zenon
          <5>2. ~(d < d)
            BY <1>1
          <5> QED
            BY <5>1, <5>2, Zenon
        <4> QED
          BY <2>d, <3>1, <4>1, <4>2 DEF OriginKept
      <3>4. CASE k # d
        <4>1. /\ origin' = origin
              /\ prank' = prank
              /\ k < d
              /\ k < depth
          BY <1>1, <1>4, <3>1, <3>2, <3>4 DEF OriginAfter, depth
        <4>2. IF prank.new_origin # None
              THEN origin = prank.new_origin \/ (origin = Runner /\ Uncovered(k))
              ELSE origin = Runner
          BY <2>1, <3>1, <3>2, <4>1 DEF CallersInv, OriginKept
        <4>3. Uncovered(k)' = Uncovered(k)
          BY <2>0, <4>1
        <4> QED
          BY <2>1, <2>d, <3>1, <3>2, <4>1, <4>2, <4>3 DEF OriginKept
      <3> QED
        BY <3>3, <3>4
    <2>2. CASE prank = None /\ broadcast # None
      <3>1. prank' = None
        BY <1>4, <2>2
      <3>2. PICK k \in 1 .. d : k = broadcast.depth
        BY <1>3, <2>2
      <3>3. CASE k = d
        <4>1. origin' = Runner
          BY <1>3, <2>2, <3>2, <3>3 DEF OriginAfter
        <4>2. ~(broadcast' # None /\ broadcast'.depth < d)
          <5>1. broadcast' = None \/ broadcast'.depth = d
            BY <1>4, <3>2, <3>3, Zenon
          <5>2. ~(d < d)
            BY <1>1
          <5> QED
            BY <5>1, <5>2, Zenon
        <4> QED
          BY <2>d, <3>1, <4>1, <4>2 DEF OriginKept
      <3>4. CASE k # d
        <4>1. /\ origin' = origin
              /\ broadcast' = broadcast
              /\ k < d
              /\ k < depth
          BY <1>1, <1>4, <2>2, <3>1, <3>2, <3>4 DEF OriginAfter, depth
        <4>2. origin = broadcast.new_origin \/ (origin = Runner /\ Uncovered(k))
          BY <2>2, <3>2, <4>1 DEF CallersInv, OriginKept
        <4>3. Uncovered(k)' = Uncovered(k)
          BY <2>0, <4>1
        <4> QED
          BY <2>2, <2>d, <3>1, <3>2, <4>1, <4>2, <4>3 DEF OriginKept
      <3> QED
        BY <3>3, <3>4
    <2>3. CASE prank = None /\ broadcast = None
      <3>1. prank' = None /\ broadcast' = None
        BY <1>4, <2>3
      <3>2. origin' = origin /\ origin = Runner
        BY <2>3 DEF OriginAfter, CallersInv, OriginKept
      <3> QED
        BY <3>1, <3>2 DEF OriginKept
    <2> QED
      BY <2>1, <2>2, <2>3
  <1>9. Senders'
    <2>1. \A k \in 1 .. Len(stack) : k < d => stack'[k] = stack[k]
      BY <1>1
    <2>2. \A k \in 2 .. d : AsAsked(k)'
      BY <2>1, SameAsked DEF CallersInv
    <2> QED
      BY <2>2 DEF Senders, depth
  <1> QED
    BY <1>5, <1>6, <1>7, <1>8, <1>9 DEF CallersInv

LEMMA RootCallers == ASSUME CTypeOK, CallersInv, RootCall PROVE CallersInv'
  <1>1. /\ Len(stack) = 0
        /\ Len(stack') = 1
        /\ stack'[1] = Frame(Test, Runner, FALSE)
        /\ UNCHANGED <<prank, broadcast, origin>>
    BY DEF RootCall, cheats
  <1>2. prank = None /\ broadcast = None
    BY <1>1, KeptAsked
  <1>3. origin = Runner
    BY <1>2 DEF CallersInv, OriginKept
  <1>4. stack'[1].next = None
    BY <1>1 DEF Frame
  <1>5. OneAsks'
    <2>1. depth' = 1
      BY <1>1 DEF depth
    <2>2. \A k \in 1 .. 1 : stack'[k].next = None
      BY <1>4
    <2> QED
      BY <2>1, <2>2 DEF OneAsks
  <1>6. Senders'
    BY <1>1 DEF Senders, depth
  <1> QED
    BY <1>1, <1>2, <1>3, <1>5, <1>6 DEF CallersInv, PrankKept, BroadcastKept, OriginKept

\* The hook's choice of tx.origin, for a caller with the address of the frame or
\* with its sender.
LEMMA OriginChosen ==
    ASSUME CTypeOK, CallersInv, Running, NEW caller \in {Top.this, Top.sender}, NEW delegate \in BOOLEAN,
           caller = Top.this \/ (delegate /\ ~PranksDelegate),
           broadcast' = broadcast,
           \/ origin' = IF Broadcasts(caller) THEN broadcast.new_origin
                        ELSE IF PranksOrigin(caller) THEN prank.new_origin ELSE origin
           \/ /\ caller = Top.this
              /\ origin' = IF BroadcastsCreate THEN broadcast.new_origin
                           ELSE IF PranksOrigin(caller) THEN prank.new_origin ELSE origin
    PROVE  OriginDue(delegate)
  <1>1. /\ depth = Len(stack) /\ Len(stack) \in Nat /\ Len(stack) > 0
        /\ Top = stack[Len(stack)]
    BY TopType
  <1>2. \/ origin' = origin
        \/ prank # None /\ prank.new_origin # None /\ origin' = prank.new_origin
        \/ broadcast # None /\ origin' = broadcast.new_origin
    BY DEF Broadcasts, BroadcastsCreate, PranksOrigin, PranksFrom
  <1>3. ASSUME prank # None, prank.depth = Len(stack), prank.new_origin # None
        PROVE  \/ origin' = prank.new_origin
               \/ delegate /\ ~prank.delegate_call /\ Top.sender # Top.this
    <2>1. broadcast = None /\ Top.this = prank.prank_caller
      BY <1>1, <1>3 DEF CallersInv, PrankKept
    <2>2. ~Broadcasts(caller) /\ ~BroadcastsCreate
      BY <2>1 DEF Broadcasts, BroadcastsCreate
    <2>3. PranksOrigin(caller) <=> caller = Top.this
      BY <1>1, <1>3, <2>1 DEF PranksOrigin, PranksFrom
    <2>4. CASE caller = Top.this
      BY <2>2, <2>3, <2>4, Zenon
    <2>5. CASE caller # Top.this
      BY <1>3, <2>5 DEF PranksDelegate
    <2> QED
      BY <2>4, <2>5
  <1>4. ASSUME broadcast # None, broadcast.depth = Len(stack)
        PROVE  origin' = broadcast.new_origin \/ (delegate /\ Top.sender # Top.this)
    <2>1. Top.this = broadcast.original_caller
      BY <1>1, <1>4 DEF CallersInv, BroadcastKept
    <2>2. (caller = Top.this => Broadcasts(caller)) /\ BroadcastsCreate
      BY <1>1, <1>4, <2>1 DEF Broadcasts, BroadcastsCreate
    <2>4. CASE caller = Top.this
      BY <2>2, <2>4, Zenon
    <2>5. CASE caller # Top.this
      BY <2>5
    <2> QED
      BY <2>4, <2>5
  <1> QED
    BY <1>2, <1>3, <1>4 DEF OriginDue

LEMMA CallCallers ==
    ASSUME CTypeOK, CallersInv, NEW to \in Contracts,
           Create(to) \/ \E static \in BOOLEAN : Call(to, static)
    PROVE  CallersInv'
  <1>1. /\ Running
        /\ Pushes(to, Sender(Top.this), FALSE)
        /\ broadcast' = broadcast
    BY DEF Call, Enter, Create, CanStep, Pushes
  <1>2. prank' = prank \/ (prank # None /\ prank' = Applied)
    BY DEF Call, Enter, Create, PranksSender, PranksOrigin, PranksFrom
  <1>3. Top.this \in Contracts
    BY <1>1, TopType DEF FrameType
  <1>4. PICK sender \in Contracts \cup Eoas : sender = Sender(Top.this)
    BY <1>1, <1>3, TopType
  <1>5. PICK delegate \in BOOLEAN : delegate = FALSE
    OBVIOUS
  <1>6. Due(to, sender, delegate)
    BY <1>1, <1>4, <1>5, SenderAsked DEF Due
  <1>7. PICK caller \in {Top.this, Top.sender} : caller = Top.this
    OBVIOUS
  <1>8. \/ origin' = IF Broadcasts(caller) THEN broadcast.new_origin
                     ELSE IF PranksOrigin(caller) THEN prank.new_origin ELSE origin
        \/ origin' = IF BroadcastsCreate THEN broadcast.new_origin
                     ELSE IF PranksOrigin(caller) THEN prank.new_origin ELSE origin
    BY <1>7, Zenon DEF Call, Enter, Create
  <1>9. OriginDue(delegate)
    BY <1>1, <1>7, <1>8, OriginChosen
  <1> QED
    BY <1>1, <1>2, <1>4, <1>5, <1>6, <1>9, PushCallers

LEMMA DelegateCallers ==
    ASSUME CTypeOK, CallersInv, NEW static \in BOOLEAN, DelegateCall(static)
    PROVE  CallersInv'
  <1>1. Running /\ broadcast' = broadcast
    BY DEF DelegateCall, Enter, CanStep
  <1>2. prank' = prank \/ (prank # None /\ prank' = Applied)
    BY DEF DelegateCall, Enter, PranksSender, PranksOrigin, PranksFrom
  <1>3. Top.this \in Contracts /\ Top.sender \in Contracts \cup Eoas
    BY <1>1, TopType DEF FrameType
  <1>4. PICK delegate \in BOOLEAN : delegate = TRUE
    OBVIOUS
  <1>5. CASE ~PranksDelegate
    <2>1. Pushes(Top.this, Sender(Top.sender), delegate)
      BY <1>4, <1>5 DEF DelegateCall, Enter, Pushes
    <2>2. PICK to \in Contracts, sender \in Contracts \cup Eoas :
             to = Top.this /\ sender = Sender(Top.sender)
      BY <1>1, <1>3, TopType
    <2>3. Due(to, sender, delegate)
      BY <1>1, <1>4, <1>5, <2>2, SenderAsked DEF Due
    <2>4. PICK caller \in {Top.this, Top.sender} : caller = Top.sender
      OBVIOUS
    <2>5. origin' = IF Broadcasts(caller) THEN broadcast.new_origin
                    ELSE IF PranksOrigin(caller) THEN prank.new_origin ELSE origin
      BY <1>5, <2>4, Zenon DEF DelegateCall, Enter
    <2>6. OriginDue(delegate)
      BY <1>1, <1>4, <1>5, <2>4, <2>5, OriginChosen
    <2> QED
      BY <1>1, <1>2, <2>1, <2>2, <2>3, <2>6, PushCallers
  <1>6. CASE PranksDelegate
    <2>1. prank # None /\ broadcast = None /\ prank.new_caller \in Contracts /\ prank.delegate_call
      BY <1>6 DEF PranksDelegate, CallersInv, PrankKept, CTypeOK
    <2>2. \A caller : ~Broadcasts(caller)
      BY <2>1 DEF Broadcasts
    <2>3. Sender(prank.new_caller) = prank.new_caller
      BY <2>2 DEF Sender
    <2>4. PICK to \in Contracts, sender \in Contracts \cup Eoas :
             to = prank.new_caller /\ sender = prank.new_caller
      BY <2>1
    <2>5. Pushes(to, sender, delegate)
      BY <1>4, <1>6, <2>3, <2>4 DEF DelegateCall, Enter, Pushes
    <2>6. Due(to, sender, delegate)
      BY <1>4, <1>6, <2>4 DEF Due
    <2>7. origin' = IF prank.new_origin # None THEN prank.new_origin ELSE origin
      BY <1>6, <2>2 DEF DelegateCall, Enter, PranksOrigin
    <2>8. OriginDue(delegate)
      BY <2>1, <2>7 DEF OriginDue
    <2> QED
      BY <1>1, <1>2, <2>5, <2>6, <2>8, PushCallers
  <1> QED
    BY <1>5, <1>6

LEMMA CallEndsCallers ==
    ASSUME CTypeOK, CallersInv, Running, NEW outcome, CallEnds(outcome)
    PROVE  CallersInv'
  <1>1. /\ depth = Len(stack) /\ Len(stack) \in Nat /\ Len(stack) > 0
        /\ Top = stack[Len(stack)]
    BY TopType
  <1>2. PICK d \in 1 .. Len(stack) : d = Len(stack)
    BY <1>1
  <1>3. /\ Len(stack') = Len(stack)
        /\ \A k \in 1 .. Len(stack) : k # Len(stack) => stack'[k] = stack[k]
        /\ stack'[Len(stack)].this = Top.this
        /\ stack'[Len(stack)].sender = Top.sender
        /\ stack'[Len(stack)].delegate = Top.delegate
        /\ stack'[Len(stack)].next =
             IF Top.next # None /\ Top.next.once THEN None ELSE Top.next
    BY CallEndsStack
  <1>4. /\ Len(stack') = d
        /\ \A k \in 1 .. d : k # d => stack'[k] = stack[k]
        /\ stack'[d].this = stack[d].this
        /\ stack'[d].sender = stack[d].sender
        /\ stack'[d].delegate = stack[d].delegate
        /\ stack'[d].next =
             IF stack[d].next # None /\ stack[d].next.once THEN None ELSE stack[d].next
    BY <1>1, <1>2, <1>3
  <1>5. \A k \in 1 .. Len(stack) : k > d => stack[k].next = None
    BY <1>1, <1>2
  <1>6. origin' = OriginAfter(d) /\ prank' = Clear(prank, d) /\ broadcast' = Clear(broadcast, d)
    BY <1>1, <1>2 DEF CallEnds, EndHooks
  <1> QED
    BY <1>4, <1>5, <1>6, HooksCallers

LEMMA EndCallers ==
    ASSUME CTypeOK, CallersInv, ~past.meddled, ~past'.meddled, NEW outcome, End(outcome)
    PROVE  CallersInv'
  <1>1. Running
    BY DEF End
  <1>2. /\ depth = Len(stack) /\ Len(stack) \in Nat /\ Len(stack) > 0
        /\ Top = stack[Len(stack)]
    BY <1>1, TopType
  <1>3. past'.meddled = (past.meddled \/ Top.next # None)
    BY DEF End
  <1>4. Top.next = None
    BY <1>3
  <1>5. /\ origin' = OriginAfter(Len(stack) - 1)
        /\ prank' = Clear(prank, Len(stack) - 1)
        /\ broadcast' = Clear(broadcast, Len(stack) - 1)
    BY <1>2 DEF End, EndHooks
  <1>6. CASE Len(stack) > 1
    <2>0. Len(stack) - 1 \in 1 .. Len(stack)
      BY <1>2, <1>6
    <2>1. PICK d \in 1 .. Len(stack) : d = Len(stack) - 1
      BY <2>0
    <2>2. \A k \in 1 .. Len(stack) : k > d => stack[k].next = None
      BY <1>2, <1>4, <2>1
    <2>3. /\ Len(stack') = d
          /\ \A k \in 1 .. d : k # d => stack'[k] = stack[k]
          /\ stack'[d].this = stack[d].this
          /\ stack'[d].sender = stack[d].sender
          /\ stack'[d].delegate = stack[d].delegate
          /\ stack'[d].next =
               IF stack[d].next # None /\ stack[d].next.once THEN None ELSE stack[d].next
      BY <1>6, <2>1, EndStack
    <2>4. origin' = OriginAfter(d) /\ prank' = Clear(prank, d) /\ broadcast' = Clear(broadcast, d)
      BY <1>5, <2>1
    <2> QED
      BY <2>2, <2>3, <2>4, HooksCallers
  <1>7. CASE Len(stack) = 1
    <2>1. prank = None /\ broadcast = None
      <3>1. \A k \in 1 .. Len(stack) : stack[k].next = None
        BY <1>2, <1>4, <1>7
      <3> QED
        BY <3>1, KeptAsked
    <2>2. prank' = None /\ broadcast' = None /\ origin' = origin
      BY <1>5, <2>1 DEF Clear, OriginAfter
    <2>3. origin = Runner
      BY <2>1 DEF CallersInv, OriginKept
    <2>4. stack' = <<>>
      BY <1>2, <1>7 DEF End, EndHooks
    <2>5. Len(stack') = 0
      BY <2>4
    <2> QED
      BY <2>2, <2>3, <2>5
         DEF CallersInv, PrankKept, BroadcastKept, OneAsks, OriginKept, Senders, depth
  <1> QED
    BY <1>2, <1>6, <1>7

\* Once meddled with, always.
LEMMA MeddledKept ==
    ASSUME CTypeOK, [Next]_vars, ~past'.meddled PROVE ~past.meddled
  <1>1. CASE UNCHANGED past
    BY <1>1
  <1>2. CASE Meddle
    BY <1>2 DEF Meddle, CTypeOK
  <1>3. CASE \E to \in Contracts : Create(to)
    BY <1>3 DEF Create, CTypeOK
  <1>4. CASE \E outcome \in {"ok", "expected", "other"} : CallEnds(outcome)
    BY <1>4 DEF CallEnds, CTypeOK
  <1>5. CASE \E outcome \in {"ok", "expected", "other"} : End(outcome)
    BY <1>5 DEF End, CTypeOK
  <1> QED
    BY <1>1, <1>2, <1>3, <1>4, <1>5, Steps
       DEF RootCall, Cheat, Prank, StopPrank, Broadcast, StopBroadcast, ExpectRevert, Call, DelegateCall, Enter, vars

LEMMA NextCallers ==
    ASSUME CTypeOK, ~past.meddled => CallersInv, [Next]_vars
    PROVE  ~past'.meddled => CallersInv'
  <1> SUFFICES ASSUME ~past'.meddled PROVE CallersInv'
    OBVIOUS
  <1>1. ~past.meddled /\ CallersInv
    BY MeddledKept
  <1>2. CASE Cheat
    BY <1>1, <1>2, PrankCallers, BroadcastCallers, StopCallers, ExpectCallers DEF Cheat
  <1>3. CASE UNCHANGED vars
    BY <1>1, <1>3, SameCallers DEF vars, cheats
  <1> QED
    BY <1>1, <1>2, <1>3, Steps, RootCallers, CallCallers, DelegateCallers, CallEndsCallers,
       EndCallers

-----------------------------------------------------------------------------
(* Nonces                                                                  *)

LEMMA FromFinite ==
    ASSUME CTypeOK, NEW e PROVE IsFiniteSet(From(e)) /\ Cardinality(From(e)) \in Nat
  <1>1. Len(broadcastable_transactions) \in Nat
    BY DEF CTypeOK
  <1>2. IsFiniteSet(1 .. Len(broadcastable_transactions))
    BY <1>1, FS_Interval
  <1>3. From(e) \subseteq 1 .. Len(broadcastable_transactions)
    BY DEF From
  <1>4. IsFiniteSet(From(e))
    BY <1>2, <1>3, FS_Subset
  <1> QED
    BY <1>4, FS_CardinalityType

\* A collected transaction takes the next nonce of its sender.
LEMMA CollectNonces ==
    ASSUME CTypeOK, NonceInv, NEW e \in Eoas, Collect(e),
           nonce' = [nonce EXCEPT ![e] = @ + 1]
    PROVE  NonceInv'
  <1> DEFINE txs == broadcastable_transactions
             n == Len(txs) + 1
  <1>1. /\ txs \in Seq([from : Eoas, nonce : Int])
        /\ Len(txs) \in Nat
        /\ nonce \in [Eoas -> Int]
    BY DEF CTypeOK
  <1>2. /\ Len(txs') = n
        /\ \A m \in 1 .. Len(txs) : txs'[m] = txs[m]
        /\ txs'[n].from = e
        /\ txs'[n].nonce = nonce[e]
    BY <1>1 DEF Collect
  <1>3. From(e)' = From(e) \cup {n}
    <2>1. 1 .. Len(txs') = (1 .. Len(txs)) \cup {n}
      BY <1>1, <1>2
    <2>2. \A m : m \in From(e)' <=> m \in 1 .. Len(txs') /\ txs'[m].from = e
      BY DEF From
    <2>3. \A m : m \in From(e) <=> m \in 1 .. Len(txs) /\ txs[m].from = e
      BY DEF From
    <2>4. \A m : m \in From(e)' <=> m \in From(e) \/ m = n
      BY <1>2, <2>1, <2>2, <2>3
    <2> QED
      BY <2>4
  <1>4. \A x \in Eoas : x # e => From(x)' = From(x)
    BY <1>1, <1>2 DEF From
  <1>5. n \notin From(e)
    BY <1>1 DEF From
  <1>6. Cardinality(From(e) \cup {n}) = Cardinality(From(e)) + 1
    BY <1>5, FromFinite, FS_AddElement
  <1>7. NonceKept'
    <2> SUFFICES ASSUME NEW x \in Eoas PROVE nonce'[x] = OnChain + Cardinality(From(x)')
      BY DEF NonceKept, OnChain
    <2>1. nonce[x] = OnChain + Cardinality(From(x))
      BY DEF NonceInv, NonceKept
    <2>2. Cardinality(From(x)) \in Nat
      BY FromFinite
    <2>3. CASE x = e
      <3>1. Cardinality(From(x)') = Cardinality(From(x)) + 1
        BY <1>3, <1>6, <2>3
      <3>2. nonce'[x] = nonce[x] + 1
        BY <1>1, <2>3
      <3> QED
        BY <2>1, <2>2, <3>1, <3>2 DEF OnChain
    <2>4. CASE x # e
      <3>1. From(x)' = From(x)
        BY <1>4, <2>4
      <3>2. nonce'[x] = nonce[x]
        BY <1>1, <2>4
      <3> QED
        BY <2>1, <3>1, <3>2
    <2> QED
      BY <2>3, <2>4
  <1>8. Follow'
    <2> SUFFICES ASSUME NEW k \in DOMAIN txs'
                 PROVE  txs'[k].nonce
                          = OnChain + Cardinality({m \in 1 .. k - 1 : txs'[m].from = txs'[k].from})
      BY DEF Follow, OnChain
    <2>1. k \in 1 .. n
      <3>1. DOMAIN txs' = 1 .. Len(txs')
        BY DEF Collect, CTypeOK
      <3> QED
        BY <1>2, <3>1
    <2>2. CASE k = n
      <3>1. {m \in 1 .. k - 1 : txs'[m].from = txs'[k].from} = From(e)
        BY <1>1, <1>2, <2>2 DEF From
      <3>2. nonce[e] = OnChain + Cardinality(From(e))
        BY DEF NonceInv, NonceKept
      <3> QED
        BY <1>2, <2>2, <3>1, <3>2
    <2>3. CASE k # n
      <3>1. k \in 1 .. Len(txs) /\ k \in DOMAIN txs
        BY <1>1, <2>1, <2>3, SMTT(30)
      <3>2. txs'[k] = txs[k] /\ \A m \in 1 .. k - 1 : txs'[m] = txs[m]
        BY <1>1, <1>2, <3>1
      <3>3. {m \in 1 .. k - 1 : txs'[m].from = txs'[k].from}
              = {m \in 1 .. k - 1 : txs[m].from = txs[k].from}
        BY <3>2
      <3>4. txs[k].nonce
              = OnChain + Cardinality({m \in 1 .. k - 1 : txs[m].from = txs[k].from})
        BY <3>1 DEF NonceInv, Follow
      <3> QED
        BY <3>2, <3>3, <3>4
    <2> QED
      BY <2>2, <2>3
  <1> QED
    BY <1>7, <1>8 DEF NonceInv

LEMMA SameNonces ==
    ASSUME NonceInv, UNCHANGED <<nonce, broadcastable_transactions>> PROVE NonceInv'
  BY DEF NonceInv, NonceKept, Follow, From

LEMMA RootNonces == ASSUME CTypeOK, NonceInv, RootCall PROVE NonceInv'
  <1>1. nonce[Runner] \in Nat /\ nonce[Runner] = OnChain + Cardinality(From(Runner))
    BY CheatsAssumption, FromFinite DEF NonceInv, NonceKept, OnChain
  <1>2. CorrectNonce(nonce[Runner] + 1) = nonce[Runner]
    BY <1>1 DEF CorrectNonce
  <1>3. nonce' = [nonce EXCEPT ![Runner] = CorrectNonce(nonce[Runner] + 1)]
    BY DEF RootCall
  <1>4. nonce' = nonce
    BY <1>2, <1>3 DEF CTypeOK
  <1> QED
    BY <1>4, SameNonces DEF RootCall

LEMMA EnterNonces ==
    ASSUME CTypeOK, NonceInv, NEW to \in Contracts, NEW caller \in Contracts \cup Eoas,
           NEW org \in Eoas, NEW delegate \in BOOLEAN, NEW static \in BOOLEAN,
           Enter(to, caller, org, delegate, static)
    PROVE  NonceInv'
  <1>1. CASE Broadcasts(caller) /\ ~static
    <2>1. broadcast.new_origin \in Eoas
      BY <1>1 DEF Broadcasts, CTypeOK, BroadcastType
    <2>2. /\ Collect(broadcast.new_origin)
          /\ nonce' = [nonce EXCEPT ![broadcast.new_origin] = @ + 1]
      BY <1>1 DEF Enter
    <2> QED
      BY <2>1, <2>2, CollectNonces
  <1>2. CASE ~(Broadcasts(caller) /\ ~static)
    BY <1>2, SameNonces DEF Enter
  <1> QED
    BY <1>1, <1>2

\* A creation that nobody pranked is a transaction or leaves the nonces alone.
LEMMA CreateNonces ==
    ASSUME CTypeOK, NonceInv, NEW to \in Contracts, Create(to), ~past'.skewed
    PROVE  NonceInv'
  <1>1. past'.skewed = (past.skewed \/ PranksSender(Top.this))
    BY DEF Create, CTypeOK
  <1>2. ~PranksSender(Top.this)
    BY <1>1
  <1>3. CASE Broadcasts(Top.this)
    <2>1. broadcast.new_origin \in Eoas
      BY <1>3 DEF Broadcasts, CTypeOK, BroadcastType
    <2>2. Sender(Top.this) = broadcast.new_origin
      BY <1>3, Zenon DEF Sender
    <2>3. Collect(broadcast.new_origin)
      BY <1>3 DEF Create
    <2>4. nonce' = [nonce EXCEPT ![broadcast.new_origin] = @ + 1]
      BY <2>1, <2>2 DEF Create
    <2> QED
      BY <2>1, <2>3, <2>4, CollectNonces
  <1>4. CASE ~Broadcasts(Top.this)
    <2>1. Sender(Top.this) = Top.this
      BY <1>2, <1>4, Zenon DEF Sender
    <2>2. Top.this \in Contracts
      BY TopType DEF Create, CanStep, FrameType
    <2>3. Sender(Top.this) \notin Eoas
      BY <2>1, <2>2, CheatsAssumption
    <2>4. UNCHANGED <<nonce, broadcastable_transactions>>
      BY <1>4, <2>3 DEF Create
    <2> QED
      BY <2>4, SameNonces
  <1> QED
    BY <1>3, <1>4

\* A revert that undoes no creation leaves the nonces alone.
LEMMA EndNonces ==
    ASSUME CTypeOK, NonceInv, NEW outcome, End(outcome), ~past'.skewed
    PROVE  NonceInv'
  <1>1. past'.skewed = (past.skewed \/ (outcome # "ok" /\ \E e \in Eoas : Top.made[e] > 0))
    BY DEF End
  <1>2. Top.made \in [Eoas -> Nat]
    BY TopType DEF End, FrameType
  <1>3. nonce' = nonce
    <2>1. CASE outcome = "ok"
      BY <2>1 DEF End
    <2>2. CASE outcome # "ok"
      <3>1. \A e \in Eoas : ~(Top.made[e] > 0)
        BY <1>1, <2>2
      <3>2. \A e \in Eoas : Top.made[e] = 0
        BY <1>2, <3>1
      <3>3. nonce' = [e \in Eoas |-> nonce[e] - Top.made[e]]
        BY <2>2 DEF End
      <3>4. \A e \in Eoas : nonce[e] - Top.made[e] = nonce[e]
        BY <3>2 DEF CTypeOK
      <3> QED
        BY <3>3, <3>4 DEF CTypeOK
    <2> QED
      BY <2>1, <2>2
  <1> QED
    BY <1>3, SameNonces DEF End

LEMMA SkewedKept == ASSUME CTypeOK, [Next]_vars, ~past'.skewed PROVE ~past.skewed
  <1>1. CASE UNCHANGED past
    BY <1>1
  <1>2. CASE Meddle
    BY <1>2 DEF Meddle, CTypeOK
  <1>3. CASE \E to \in Contracts : Create(to)
    BY <1>3 DEF Create, CTypeOK
  <1>4. CASE \E outcome \in {"ok", "expected", "other"} : CallEnds(outcome)
    BY <1>4 DEF CallEnds, CTypeOK
  <1>5. CASE \E outcome \in {"ok", "expected", "other"} : End(outcome)
    BY <1>5 DEF End, CTypeOK
  <1> QED
    BY <1>1, <1>2, <1>3, <1>4, <1>5, Steps
       DEF RootCall, Cheat, Prank, StopPrank, Broadcast, StopBroadcast, ExpectRevert, Call, DelegateCall, Enter, vars

LEMMA NextNonces ==
    ASSUME CTypeOK, ~past.skewed => NonceInv, [Next]_vars
    PROVE  ~past'.skewed => NonceInv'
  <1> SUFFICES ASSUME ~past'.skewed PROVE NonceInv'
    OBVIOUS
  <1>1. NonceInv
    BY SkewedKept
  <1>2. CASE Cheat \/ UNCHANGED vars \/ \E outcome \in {"ok", "expected", "other"} : CallEnds(outcome)
    <2>1. UNCHANGED <<nonce, broadcastable_transactions>>
      BY <1>2 DEF Cheat, Prank, StopPrank, Broadcast, StopBroadcast, ExpectRevert, CallEnds, vars
    <2> QED
      BY <1>1, <2>1, SameNonces
  <1> QED
    BY <1>1, <1>2, Steps, RootNonces, Entering, EnterNonces, CreateNonces, EndNonces

-----------------------------------------------------------------------------
(* Expected reverts                                                        *)

LEMMA ExpectedTyped ==
    ASSUME CTypeOK, RevertInv, expected_revert # None
    PROVE  /\ expected_revert \in ExpectedType
           /\ expected_revert.depth \in 1 .. Len(stack)
           /\ expected_revert.max_depth \in Nat
           /\ expected_revert.count \in Nat
           /\ expected_revert.actual_count \in Nat
           /\ stack[expected_revert.depth].expects > 0
  <1>1. expected_revert \in ExpectedType
    BY DEF CTypeOK
  <1>2. /\ expected_revert.depth \in Nat \ {0}
        /\ expected_revert.max_depth \in Nat
        /\ expected_revert.count \in Nat
        /\ expected_revert.actual_count \in Nat
    BY <1>1 DEF ExpectedType
  <1>3. /\ expected_revert.depth <= Len(stack)
        /\ expected_revert.actual_count < expected_revert.count
        /\ stack[expected_revert.depth].expects
             = expected_revert.count - expected_revert.actual_count
    BY DEF RevertInv, ExpectedKept, depth
  <1>4. Len(stack) \in Nat
    BY DEF CTypeOK
  <1> QED
    BY <1>1, <1>2, <1>3, <1>4

LEMMA SameReverts ==
    ASSUME CTypeOK, RevertInv, UNCHANGED expected_revert, past'.honest = past.honest,
           Len(stack') = Len(stack),
           \A k \in 1 .. Len(stack) : /\ stack'[k].expects = stack[k].expects
                                      /\ stack'[k].met = stack[k].met
    PROVE  RevertInv'
  <1>1. Len(stack) \in Nat
    BY DEF CTypeOK
  <1>2. ExpectedKept'
    <2> SUFFICES ASSUME expected_revert # None PROVE ExpectedKept'
      BY DEF ExpectedKept
    <2>1. expected_revert.depth \in 1 .. Len(stack)
      BY ExpectedTyped
    <2> QED
      BY <1>1, <2>1 DEF RevertInv, ExpectedKept, depth
  <1>3. OneExpects'
    BY DEF RevertInv, OneExpects, depth
  <1> QED
    BY <1>2, <1>3 DEF RevertInv

LEMMA SetNextReverts ==
    ASSUME CTypeOK, RevertInv, Running, Meddle, NEW next \in Asked \cup {None}, SetNext(next),
           UNCHANGED expected_revert
    PROVE  RevertInv'
  <1>1. past'.honest = past.honest
    BY DEF Meddle, CTypeOK
  <1>2. Len(stack) \in Nat /\ Len(stack) > 0 /\ Top = stack[Len(stack)]
    BY TopType
  <1>3. /\ Len(stack') = Len(stack)
        /\ stack'[Len(stack)].expects = Top.expects
        /\ stack'[Len(stack)].met = Top.met
        /\ \A k \in 1 .. Len(stack) : k # Len(stack) => stack'[k] = stack[k]
    BY SetNextStack
  <1>4. \A k \in 1 .. Len(stack) : /\ stack'[k].expects = stack[k].expects
                                   /\ stack'[k].met = stack[k].met
    BY <1>2, <1>3
  <1> QED
    BY <1>1, <1>3, <1>4, SameReverts

LEMMA ExpectReverts ==
    ASSUME CTypeOK, RevertInv, NEW count \in 1 .. 2, ExpectRevert(count)
    PROVE  RevertInv'
  <1>1. Running /\ expected_revert = None /\ UNCHANGED past
    BY DEF ExpectRevert, CanStep
  <1>2. /\ Len(stack) \in Nat /\ Len(stack) > 0 /\ depth = Len(stack)
        /\ \A k \in 1 .. Len(stack) : stack[k] \in FrameType
    BY <1>1, TopType
  <1>3. /\ Len(stack') = Len(stack)
        /\ stack'[Len(stack)].expects = count
        /\ stack'[Len(stack)].met = 0
        /\ \A k \in 1 .. Len(stack) : k # Len(stack) => stack'[k] = stack[k]
    BY ExpectStack
  <1>4. /\ expected_revert'.depth = Len(stack)
        /\ expected_revert'.max_depth = Len(stack)
        /\ expected_revert'.count = count
        /\ expected_revert'.actual_count = 0
        /\ expected_revert' \in ExpectedType
    BY <1>2 DEF ExpectRevert, ExpectedType
  <1>5. expected_revert' # None
    BY <1>4, NoneApart
  <1>6. ExpectedKept'
    BY <1>2, <1>3, <1>4 DEF ExpectedKept, depth
  <1>7. OneExpects'
    <2> SUFFICES ASSUME NEW k \in 1 .. Len(stack), stack'[k].expects > 0
                 PROVE  k = Len(stack)
      BY <1>3, <1>4, <1>5 DEF OneExpects, depth
    <2>1. ~(stack[k].expects > 0)
      BY <1>1 DEF RevertInv, OneExpects, depth
    <2> QED
      BY <1>3, <2>1
  <1> QED
    BY <1>1, <1>6, <1>7 DEF RevertInv

\* A call is tracked in max_depth as soon as it runs.
LEMMA PushReverts ==
    ASSUME CTypeOK, RevertInv, Running, NEW to \in Contracts, NEW sender \in Contracts \cup Eoas,
           NEW delegate \in BOOLEAN, Entered, past'.honest = past.honest,
           Pushes(to, sender, delegate)
    PROVE  RevertInv'
  <1>1. Len(stack) \in Nat /\ Len(stack) > 0 /\ depth = Len(stack)
    BY TopType
  <1>2. /\ Len(stack') = Len(stack) + 1
        /\ \A k \in 1 .. Len(stack) : /\ stack'[k].expects = stack[k].expects
                                      /\ stack'[k].met = stack[k].met
        /\ stack'[Len(stack) + 1].expects = 0
    BY PushStack
  <1>3. CASE expected_revert = None
    <2>1. expected_revert' = None
      BY <1>3 DEF Entered
    <2>2. \A k \in 1 .. Len(stack') : ~(stack'[k].expects > 0)
      <3> SUFFICES ASSUME NEW k \in 1 .. Len(stack') PROVE ~(stack'[k].expects > 0)
        OBVIOUS
      <3>1. CASE k = Len(stack) + 1
        BY <1>2, <3>1
      <3>2. CASE k \in 1 .. Len(stack)
        BY <1>2, <1>3, <3>2 DEF RevertInv, OneExpects, depth
      <3> QED
        BY <1>1, <1>2, <3>1, <3>2
    <2> QED
      BY <2>1, <2>2 DEF RevertInv, ExpectedKept, OneExpects, depth
  <1>4. CASE expected_revert # None
    <2>1. /\ expected_revert \in ExpectedType
          /\ expected_revert.depth \in 1 .. Len(stack)
          /\ expected_revert.max_depth \in Nat
      BY <1>4, ExpectedTyped
    <2>2. /\ expected_revert' \in ExpectedType
          /\ expected_revert'.depth = expected_revert.depth
          /\ expected_revert'.count = expected_revert.count
          /\ expected_revert'.actual_count = expected_revert.actual_count
          /\ expected_revert'.max_depth > Len(stack)
      <3>1. CASE expected_revert.max_depth > depth
        BY <1>1, <1>4, <2>1, <3>1 DEF Entered
      <3>2. CASE ~(expected_revert.max_depth > depth)
        <4>1. expected_revert' = [expected_revert EXCEPT !.max_depth = Len(stack) + 1]
          BY <1>1, <1>4, <3>2 DEF Entered
        <4>2. Len(stack) + 1 \in Nat
          BY <1>1
        <4>3. /\ expected_revert' \in ExpectedType
              /\ expected_revert'.depth = expected_revert.depth
              /\ expected_revert'.count = expected_revert.count
              /\ expected_revert'.actual_count = expected_revert.actual_count
              /\ expected_revert'.max_depth = Len(stack) + 1
          BY <2>1, <4>1, <4>2 DEF ExpectedType
        <4> QED
          BY <1>1, <4>3
      <3> QED
        BY <3>1, <3>2
    <2>3. expected_revert'.max_depth \in Nat /\ expected_revert' # None
      BY <2>2, NoneApart DEF ExpectedType
    <2>4. ExpectedKept'
      <3>1. /\ expected_revert.actual_count < expected_revert.count
            /\ stack[expected_revert.depth].expects
                 = expected_revert.count - expected_revert.actual_count
        BY <1>4 DEF RevertInv, ExpectedKept
      <3>2. stack'[expected_revert'.depth].expects
              = expected_revert'.count - expected_revert'.actual_count
        BY <1>2, <2>1, <2>2, <3>1
      <3>3. /\ expected_revert'.depth < Len(stack')
            /\ expected_revert'.max_depth > expected_revert'.depth
        BY <1>1, <1>2, <2>1, <2>2, <2>3
      <3>4. expected_revert'.actual_count < expected_revert'.count
        BY <2>2, <3>1
      <3>5. expected_revert'.depth \in Nat /\ Len(stack') \in Nat
        BY <1>1, <1>2, <2>1, <2>2
      <3> QED
        BY <2>3, <3>2, <3>3, <3>4, <3>5 DEF ExpectedKept, depth
    <2>5. OneExpects'
      <3> SUFFICES ASSUME NEW k \in 1 .. Len(stack'), stack'[k].expects > 0
                   PROVE  expected_revert'.depth = k
        BY <2>3 DEF OneExpects, depth
      <3>1. k \in 1 .. Len(stack)
        BY <1>1, <1>2
      <3> QED
        BY <1>2, <2>2, <3>1 DEF RevertInv, OneExpects, depth
    <2> QED
      BY <2>4, <2>5 DEF RevertInv
  <1> QED
    BY <1>3, <1>4

LEMMA NoneLeft ==
    ASSUME expected_revert' = None, past'.honest,
           \A k \in 1 .. Len(stack') : ~(stack'[k].expects > 0)
    PROVE  RevertInv'
  BY DEF RevertInv, ExpectedKept, OneExpects, depth

\* The hooks after a call of frame d count or end what d expects.
LEMMA HooksReverts ==
    ASSUME CTypeOK, RevertInv, NEW d \in 1 .. Len(stack), NEW outcome,
           expected_revert # None =>
              /\ expected_revert.depth <= d
              /\ expected_revert.depth = d /\ outcome = "expected" =>
                    expected_revert.max_depth > expected_revert.depth,
           Len(stack') = d,
           \A k \in 1 .. d : k # d => stack'[k] = stack[k],
           stack'[d].expects =
              IF stack[d].expects > 0 /\ outcome = "expected" THEN stack[d].expects - 1 ELSE 0,
           stack[d].expects > 0 => stack'[d].met > 0,
           expected_revert' = ExpectedAfter(d, outcome),
           past'.honest
    PROVE  RevertInv'
  <1>1. /\ Len(stack) \in Nat /\ depth = Len(stack)
        /\ d \in Nat /\ d > 0 /\ d <= Len(stack)
    BY DEF CTypeOK, depth
  <1>2. \A k \in 1 .. d : stack[k].expects > 0 =>
            expected_revert # None /\ expected_revert.depth = k
    BY <1>1 DEF RevertInv, OneExpects
  <1>3. CASE ~Processed(d)
    <2>1. expected_revert' = expected_revert
      BY <1>3 DEF ExpectedAfter
    <2>2. expected_revert # None => expected_revert.depth < d
      BY <1>1, <1>3, ExpectedTyped DEF Processed
    <2>3. ~(stack[d].expects > 0) /\ stack'[d].expects = 0
      BY <1>1, <1>2, <2>2
    <2>4. \A k \in 1 .. d : stack'[k].expects > 0 => k # d /\ stack[k].expects > 0
      BY <2>3
    <2>5. OneExpects'
      BY <1>2, <2>1, <2>4 DEF OneExpects, depth
    <2>6. ExpectedKept'
      <3> SUFFICES ASSUME expected_revert # None PROVE ExpectedKept'
        BY <2>1 DEF ExpectedKept
      <3>1. expected_revert.depth \in 1 .. d /\ expected_revert.depth # d
        BY <1>1, <2>2, ExpectedTyped
      <3>2. stack'[expected_revert.depth] = stack[expected_revert.depth]
        BY <3>1
      <3>3. /\ expected_revert.max_depth > expected_revert.depth
            /\ expected_revert.max_depth >= expected_revert.depth
            /\ expected_revert.actual_count < expected_revert.count
            /\ stack[expected_revert.depth].expects
                 = expected_revert.count - expected_revert.actual_count
        BY <1>1, <3>1 DEF RevertInv, ExpectedKept
      <3> QED
        BY <1>1, <2>1, <2>2, <3>1, <3>2, <3>3 DEF ExpectedKept, depth
    <2> QED
      BY <2>5, <2>6 DEF RevertInv
  <1>4. CASE Processed(d)
    <2>1. expected_revert # None /\ expected_revert.depth = d
      BY <1>1, <1>4, ExpectedTyped DEF Processed
    <2>2. /\ expected_revert \in ExpectedType
          /\ expected_revert.max_depth \in Nat
          /\ expected_revert.count \in Nat
          /\ expected_revert.actual_count \in Nat
          /\ expected_revert.actual_count < expected_revert.count
          /\ stack[d].expects = expected_revert.count - expected_revert.actual_count
          /\ stack[d].expects > 0
      BY <2>1, ExpectedTyped DEF RevertInv, ExpectedKept
    <2>3. \A k \in 1 .. d : k # d => ~(stack'[k].expects > 0)
      BY <1>2, <2>1
    <2>4. AsExpected(expected_revert, outcome) <=> outcome = "expected"
      BY <2>1 DEF AsExpected, CalledDeeper
    <2>5. CASE outcome = "expected" /\ expected_revert.actual_count + 1 < expected_revert.count
      <3>1. PICK n \in Nat : n = expected_revert.actual_count + 1
        BY <2>2
      <3>2. expected_revert' = [expected_revert EXCEPT !.actual_count = n]
        BY <1>4, <2>4, <2>5, <3>1 DEF ExpectedAfter
      <3>3. /\ expected_revert' \in ExpectedType
            /\ expected_revert'.depth = d
            /\ expected_revert'.max_depth = expected_revert.max_depth
            /\ expected_revert'.count = expected_revert.count
            /\ expected_revert'.actual_count = n
        BY <2>1, <2>2, <3>2 DEF ExpectedType
      <3>4. expected_revert' # None
        BY <3>3, NoneApart
      <3>5. stack'[d].expects = expected_revert'.count - expected_revert'.actual_count
        BY <2>2, <2>5, <3>1, <3>3
      <3>6. stack'[d].met > 0
        BY <2>2
      <3>7. expected_revert'.max_depth >= expected_revert'.depth
        BY <2>1, <3>3 DEF RevertInv, ExpectedKept
      <3>8. ExpectedKept'
        BY <1>1, <2>5, <3>1, <3>3, <3>5, <3>6, <3>7 DEF ExpectedKept, depth
      <3>9. OneExpects'
        BY <2>3, <3>3, <3>4 DEF OneExpects, depth
      <3> QED
        BY <3>8, <3>9 DEF RevertInv
    <2>6. CASE ~(outcome = "expected" /\ expected_revert.actual_count + 1 < expected_revert.count)
      <3>1. expected_revert' = None
        BY <1>4, <2>4, <2>6 DEF ExpectedAfter
      <3>2. ~(stack'[d].expects > 0)
        BY <2>2, <2>6
      <3>3. \A k \in 1 .. Len(stack') : ~(stack'[k].expects > 0)
        BY <2>3, <3>2
      <3> QED
        BY <3>1, <3>3, NoneLeft
    <2> QED
      BY <2>5, <2>6
  <1> QED
    BY <1>3, <1>4

LEMMA CallEndsReverts ==
    ASSUME CTypeOK, RevertInv, Running, NEW outcome, CallEnds(outcome), ~past'.leaked
    PROVE  RevertInv'
  <1>1. /\ Len(stack) \in Nat /\ Len(stack) > 0 /\ depth = Len(stack)
        /\ Top = stack[Len(stack)]
    BY TopType
  <1>2. PICK d \in 1 .. Len(stack) : d = Len(stack)
    BY <1>1
  <1>3. /\ past'.leaked = (past.leaked \/ (outcome = "expected" /\ Top.expects > 0))
        /\ past'.honest = past.honest
    BY DEF CallEnds, CTypeOK
  <1>4. ~(outcome = "expected" /\ Top.expects > 0)
    BY <1>3
  <1>5. expected_revert # None =>
           /\ expected_revert.depth <= d
           /\ expected_revert.depth = d /\ outcome = "expected" =>
                 expected_revert.max_depth > expected_revert.depth
    BY <1>1, <1>2, <1>4, ExpectedTyped
  <1>6. /\ Len(stack') = d
        /\ \A k \in 1 .. d : k # d => stack'[k] = stack[k]
        /\ stack'[d].expects =
             IF stack[d].expects > 0 /\ outcome = "expected" THEN stack[d].expects - 1 ELSE 0
        /\ stack[d].expects > 0 => stack'[d].met > 0
    BY <1>1, <1>2, CallEndsStack
  <1>7. expected_revert' = ExpectedAfter(d, outcome) /\ past'.honest
    BY <1>1, <1>2, <1>3 DEF CallEnds, EndHooks, RevertInv
  <1> QED
    BY <1>5, <1>6, <1>7, HooksReverts

LEMMA EndReverts ==
    ASSUME CTypeOK, RevertInv, NEW outcome \in {"ok", "expected", "other"}, End(outcome),
           ~past.leaked, ~past'.leaked
    PROVE  RevertInv'
  <1>1. Running
    BY DEF End
  <1>2. /\ Len(stack) \in Nat /\ Len(stack) > 0 /\ depth = Len(stack)
        /\ Top = stack[Len(stack)]
        /\ \A k \in 1 .. Len(stack) : stack[k] \in FrameType
    BY <1>1, TopType
  <1>3. PICK d : d = Len(stack) - 1
    OBVIOUS
  <1>4. d \in Nat /\ d < Len(stack) /\ d + 1 = Len(stack)
    BY <1>2, <1>3
  <1>5. \A k \in 1 .. Len(stack) : stack[k].expects \in Nat /\ stack[k].met \in Nat
    BY <1>2 DEF FrameType
  <1>a. past' = [meddled |-> past.meddled \/ Top.next # None,
                 leaked |-> past.leaked \/ (outcome # "ok" /\ Top.expects > 0 /\ Top.met > 0),
                 skewed |-> past.skewed \/ (outcome # "ok" /\ \E e \in Eoas : Top.made[e] > 0),
                 honest |-> past.honest /\ Seen(d, outcome)
                              = IF Top.expects > 0 THEN "other"
                                ELSE IF d = 0 THEN outcome ELSE Owed(stack[d], outcome)]
    BY <1>2, <1>3 DEF End
  <1>b. ~(outcome # "ok" /\ Top.expects > 0 /\ Top.met > 0)
    BY <1>a
  <1>6. ASSUME Seen(d, outcome) = IF Top.expects > 0 THEN "other"
                                  ELSE IF d = 0 THEN outcome ELSE Owed(stack[d], outcome)
        PROVE  past'.honest
    BY <1>6, <1>a DEF RevertInv
  <1>7. expected_revert' = ExpectedAfter(d, outcome)
    BY <1>2, <1>3 DEF End, EndHooks
  <1>8. \A k \in 1 .. Len(stack) : stack[k].expects > 0 =>
            expected_revert # None /\ expected_revert.depth = k
    BY DEF RevertInv, OneExpects, depth
  <1>9. CASE expected_revert # None /\ expected_revert.depth = Len(stack)
    <2>1. /\ Top.expects > 0
          /\ Processed(d)
      BY <1>2, <1>4, <1>9, ExpectedTyped DEF Processed
    <2>2. ~AsExpected(expected_revert, outcome)
      <3>1. outcome = "expected" => Top.met = 0
        BY <1>2, <1>5, <1>b, <2>1
      <3>2. outcome = "expected" => expected_revert.max_depth = expected_revert.depth
        BY <1>2, <1>9, <3>1 DEF RevertInv, ExpectedKept
      <3>3. expected_revert.depth \in Nat
        BY <1>2, <1>9
      <3> QED
        BY <3>2, <3>3 DEF AsExpected, CalledDeeper
    <2>3. Seen(d, outcome) = "other" /\ expected_revert' = None
      BY <1>7, <2>1, <2>2 DEF Seen, ExpectedAfter
    <2>4. past'.honest
      BY <1>6, <2>1, <2>3
    <2>5. \A k \in 1 .. Len(stack') : ~(stack'[k].expects > 0)
      <3>1. CASE d = 0
        <4>1. stack' = <<>>
          BY <1>2, <1>3, <3>1 DEF End, EndHooks
        <4>2. Len(stack') = 0
          BY <4>1
        <4> QED
          BY <4>2
      <3>2. CASE d > 0
        <4>1. /\ Len(stack') = d
              /\ \A k \in 1 .. d : k # d => stack'[k] = stack[k]
              /\ stack'[d].expects = IF stack[d].expects > 0 /\ outcome = "expected"
                                     THEN stack[d].expects - 1 ELSE 0
          BY <1>2, <1>3, <1>4, <3>2, EndStack
        <4>2. \A k \in 1 .. d : ~(stack[k].expects > 0)
          BY <1>2, <1>4, <1>8, <1>9
        <4> QED
          BY <1>4, <3>2, <4>1, <4>2
      <3> QED
        BY <1>4, <3>1, <3>2
    <2> QED
      BY <2>3, <2>4, <2>5, NoneLeft
  <1>10. CASE ~(expected_revert # None /\ expected_revert.depth = Len(stack))
    <2>1. ~(Top.expects > 0)
      BY <1>2, <1>8, <1>10
    <2>2. expected_revert # None => /\ expected_revert.depth <= d
                                    /\ expected_revert.depth \in Nat \ {0}
                                    /\ expected_revert.max_depth > expected_revert.depth
      <3> SUFFICES ASSUME expected_revert # None
                   PROVE  /\ expected_revert.depth <= d
                          /\ expected_revert.depth \in Nat \ {0}
                          /\ expected_revert.max_depth > expected_revert.depth
        OBVIOUS
      <3>1. expected_revert.depth \in 1 .. Len(stack)
        BY ExpectedTyped
      <3>2. /\ expected_revert.depth < Len(stack)
            /\ expected_revert.depth <= d
            /\ expected_revert.depth \in Nat \ {0}
        BY <1>2, <1>4, <1>10, <3>1
      <3> QED
        BY <1>2, <3>2 DEF RevertInv, ExpectedKept
    <2>3. past'.honest
      <3>1. CASE ~Processed(d)
        <4>1. Seen(d, outcome) = outcome
          BY <3>1 DEF Seen
        <4>2. d > 0 => Owed(stack[d], outcome) = outcome
          <5> SUFFICES ASSUME d > 0 PROVE stack[d].expects = 0
            BY DEF Owed
          <5>1. d \in 1 .. Len(stack)
            BY <1>4
          <5>2. ~(expected_revert # None /\ expected_revert.depth = d)
            BY <1>4, <3>1 DEF Processed
          <5> QED
            BY <1>5, <1>8, <5>1, <5>2
        <4> QED
          BY <1>4, <1>6, <2>1, <4>1, <4>2
      <3>2. CASE Processed(d)
        <4>1. expected_revert # None /\ expected_revert.depth = d /\ d > 0 /\ d \in 1 .. Len(stack)
          BY <1>4, <2>2, <3>2 DEF Processed
        <4>2. stack[d].expects > 0
          BY <4>1, ExpectedTyped
        <4>3. AsExpected(expected_revert, outcome) <=> outcome = "expected"
          BY <2>2, <4>1 DEF AsExpected, CalledDeeper
        <4>4. Seen(d, outcome) = IF outcome = "expected" THEN "ok" ELSE "other"
          BY <3>2, <4>3 DEF Seen
        <4>5. Owed(stack[d], outcome) = IF outcome = "expected" THEN "ok" ELSE "other"
          BY <1>5, <4>1, <4>2 DEF Owed
        <4> QED
          BY <1>4, <1>6, <2>1, <4>1, <4>4, <4>5
      <3> QED
        BY <3>1, <3>2
    <2>4. CASE d = 0
      <3>1. stack' = <<>>
        BY <1>2, <1>3, <2>4 DEF End, EndHooks
      <3>2. Len(stack') = 0
        BY <3>1
      <3>3. expected_revert = None
        BY <1>4, <2>2, <2>4
      <3>4. expected_revert' = None
        BY <1>7, <3>3 DEF ExpectedAfter, Processed
      <3> QED
        BY <2>3, <3>2, <3>4, NoneLeft
    <2>5. CASE d > 0
      <3>1. d \in 1 .. Len(stack)
        BY <1>4, <2>5
      <3>2. /\ Len(stack') = d
            /\ \A k \in 1 .. d : k # d => stack'[k] = stack[k]
            /\ stack'[d].expects = IF stack[d].expects > 0 /\ outcome = "expected"
                                   THEN stack[d].expects - 1 ELSE 0
            /\ stack[d].expects > 0 => stack'[d].met > 0
        BY <1>2, <1>3, <1>4, <2>5, EndStack
      <3>3. expected_revert # None =>
              /\ expected_revert.depth <= d
              /\ expected_revert.depth = d /\ outcome = "expected" =>
                    expected_revert.max_depth > expected_revert.depth
        BY <2>2
      <3> QED
        BY <1>7, <2>3, <3>1, <3>2, <3>3, HooksReverts
    <2> QED
      BY <1>4, <2>4, <2>5
  <1> QED
    BY <1>9, <1>10

\* The root call starts with nothing expected.
LEMMA RootReverts == ASSUME CTypeOK, RevertInv, RootCall PROVE RevertInv'
  <1>1. Test \in Contracts /\ Runner \in Contracts \cup Eoas
    BY CheatsAssumption DEF Test
  <1>2. PICK f \in FrameType : f = Frame(Test, Runner, FALSE)
    BY <1>1, NewFrame
  <1>3. f.expects = 0
    BY <1>1, <1>2, NewFrame
  <1>4. stack' = <<f>> /\ Len(stack) = 0 /\ UNCHANGED <<expected_revert, past>>
    BY <1>2 DEF RootCall, cheats
  <1>5. Len(stack') = 1 /\ stack'[1] = f
    BY <1>4
  <1>6. expected_revert = None
    BY <1>4, ExpectedTyped
  <1>7. \A k \in 1 .. Len(stack') : ~(stack'[k].expects > 0)
    BY <1>3, <1>5
  <1> QED
    BY <1>4, <1>6, <1>7, NoneLeft DEF RevertInv

LEMMA LeakedKept == ASSUME CTypeOK, [Next]_vars, ~past'.leaked PROVE ~past.leaked
  <1>1. CASE UNCHANGED past
    BY <1>1
  <1>2. CASE Meddle
    BY <1>2 DEF Meddle, CTypeOK
  <1>3. CASE \E to \in Contracts : Create(to)
    BY <1>3 DEF Create, CTypeOK
  <1>4. CASE \E outcome \in {"ok", "expected", "other"} : CallEnds(outcome)
    BY <1>4 DEF CallEnds, CTypeOK
  <1>5. CASE \E outcome \in {"ok", "expected", "other"} : End(outcome)
    BY <1>5 DEF End, CTypeOK
  <1> QED
    BY <1>1, <1>2, <1>3, <1>4, <1>5, Steps
       DEF RootCall, Cheat, Prank, StopPrank, Broadcast, StopBroadcast, ExpectRevert, Call, DelegateCall, Enter, vars

LEMMA CheatReverts == ASSUME CTypeOK, RevertInv, Cheat PROVE RevertInv'
  <1>1. ASSUME NEW count \in 1 .. 2, ExpectRevert(count) PROVE RevertInv'
    BY <1>1, ExpectReverts
  <1>2. ASSUME NEW who \in Contracts \cup Eoas, NEW org \in Eoas \cup {None}, NEW single \in BOOLEAN,
               NEW delegate \in BOOLEAN, Ask(who, org, single, delegate), Running, Meddle,
               UNCHANGED expected_revert
        PROVE  RevertInv'
    <2>1. [who |-> who, origin |-> org, once |-> single, delegate |-> delegate] \in Asked \cup {None}
      BY DEF Asked
    <2> QED
      BY <1>2, <2>1, SetNextReverts DEF Ask
  <1>3. ASSUME StopAsking, Running, Meddle, UNCHANGED expected_revert PROVE RevertInv'
    BY <1>3, SetNextReverts DEF StopAsking
  <1>4. ASSUME NEW who \in Contracts \cup Eoas, NEW single \in BOOLEAN, NEW org \in Eoas \cup {None},
               NEW delegate \in BOOLEAN, Prank(who, org, single, delegate)
        PROVE  RevertInv'
    BY <1>2, <1>4 DEF Prank, CanStep
  <1>5. ASSUME NEW who \in Eoas, NEW single \in BOOLEAN, Broadcast(who, single)
        PROVE  RevertInv'
    <2>1. who \in Eoas \cup {None}
      OBVIOUS
    <2> QED
      BY <1>2, <1>5, <2>1 DEF Broadcast, CanStep
  <1>6. CASE StopPrank \/ StopBroadcast
    BY <1>3, <1>6 DEF StopPrank, StopBroadcast, CanStep
  <1> QED
    BY <1>1, <1>4, <1>5, <1>6 DEF Cheat

LEMMA NextReverts ==
    ASSUME CTypeOK, ~past.leaked => RevertInv, [Next]_vars
    PROVE  ~past'.leaked => RevertInv'
  <1> SUFFICES ASSUME ~past'.leaked PROVE RevertInv'
    OBVIOUS
  <1>1. ~past.leaked /\ RevertInv
    BY LeakedKept
  <1>2. ASSUME NEW to \in Contracts, Create(to) PROVE RevertInv'
    <2>1. /\ Running
          /\ Entered
          /\ Pushes(to, Sender(Top.this), FALSE)
          /\ past'.honest = past.honest
      BY <1>2 DEF Create, CanStep, CTypeOK, Pushes
    <2>2. Top.this \in Contracts
      BY <2>1, TopType DEF FrameType
    <2>3. Sender(Top.this) \in Contracts \cup Eoas
      BY <2>1, <2>2, TopType
    <2> QED
      BY <1>1, <2>1, <2>3, PushReverts
  <1>4. ASSUME NEW to \in Contracts, NEW caller \in Contracts \cup Eoas, NEW org \in Eoas,
               NEW delegate \in BOOLEAN, NEW static \in BOOLEAN,
               Enter(to, caller, org, delegate, static)
        PROVE  RevertInv'
    <2>1. /\ Running
          /\ Entered
          /\ Pushes(to, Sender(caller), delegate)
          /\ past'.honest = past.honest
      BY <1>4 DEF Enter, CanStep, Pushes
    <2>2. Sender(caller) \in Contracts \cup Eoas
      BY <2>1, TopType
    <2> QED
      BY <1>1, <2>1, <2>2, PushReverts
  <1>3. CASE UNCHANGED vars
    BY <1>1, <1>3, SameReverts DEF vars, cheats
  <1> QED
    BY <1>1, <1>2, <1>3, <1>4, Steps, Entering, RootReverts, CheatReverts, CallEndsReverts,
       EndReverts

-----------------------------------------------------------------------------
(* The inductive invariant                                                 *)

LEMMA InitInv == Init => CInv
  <1> SUFFICES ASSUME Init PROVE CInv
    OBVIOUS
  <1>1. CTypeOK
    BY InitType
  <1>2. /\ Len(stack) = 0
        /\ prank = None /\ broadcast = None /\ expected_revert = None
        /\ origin = Runner
        /\ past.honest
    BY DEF Init
  <1>3. CallersInv
    BY <1>2 DEF CallersInv, PrankKept, BroadcastKept, OneAsks, OriginKept, Senders, depth
  <1>4. broadcastable_transactions = <<>> /\ Len(broadcastable_transactions) = 0
    BY DEF Init
  <1>5. NonceInv
    <2>1. ASSUME NEW e PROVE Cardinality(From(e)) = 0
      <3>1. From(e) = {}
        BY <1>4 DEF From
      <3> QED
        BY <3>1, FS_EmptySet
    <2>2. NonceKept
      BY <2>1 DEF NonceKept, Init, OnChain
    <2>3. Follow
      BY <1>4 DEF Follow
    <2> QED
      BY <2>2, <2>3 DEF NonceInv
  <1>6. RevertInv
    BY <1>2 DEF RevertInv, ExpectedKept, OneExpects, depth
  <1> QED
    BY <1>1, <1>3, <1>5, <1>6 DEF CInv

LEMMA NextInv == CInv /\ [Next]_vars => CInv'
  BY NextType, NextCallers, NextNonces, NextReverts DEF CInv

LEMMA Inductive == Spec => []CInv
  BY InitInv, NextInv, PTL DEF Spec

-----------------------------------------------------------------------------
(* Every variable of the inspector keeps its type: the stack holds frames, *)
(* the prank, the broadcast and the expected revert are records of theirs  *)
(* or None, and the nonces stay integers.                                  *)
THEOREM CheatTypes == Spec => []CTypeOK
  <1>1. CInv => CTypeOK
    BY DEF CInv
  <1> QED
    BY <1>1, Inductive, PTL

(* Whatever a test calls, delegates, creates, cheats and reverts, every    *)
(* call and creation runs with the sender that the frame below it asked    *)
(* for with prank or broadcast, and with that frame's own address if it    *)
(* asked for nothing; every delegate call runs as its caller does, or, if  *)
(* a frame on the stack asked for delegate calls to be pranked, at and as  *)
(* the address asked for; as long as no frame changes the callers another  *)
(* one relies on.                                                          *)
THEOREM SendersTrue == Spec => []SendersAsAsked
  <1>1. CInv => SendersAsAsked
    BY DEF CInv, CallersInv, Senders, SendersAsAsked
  <1> QED
    BY <1>1, Inductive, PTL

(* Under the same condition tx.origin is what the pranking or broadcasting *)
(* frame asked for while its call runs, and that of the test otherwise:    *)
(* call_end and create_end restore it at the right depth.  A delegate call *)
(* that a prank without delegate_call does not cover starts with the       *)
(* test's.                                                                 *)
THEOREM OriginTrue == Spec => []OriginAsAsked
  <1>1. CInv => OriginAsAsked
    <2> SUFFICES ASSUME CInv, ~past.meddled
                 PROVE  LET asking == {k \in Promised \ {depth} : stack[k].next.origin # None}
                        IN  IF asking = {} THEN origin = Runner
                            ELSE \E k \in asking : \/ origin = stack[k].next.origin
                                                   \/ origin = Runner /\ Uncovered(k)
      BY DEF OriginAsAsked
    <2>1. CTypeOK /\ CallersInv
      BY DEF CInv
    <2> DEFINE asking == {k \in Promised \ {depth} : stack[k].next.origin # None}
    <2>2. Len(stack) \in Nat /\ depth = Len(stack)
      BY <2>1 DEF CTypeOK, depth
    <2>3. \A k : k \in asking <=> /\ k \in 1 .. Len(stack)
                                  /\ k # Len(stack)
                                  /\ stack[k].next # None
                                  /\ stack[k].next.origin # None
      BY <2>2 DEF Promised
    <2>4. \A k \in 1 .. Len(stack) : stack[k].next # None =>
             \/ prank # None /\ prank.depth = k
             \/ broadcast # None /\ broadcast.depth = k
      BY <2>1, <2>2 DEF CallersInv, OneAsks
    <2>5. CASE prank # None /\ prank.depth < depth /\ prank.new_origin # None
      <3>1. prank.depth \in 1 .. Len(stack) /\ broadcast = None
        BY <2>1, <2>5, KeptAsked DEF CallersInv, PrankKept
      <3>2. stack[prank.depth].next # None /\ stack[prank.depth].next.origin = prank.new_origin
        BY <2>1, <2>5, KeptAsked
      <3>3. prank.depth # Len(stack)
        BY <2>2, <2>5, <3>1
      <3>4. prank.depth \in asking
        BY <2>3, <2>5, <3>1, <3>2, <3>3
      <3>7. origin = prank.new_origin \/ (origin = Runner /\ Uncovered(prank.depth))
        BY <2>1, <2>5 DEF CallersInv, OriginKept
      <3> QED
        BY <3>2, <3>4, <3>7
    <2>6. CASE broadcast # None /\ broadcast.depth < depth
      <3>1. broadcast.depth \in 1 .. Len(stack) /\ prank = None
        BY <2>1, <2>6, KeptAsked DEF CallersInv, PrankKept
      <3>2. /\ stack[broadcast.depth].next # None
            /\ stack[broadcast.depth].next.origin = broadcast.new_origin
        BY <2>1, <2>6, KeptAsked
      <3>3. broadcast.depth # Len(stack) /\ broadcast.new_origin # None
        <4>1. broadcast.new_origin \in Eoas
          BY <2>1, <2>6 DEF CTypeOK, BroadcastType
        <4> QED
          BY <2>2, <2>6, <3>1, <4>1, CheatsAssumption
      <3>4. broadcast.depth \in asking
        BY <2>3, <3>1, <3>2, <3>3
      <3>7. origin = broadcast.new_origin \/ (origin = Runner /\ Uncovered(broadcast.depth))
        BY <2>1, <2>6, <3>1 DEF CallersInv, OriginKept
      <3> QED
        BY <3>2, <3>4, <3>7
    <2>7. CASE /\ ~(prank # None /\ prank.depth < depth /\ prank.new_origin # None)
               /\ ~(broadcast # None /\ broadcast.depth < depth)
      <3>1. origin = Runner
        BY <2>1, <2>7 DEF CallersInv, OriginKept
      <3>2. ASSUME NEW k, k \in asking PROVE FALSE
        <4>1. /\ k \in 1 .. Len(stack) /\ k # Len(stack)
              /\ stack[k].next # None /\ stack[k].next.origin # None
          BY <2>3, <3>2
        <4>2. k < depth
          BY <2>2, <4>1
        <4>3. prank # None /\ prank.depth = k
          BY <2>4, <2>7, <4>1, <4>2
        <4>4. prank.new_origin # None
          BY <2>1, <4>1, <4>3, KeptAsked
        <4> QED
          BY <2>7, <4>2, <4>3, <4>4
      <3>3. asking = {}
        BY <3>2
      <3> QED
        BY <3>1, <3>3
    <2> QED
      BY <2>5, <2>6, <2>7
  <1> QED
    BY <1>1, Inductive, PTL

(* The transactions that a script collects for a sender have the nonces    *)
(* that follow the one on chain without a gap or a duplicate, unless a     *)
(* creation was undone by a revert or made under a prank.                  *)
THEOREM NoncesTrue == Spec => []NoncesFollow
  <1>1. CInv => NoncesFollow
    BY DEF CInv, NonceInv, Follow, NoncesFollow
  <1> QED
    BY <1>1, Inductive, PTL

(* After expectRevert a call is seen to succeed exactly if it reverted as  *)
(* expected, other calls are seen as they were, and a frame that ends with *)
(* reverts still expected is seen to fail, unless the history leaked: a    *)
(* frame reverted after a part of them, or a mocked call reverted.         *)
THEOREM RevertsTrue == Spec => []RevertsHonest
  <1>1. CInv => RevertsHonest
    BY DEF CInv, RevertInv, RevertsHonest
  <1> QED
    BY <1>1, Inductive, PTL
=============================================================================
