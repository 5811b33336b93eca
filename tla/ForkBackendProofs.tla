------------------------- MODULE ForkBackendProofs -------------------------
(***************************************************************************)
(* Theorems about ForkBackend, for any number of forks, blocks, writes,    *)
(* rolls and snapshots.                                                    *)
(*                                                                         *)
(* The three invariants of the run are not inductive.  FInv adds to them   *)
(* what the code relies on and nowhere checks:                             *)
(*   - the maps agree: a local id is the index of its fork, and its ForkId *)
(*     leads back to it (Maps), so that update_block of the fork that is   *)
(*     left does not touch another;                                        *)
(*   - before the first selection no fork has a journaled state            *)
(*     (NotSelected), and the state all forks start with is the one of     *)
(*     that moment (Base), which never changes again;                      *)
(*   - as long as no transaction has ended no database has the persistent  *)
(*     slot, and a journaled state that lacks it was never written         *)
(*     (Remembered): that is why merging journaled states is enough;       *)
(*   - every snapshot holds a fork whose maps still agree and which shows  *)
(*     what was promised when it was taken (MemorySnapshot, ForkSnapshot). *)
(***************************************************************************)
EXTENDS ForkBackend, Integers, WellFoundedInduction, TLAPS

Value == Nat \cup {None}

State == [Slots -> Value]

ForkType == [db : State, block : Nat, state : State]

Ids == 1 .. MaxForks

EnvType == [block : Nat, env : Nat]

ActiveType == [id : Ids, idx : Ids] \cup {None}

PromiseType ==
    [own : Seq(Nat), number : Seq(Nat), base : Value, blurred : SUBSET Ids, shared : Nat,
     sure : {"yes", "no", "forgot"}]

SnapshotType ==
    [there : BOOLEAN, active : ActiveType, fork_id : Value, fork : ForkType, state : State,
     env : Nat, promise : PromiseType]

(* The type invariant. *)
FTypeOK ==
    /\ mem_db \in State
    /\ init_journaled_state \in State
    /\ journaled_state \in State
    /\ active \in ActiveType
    /\ issued_local_fork_ids \in Seq(Nat)
    /\ created_forks \in Seq(Nat)
    /\ forks \in Seq(ForkType)
    /\ multi \in Seq(EnvType)
    /\ state_snapshots \in Seq(SnapshotType)
    /\ env \in Nat
    /\ writes \in Nat
    /\ own \in Seq(Nat)
    /\ number \in Seq(Nat)
    /\ base \in Value
    /\ blurred \in SUBSET Ids
    /\ shared \in Nat
    /\ sure \in {"yes", "no", "forgot"}

-----------------------------------------------------------------------------
(* The parts of the invariant                                              *)

(* A local id is the index of its fork, and no two local ids have the same *)
(* ForkId.                                                                 *)
Maps ==
    /\ Len(forks) <= MaxForks
    /\ Len(issued_local_fork_ids) = Len(forks)
    /\ Len(own) = Len(forks)
    /\ Len(number) = Len(forks)
    /\ Len(created_forks) = Len(multi)
    /\ \A id \in 1 .. Len(forks) :
          /\ issued_local_fork_ids[id] \in 1 .. Len(multi)
          /\ created_forks[issued_local_fork_ids[id]] = id
    /\ active # None => active.id \in 1 .. Len(forks) /\ active.idx = active.id

(* Before a fork is selected no fork has a journaled state, and none has   *)
(* the persistent slot.                                                    *)
NotSelected ==
    active = None =>
        /\ init_journaled_state = Nothing
        /\ sure # "forgot"
        /\ \A i \in 1 .. Len(forks) :
             forks[i].state = Nothing /\ forks[i].db["persistent"] = None

(* A journaled state that forks start with has the value b, if one was     *)
(* written, or nothing, or nothing is promised of the forks.               *)
StartsWith(state, b, blur) ==
    IF b # None THEN state["ordinary"] = b ELSE state["ordinary"] = None \/ Ids \subseteq blur

Base ==
    StartsWith(IF active = None THEN journaled_state ELSE init_journaled_state, base, blurred)

(* What is read of the two slots. *)
Ordinary(state, fork) ==
    IF state["ordinary"] # None THEN state["ordinary"]
    ELSE IF fork.db["ordinary"] # None THEN fork.db["ordinary"]
    ELSE fork.block

Persistent(state, fork) ==
    IF state["persistent"] # None THEN state["persistent"]
    ELSE IF fork.db["persistent"] # None THEN fork.db["persistent"]
    ELSE 0

OwnInv ==
    \A id \in 1 .. Len(forks) : id \notin blurred =>
        own[id] = Ordinary(IF IsActive(id) THEN journaled_state ELSE forks[id].state, forks[id])

NumberInv ==
    \A id \in 1 .. Len(forks) : id \notin blurred => number[id] = BlockNumber(id)

(* As long as the test remembers the persistent slot no database has it,   *)
(* and a journaled state without it means that it was never touched.       *)
Remembered ==
    /\ mem_db["persistent"] = None
    /\ \A i \in 1 .. Len(forks) : forks[i].db["persistent"] = None
    /\ journaled_state["persistent"] # None => journaled_state["persistent"] = shared
    /\ journaled_state["persistent"] = None =>
          /\ shared = 0
          /\ init_journaled_state["persistent"] = None
          /\ \A i \in 1 .. Len(forks) : forks[i].state["persistent"] = None

SharedInv ==
    /\ sure = "yes" => Remembered
    /\ sure = "forgot" => Persistent(journaled_state, ActiveFork) = shared

(* A snapshot taken without a fork, and one taken in a fork. *)
MemorySnapshot(s) ==
    /\ StartsWith(s.state, s.promise.base, s.promise.blurred)
    /\ s.promise.sure # "forgot"
    /\ s.promise.sure = "yes" =>
          /\ s.fork.db["persistent"] = None
          /\ s.state["persistent"] # None => s.state["persistent"] = s.promise.shared
          /\ s.state["persistent"] = None => s.promise.shared = 0

ForkSnapshot(s) ==
    LET id == s.active.id
    IN  /\ active # None
        /\ id \in 1 .. Len(forks)
        /\ s.active.idx = id
        /\ s.fork_id \in 1 .. Len(multi)
        /\ created_forks[s.fork_id] = id
        /\ id \in 1 .. Len(s.promise.own)
        /\ id \in 1 .. Len(s.promise.number)
        /\ StartsWith(init_journaled_state, base, s.promise.blurred)
        /\ id \notin s.promise.blurred =>
              /\ s.promise.own[id] = Ordinary(s.state, s.fork)
              /\ s.promise.number[id] = s.env
        /\ s.promise.sure = "yes" => Persistent(s.state, s.fork) = s.promise.shared

SnapshotsInv ==
    \A n \in 1 .. Len(state_snapshots) :
        IF state_snapshots[n].active = None THEN MemorySnapshot(state_snapshots[n])
        ELSE ForkSnapshot(state_snapshots[n])

TInv == FTypeOK /\ Maps

(* The inductive invariant. *)
FInv ==
    /\ TInv
    /\ NotSelected
    /\ Base
    /\ OwnInv
    /\ NumberInv
    /\ SharedInv
    /\ SnapshotsInv

-----------------------------------------------------------------------------
(* Slots, states and forks                                                 *)

LEMMA SlotsTwo == "ordinary" \in Slots /\ "persistent" \in Slots /\ "ordinary" # "persistent"
  BY DEF Slots

LEMMA NothingIs ==
    /\ Nothing \in State
    /\ Nothing["ordinary"] = None
    /\ Nothing["persistent"] = None
  BY DEF Nothing, State, Slots, Value

LEMMA OverIs ==
    ASSUME NEW a \in State, NEW b \in State
    PROVE  /\ Over(a, b) \in State
           /\ \A s \in Slots : Over(a, b)[s] = IF a[s] # None THEN a[s] ELSE b[s]
  BY DEF Over, State

LEMMA RemoteIs ==
    ASSUME NEW block \in Nat
    PROVE  /\ Remote(block) \in State
           /\ Remote(block)["ordinary"] = block
           /\ Remote(block)["persistent"] = 0
  BY DEF Remote, State, Value, Slots

LEMMA MergedIs ==
    ASSUME NEW from \in State, NEW to \in State
    PROVE  /\ Merged(from, to) \in State
           /\ Merged(from, to)["ordinary"] = to["ordinary"]
           /\ Merged(from, to)["persistent"]
                = IF from["persistent"] # None THEN from["persistent"] ELSE to["persistent"]
  <1>1. PICK v \in Value : v = Over(from, to)["persistent"]
    BY OverIs, SlotsTwo DEF State
  <1>2. v = IF from["persistent"] # None THEN from["persistent"] ELSE to["persistent"]
    BY <1>1, OverIs, SlotsTwo
  <1>3. Merged(from, to) = [to EXCEPT !["persistent"] = v]
    BY <1>1 DEF Merged
  <1> QED
    BY <1>2, <1>3, SlotsTwo DEF State

LEMMA SetIs ==
    ASSUME NEW state \in State, NEW slot \in Slots, NEW v \in Value
    PROVE  /\ [state EXCEPT ![slot] = v] \in State
           /\ [state EXCEPT ![slot] = v][slot] = v
           /\ \A s \in Slots : s # slot => [state EXCEPT ![slot] = v][s] = state[s]
  BY DEF State

LEMMA ForkIs ==
    ASSUME NEW db \in State, NEW block \in Nat, NEW state \in State
    PROVE  /\ Fork(db, block, state) \in ForkType
           /\ Fork(db, block, state).db = db
           /\ Fork(db, block, state).block = block
           /\ Fork(db, block, state).state = state
  BY DEF Fork, ForkType

LEMMA ReadIs ==
    ASSUME NEW state \in State, NEW fork \in ForkType
    PROVE  /\ Read(state, fork) \in State
           /\ Read(state, fork)["ordinary"] = Ordinary(state, fork)
           /\ Read(state, fork)["persistent"] = Persistent(state, fork)
           /\ Ordinary(state, fork) \in Nat
           /\ Persistent(state, fork) \in Nat
  <1>1. fork.db \in State /\ fork.block \in Nat
    BY DEF ForkType
  <1>2. PICK r \in State : r = Remote(fork.block)
    BY <1>1, RemoteIs
  <1>3. PICK u \in State : u = Over(fork.db, r)
    BY <1>1, OverIs
  <1>4. r["ordinary"] = fork.block /\ r["persistent"] = 0
    BY <1>1, <1>2, RemoteIs
  <1>5. \A s \in Slots : u[s] = IF fork.db[s] # None THEN fork.db[s] ELSE r[s]
    BY <1>1, <1>3, OverIs
  <1>6. Read(state, fork) = Over(state, u)
    BY <1>2, <1>3 DEF Read
  <1>7. /\ Over(state, u) \in State
        /\ \A s \in Slots : Over(state, u)[s] = IF state[s] # None THEN state[s] ELSE u[s]
    BY OverIs
  <1>8. \A s \in Slots : state[s] \in Value /\ fork.db[s] \in Value
    BY <1>1 DEF State
  <1>9. Ordinary(state, fork) \in Nat /\ Persistent(state, fork) \in Nat
    BY <1>1, <1>8, SlotsTwo DEF Ordinary, Persistent, Value
  <1> QED
    BY <1>4, <1>5, <1>6, <1>7, <1>9, SlotsTwo DEF Ordinary, Persistent

\* A local id is the index of its fork, so that the view of a fork is plain.
LEMMA IndexIs ==
    ASSUME TInv, NEW id \in LocalIds
    PROVE  /\ Index(id) = id
           /\ id \in 1 .. Len(forks)
           /\ id \in Nat
           /\ id \in Ids
           /\ forks[id] \in ForkType
           /\ issued_local_fork_ids[id] \in 1 .. Len(multi)
  <1>1. Len(forks) \in Nat /\ LocalIds = 1 .. Len(forks)
    BY DEF TInv, FTypeOK, Maps, LocalIds
  <1>2. id \in 1 .. Len(forks) /\ id \in Nat
    BY <1>1
  <1>3. id \in Ids
    BY <1>1, <1>2, ForkBackendAssumption DEF TInv, Maps, Ids
  <1> QED
    BY <1>2, <1>3 DEF TInv, FTypeOK, Maps, Index

LEMMA ForksAre ==
    ASSUME TInv
    PROVE  \A i \in 1 .. Len(forks) :
              /\ forks[i] \in ForkType
              /\ forks[i].db \in State
              /\ forks[i].block \in Nat
              /\ forks[i].state \in State
  <1>1. \A i \in 1 .. Len(forks) : forks[i] \in ForkType
    BY DEF TInv, FTypeOK
  <1> QED
    BY <1>1 DEF ForkType

LEMMA ForksHaveIds ==
    ASSUME TInv, NEW id \in 1 .. Len(forks) PROVE id \in LocalIds /\ id \in Ids
  <1>1. id \in LocalIds
    BY DEF TInv, FTypeOK, Maps, LocalIds
  <1> QED
    BY <1>1, IndexIs

LEMMA ActiveIs ==
    ASSUME TInv
    PROVE  /\ ActiveFork \in ForkType
           /\ active # None => /\ ActiveFork = forks[active.id]
                               /\ active.id \in LocalIds
                               /\ active.id \in 1 .. Len(forks)
                               /\ active.idx = active.id
                               /\ active \in [id : Ids, idx : Ids]
           /\ active = None => /\ ActiveFork.db = mem_db
                               /\ ActiveFork.block = 0
           /\ Visible["ordinary"] = Ordinary(journaled_state, ActiveFork)
           /\ Visible["persistent"] = Persistent(journaled_state, ActiveFork)
           /\ Visible["ordinary"] \in Nat
           /\ Visible["persistent"] \in Nat
  <1>1. active # None => /\ ActiveFork = forks[active.id]
                         /\ active.id \in LocalIds
                         /\ active.id \in 1 .. Len(forks)
                         /\ active.idx = active.id
                         /\ active \in [id : Ids, idx : Ids]
    BY DEF TInv, FTypeOK, Maps, ActiveFork, ActiveType, LocalIds
  <1>2. active = None => /\ ActiveFork.db = mem_db
                         /\ ActiveFork.block = 0
                         /\ ActiveFork \in ForkType
    BY NothingIs, ForkIs DEF TInv, FTypeOK, ActiveFork
  <1>3. ActiveFork \in ForkType
    BY <1>1, <1>2 DEF TInv, FTypeOK
  <1> QED
    BY <1>1, <1>2, <1>3, ReadIs DEF Visible, TInv, FTypeOK

\* None is neither a value, nor a fork that is active.
LEMMA NoneApart == None \notin Nat /\ None \notin [id : Ids, idx : Ids]
  BY ForkBackendAssumption DEF Ids

LEMMA SequenceElement ==
    ASSUME NEW S, NEW s \in Seq(S), NEW i \in 1 .. Len(s) PROVE s[i] \in S
  OBVIOUS

LEMMA SequenceSet ==
    ASSUME NEW S, NEW s \in Seq(S), NEW i \in 1 .. Len(s), NEW e \in S
    PROVE  /\ [s EXCEPT ![i] = e] \in Seq(S)
           /\ Len([s EXCEPT ![i] = e]) = Len(s)
           /\ [s EXCEPT ![i] = e][i] = e
           /\ \A k \in 1 .. Len(s) : k # i => [s EXCEPT ![i] = e][k] = s[k]
  OBVIOUS

LEMMA SequenceAppend ==
    ASSUME NEW S, NEW s \in Seq(S), NEW e \in S
    PROVE  /\ Append(s, e) \in Seq(S)
           /\ Len(Append(s, e)) = Len(s) + 1
           /\ Append(s, e)[Len(s) + 1] = e
           /\ \A k \in 1 .. Len(s) : Append(s, e)[k] = s[k]
  OBVIOUS

\* A set of naturals has a least one.
LEMMA Least ==
    ASSUME NEW S \in SUBSET Nat, S # {} PROVE \E i \in S : \A j \in S : i <= j
  <1> DEFINE less == {p \in Nat \X Nat : p[1] < p[2]}
  <1>1. IsWellFoundedOn(less, Nat)
    BY NatLessThanWellFounded, Zenon DEF OpToRel
  <1>2. PICK x \in S : \A y \in S : ~(<<y, x>> \in less)
    BY <1>1, WFMin, Zenon
  <1>3. x \in Nat /\ \A y \in S : y \in Nat
    OBVIOUS
  <1>4. ASSUME NEW y \in S PROVE x <= y
    <2>1. ~(y < x)
      BY <1>2, <1>3
    <2> QED
      BY <1>3, <2>1
  <1> QED
    BY <1>4

LEMMA ForkedIs ==
    ASSUME FTypeOK, NEW block \in Blocks
    PROVE  /\ block \in Nat
           /\ Forked(block) \in EnvType
           /\ Forked(block).env \in Nat
  <1>1. block \in Nat
    BY ForkBackendAssumption
  <1> DEFINE same == {i \in DOMAIN multi : multi[i].block = block}
  <1>2. CASE same = {}
    BY <1>1, <1>2 DEF Forked, EnvType
  <1>3. CASE same # {}
    <2>1. same \in SUBSET Nat
      BY DEF FTypeOK
    <2>2. \E i \in same : \A j \in same : i <= j
      BY <1>3, <2>1, Least
    <2>3. PICK i : i = CHOOSE k \in same : \A j \in same : k <= j
      OBVIOUS
    <2>4. i \in same
      BY <2>2, <2>3
    <2>5. multi[i].env \in Nat
      <3>1. multi \in Seq(EnvType)
        BY DEF FTypeOK
      <3>2. i \in 1 .. Len(multi)
        BY <2>4, <3>1
      <3>3. multi[i] \in EnvType
        BY <3>1, <3>2
      <3> QED
        BY <3>3 DEF EnvType
    <2>6. Forked(block) = [block |-> block, env |-> multi[i].env]
      BY <1>3, <2>3 DEF Forked
    <2> QED
      BY <1>1, <2>5, <2>6 DEF EnvType
  <1> QED
    BY <1>2, <1>3

LEMMA WrittenIs == ASSUME FTypeOK PROVE Written(writes) \in Nat /\ Written(writes) # None
  BY NoneApart DEF FTypeOK, Written

-----------------------------------------------------------------------------
(* Types and maps                                                          *)

LEMMA InitTInv == Init => TInv
  <1> SUFFICES ASSUME Init PROVE TInv
    OBVIOUS
  <1> USE NothingIs, ForkBackendAssumption
  <1>1. CASE active = None
    <2>1. /\ issued_local_fork_ids = <<>> /\ created_forks = <<>> /\ forks = <<>>
          /\ multi = <<>> /\ env = 0 /\ own = <<>> /\ number = <<>>
      <3>1. 1 \in Ids
        BY DEF Ids
      <3>2. [id |-> 1, idx |-> 1] \in [id : Ids, idx : Ids]
        BY <3>1
      <3>3. [id |-> 1, idx |-> 1] # None
        BY <3>2, NoneApart
      <3> QED
        BY <1>1, <3>3 DEF Init
    <2>2. FTypeOK
      BY <1>1, <2>1 DEF Init, FTypeOK, ActiveType, Value
    <2>3. Maps
      BY <1>1, <2>1 DEF Maps
    <2> QED
      BY <2>2, <2>3 DEF TInv
  <1>2. CASE active # None
    <2>1. PICK block \in Blocks :
            /\ active = [id |-> 1, idx |-> 1]
            /\ issued_local_fork_ids = <<1>>
            /\ created_forks = <<1>>
            /\ forks = <<NewFork(block, Nothing)>>
            /\ multi = <<[block |-> block, env |-> block]>>
            /\ env = block
            /\ own = <<block>>
            /\ number = <<block>>
      BY <1>2 DEF Init
    <2>2. block \in Nat /\ 1 \in Ids
      BY DEF Ids
    <2>3. PICK f \in ForkType : f = NewFork(block, Nothing)
      BY <2>2, ForkIs DEF NewFork
    <2>4. forks = <<f>>
      BY <2>1, <2>3
    <2>5. FTypeOK
      BY <2>1, <2>2, <2>4 DEF Init, FTypeOK, ActiveType, Value, EnvType
    <2>6. Maps
      BY <2>1, <2>2, <2>4 DEF Maps
    <2> QED
      BY <2>5, <2>6 DEF TInv
  <1> QED
    BY <1>1, <1>2

LEMMA StoreTInv == ASSUME TInv, NEW slot \in Slots, Store(slot) PROVE TInv'
  <1>1. PICK v \in Nat : v = Written(writes)
    BY WrittenIs DEF TInv
  <1>2. /\ journaled_state' = [journaled_state EXCEPT ![slot] = v]
        /\ writes' = writes + 1
        /\ shared' = IF slot = "persistent" THEN v ELSE shared
        /\ base' = IF slot = "ordinary" /\ active = None THEN v ELSE base
        /\ own' = IF slot = "ordinary" /\ active # None
                  THEN [own EXCEPT ![active.id] = v] ELSE own
        /\ UNCHANGED <<mem_db, init_journaled_state, active, maps, forks, multi,
                       state_snapshots, env, rounds, number, blurred, sure>>
    BY <1>1 DEF Store
  <1>3. journaled_state' \in State
    BY <1>2, SetIs DEF TInv, FTypeOK, Value
  <1>4. own' \in Seq(Nat) /\ Len(own') = Len(own)
    <2>1. active # None => active.id \in 1 .. Len(own)
      BY DEF TInv, Maps
    <2> QED
      BY <1>2, <2>1, SequenceSet DEF TInv, FTypeOK
  <1>5. FTypeOK'
    BY <1>2, <1>3, <1>4 DEF TInv, FTypeOK, maps, Value
  <1>6. Maps'
    BY <1>2, <1>4 DEF TInv, Maps, maps
  <1> QED
    BY <1>5, <1>6 DEF TInv

LEMMA LoadTInv == ASSUME TInv, NEW slot \in Slots, Load(slot) PROVE TInv'
  <1>1. Visible[slot] \in Value
    BY ActiveIs DEF Slots, Value
  <1>2. journaled_state' \in State
    BY <1>1, SetIs DEF Load, TInv, FTypeOK
  <1>3. blurred' \in SUBSET Ids
    BY DEF Load, TInv, FTypeOK, Ids
  <1>4. FTypeOK'
    BY <1>2, <1>3 DEF Load, TInv, FTypeOK, maps
  <1>5. Maps'
    BY DEF Load, TInv, Maps, maps
  <1> QED
    BY <1>4, <1>5 DEF TInv

LEMMA SetBlockNumberTInv == ASSUME TInv, SetBlockNumber PROVE TInv'
  <1>1. env' \in Nat
    BY WrittenIs DEF SetBlockNumber, TInv
  <1>2. number' \in Seq(Nat) /\ Len(number') = Len(number)
    <2>1. active # None => active.id \in 1 .. Len(number)
      BY DEF TInv, Maps
    <2> QED
      BY <1>1, <2>1, SequenceSet DEF SetBlockNumber, TInv, FTypeOK
  <1>3. FTypeOK'
    BY <1>1, <1>2 DEF SetBlockNumber, TInv, FTypeOK, maps
  <1>4. Maps'
    BY <1>2 DEF SetBlockNumber, TInv, Maps, maps
  <1> QED
    BY <1>3, <1>4 DEF TInv

\* What is committed: the fork that is active, and no other.
LEMMA EndForks ==
    ASSUME TInv, EndTransaction, active # None
    PROVE  /\ forks' \in Seq(ForkType)
           /\ Len(forks') = Len(forks)
           /\ \A i \in 1 .. Len(forks) : i # active.id => forks'[i] = forks[i]
           /\ forks'[active.id].db = Over(journaled_state, forks[active.id].db)
           /\ forks'[active.id].block = forks[active.id].block
           /\ forks'[active.id].state = forks[active.id].state
  <1>1. PICK id \in 1 .. Len(forks) : id = active.id /\ id = active.idx
    BY ActiveIs
  <1>2. PICK f \in ForkType : f = forks[id]
    BY DEF TInv, FTypeOK
  <1>3. f.db \in State /\ f.block \in Nat /\ f.state \in State
    BY DEF ForkType
  <1>4. Over(journaled_state, f.db) \in State
    BY <1>3, OverIs DEF TInv, FTypeOK
  <1>5. PICK g \in ForkType : g = Fork(Over(journaled_state, f.db), f.block, f.state)
    BY <1>3, <1>4, ForkIs
  <1>6. g.db = Over(journaled_state, f.db) /\ g.block = f.block /\ g.state = f.state
    BY <1>3, <1>4, <1>5, ForkIs
  <1>7. forks' = [forks EXCEPT ![id] = g]
    BY <1>1, <1>2, <1>5 DEF EndTransaction
  <1> QED
    BY <1>1, <1>2, <1>6, <1>7, SequenceSet DEF TInv, FTypeOK

LEMMA EndTInv == ASSUME TInv, EndTransaction PROVE TInv'
  <1>1. forks' \in Seq(ForkType) /\ Len(forks') = Len(forks)
    BY EndForks DEF EndTransaction, TInv, FTypeOK
  <1>2. mem_db' \in State
    BY OverIs DEF EndTransaction, TInv, FTypeOK
  <1>3. FTypeOK'
    BY <1>1, <1>2, NothingIs DEF EndTransaction, TInv, FTypeOK, maps, Value
  <1>4. Maps'
    BY <1>1 DEF EndTransaction, TInv, Maps, maps
  <1> QED
    BY <1>3, <1>4 DEF TInv

LEMMA CreateEffect ==
    ASSUME TInv, NEW block \in Blocks, CreateFork(block)
    PROVE  /\ block \in Nat
           /\ forks' \in Seq(ForkType)
           /\ Len(forks') = Len(forks) + 1
           /\ \A i \in 1 .. Len(forks) : forks'[i] = forks[i]
           /\ forks'[Len(forks) + 1].db = Nothing
           /\ forks'[Len(forks) + 1].block = block
           /\ forks'[Len(forks) + 1].state = init_journaled_state
           /\ multi' \in Seq(EnvType)
           /\ Len(multi') = Len(multi) + 1
           /\ \A i \in 1 .. Len(multi) : multi'[i] = multi[i]
           /\ multi'[Len(multi) + 1].env = Forked(block).env
           /\ Forked(block).env \in Nat
           /\ issued_local_fork_ids' \in Seq(Nat)
           /\ Len(issued_local_fork_ids') = Len(issued_local_fork_ids) + 1
           /\ issued_local_fork_ids'[Len(issued_local_fork_ids) + 1] = Len(multi) + 1
           /\ \A i \in 1 .. Len(issued_local_fork_ids) :
                issued_local_fork_ids'[i] = issued_local_fork_ids[i]
           /\ created_forks' \in Seq(Nat)
           /\ Len(created_forks') = Len(created_forks) + 1
           /\ created_forks'[Len(created_forks) + 1] = Len(forks) + 1
           /\ \A i \in 1 .. Len(created_forks) : created_forks'[i] = created_forks[i]
           /\ Fresh(block) \in Nat
           /\ own' \in Seq(Nat)
           /\ Len(own') = Len(own) + 1
           /\ own'[Len(own) + 1] = Fresh(block)
           /\ \A i \in 1 .. Len(own) : own'[i] = own[i]
           /\ number' \in Seq(Nat)
           /\ Len(number') = Len(number) + 1
           /\ number'[Len(number) + 1] = Forked(block).env
           /\ \A i \in 1 .. Len(number) : number'[i] = number[i]
  <1> USE DEF TInv, FTypeOK
  <1>1. block \in Nat /\ Forked(block) \in EnvType /\ Forked(block).env \in Nat
    BY ForkedIs
  <1>2. PICK f \in ForkType : f = NewFork(block, init_journaled_state)
    BY <1>1, NothingIs, ForkIs DEF NewFork
  <1>3. f.db = Nothing /\ f.block = block /\ f.state = init_journaled_state
    BY <1>1, <1>2, NothingIs, ForkIs DEF NewFork
  <1>4. PICK m \in EnvType : m = Forked(block)
    BY <1>1
  <1>5. forks' = Append(forks, f) /\ multi' = Append(multi, m)
    BY <1>2, <1>4 DEF CreateFork
  <1>6. /\ multi' \in Seq(EnvType)
        /\ Len(multi') = Len(multi) + 1
        /\ \A i \in 1 .. Len(multi) : multi'[i] = multi[i]
        /\ multi'[Len(multi) + 1] = m
    BY <1>5, SequenceAppend
  <1>7. /\ forks' \in Seq(ForkType)
        /\ Len(forks') = Len(forks) + 1
        /\ \A i \in 1 .. Len(forks) : forks'[i] = forks[i]
        /\ forks'[Len(forks) + 1] = f
    BY <1>5, SequenceAppend
  <1>8. Len(multi) + 1 \in Nat /\ Len(forks) + 1 \in Nat
    OBVIOUS
  <1>9. /\ issued_local_fork_ids' = Append(issued_local_fork_ids, Len(multi) + 1)
        /\ created_forks' = Append(created_forks, Len(forks) + 1)
    BY <1>6 DEF CreateFork
  <1>10. Fresh(block) \in Nat
    BY <1>1 DEF Fresh, Value
  <1>11. own' = Append(own, Fresh(block)) /\ number' = Append(number, Forked(block).env)
    BY DEF CreateFork
  <1>12. /\ issued_local_fork_ids' \in Seq(Nat)
         /\ Len(issued_local_fork_ids') = Len(issued_local_fork_ids) + 1
         /\ issued_local_fork_ids'[Len(issued_local_fork_ids) + 1] = Len(multi) + 1
         /\ \A i \in 1 .. Len(issued_local_fork_ids) :
              issued_local_fork_ids'[i] = issued_local_fork_ids[i]
    BY <1>8, <1>9, SequenceAppend
  <1>13. /\ created_forks' \in Seq(Nat)
         /\ Len(created_forks') = Len(created_forks) + 1
         /\ created_forks'[Len(created_forks) + 1] = Len(forks) + 1
         /\ \A i \in 1 .. Len(created_forks) : created_forks'[i] = created_forks[i]
    BY <1>8, <1>9, SequenceAppend
  <1>14. /\ own' \in Seq(Nat)
         /\ Len(own') = Len(own) + 1
         /\ own'[Len(own) + 1] = Fresh(block)
         /\ \A i \in 1 .. Len(own) : own'[i] = own[i]
    BY <1>10, <1>11, SequenceAppend
  <1>15. /\ number' \in Seq(Nat)
         /\ Len(number') = Len(number) + 1
         /\ number'[Len(number) + 1] = Forked(block).env
         /\ \A i \in 1 .. Len(number) : number'[i] = number[i]
    BY <1>1, <1>11, SequenceAppend
  <1> HIDE DEF TInv, FTypeOK
  <1> QED
    BY <1>1, <1>3, <1>4, <1>6, <1>7, <1>10, <1>12, <1>13, <1>14, <1>15

LEMMA CreateTInv == ASSUME TInv, NEW block \in Blocks, CreateFork(block) PROVE TInv'
  <1>1. /\ UNCHANGED <<mem_db, init_journaled_state, active, state_snapshots, journaled_state,
                       env, writes, rounds, base, blurred, shared, sure>>
        /\ Len(issued_local_fork_ids) < MaxForks
    BY DEF CreateFork
  <1>2. FTypeOK'
    BY <1>1, CreateEffect DEF TInv, FTypeOK
  <1>3. Len(forks) \in Nat /\ Len(multi) \in Nat /\ MaxForks \in Nat
    BY ForkBackendAssumption DEF TInv, FTypeOK
  <1>4. /\ Len(forks') = Len(forks) + 1
        /\ Len(multi') = Len(multi) + 1
        /\ Len(issued_local_fork_ids') = Len(forks) + 1
        /\ Len(own') = Len(forks) + 1
        /\ Len(number') = Len(forks) + 1
        /\ Len(created_forks') = Len(multi) + 1
        /\ Len(forks) + 1 <= MaxForks
    BY <1>1, <1>3, CreateEffect DEF TInv, Maps
  <1>5. ASSUME NEW id \in 1 .. Len(forks')
        PROVE  /\ issued_local_fork_ids'[id] \in 1 .. Len(multi')
               /\ created_forks'[issued_local_fork_ids'[id]] = id
    <2>1. CASE id = Len(forks) + 1
      <3>1. /\ issued_local_fork_ids'[id] = Len(multi) + 1
            /\ created_forks'[Len(multi) + 1] = Len(forks) + 1
        BY <2>1, CreateEffect DEF TInv, Maps
      <3> QED
        BY <1>3, <1>4, <2>1, <3>1
    <2>2. CASE id # Len(forks) + 1
      <3>1. id \in 1 .. Len(forks)
        BY <1>3, <1>4, <2>2
      <3>2. /\ issued_local_fork_ids[id] \in 1 .. Len(multi)
            /\ created_forks[issued_local_fork_ids[id]] = id
        BY <3>1 DEF TInv, Maps
      <3>3. /\ issued_local_fork_ids'[id] = issued_local_fork_ids[id]
            /\ created_forks'[issued_local_fork_ids[id]] = created_forks[issued_local_fork_ids[id]]
        BY <3>1, <3>2, CreateEffect DEF TInv, Maps
      <3> QED
        BY <1>3, <1>4, <3>2, <3>3
    <2> QED
      BY <2>1, <2>2
  <1>6. active' # None => active'.id \in 1 .. Len(forks') /\ active'.idx = active'.id
    BY <1>1, <1>3, <1>4 DEF TInv, Maps
  <1>7. Maps'
    BY <1>4, <1>5, <1>6 DEF Maps
  <1> QED
    BY <1>2, <1>7 DEF TInv

\* What a selection changes.
LEMMA SelectEffect ==
    ASSUME TInv, NEW id \in LocalIds, SelectFork(id)
    PROVE  /\ id \in 1 .. Len(forks)
           /\ active = None \/ active.id # id
           /\ active' = [id |-> id, idx |-> id]
           /\ active'.id = id
           /\ active' # None
           /\ forks' \in Seq(ForkType)
           /\ Len(forks') = Len(forks)
           /\ journaled_state' \in State
           /\ journaled_state'["ordinary"]
                = IF active = None THEN journaled_state["ordinary"]
                  ELSE forks[id].state["ordinary"]
           /\ journaled_state'["persistent"]
                = IF journaled_state["persistent"] # None THEN journaled_state["persistent"]
                  ELSE IF active = None THEN None ELSE forks[id].state["persistent"]
           /\ forks'[id].state = journaled_state'
           /\ forks'[id].block = forks[id].block
           /\ forks'[id].db["ordinary"] = forks[id].db["ordinary"]
           /\ forks'[id].db["persistent"]
                = IF ActiveFork.db["persistent"] # None THEN ActiveFork.db["persistent"]
                  ELSE forks[id].db["persistent"]
           /\ \A i \in 1 .. Len(forks) : i # id =>
                /\ forks'[i].db = forks[i].db
                /\ forks'[i].block = forks[i].block
                /\ forks'[i].state = IF active = None \/ i = active.id THEN journaled_state
                                     ELSE forks[i].state
           /\ multi' \in Seq(EnvType)
           /\ Len(multi') = Len(multi)
           /\ active = None => multi' = multi
           /\ active # None =>
                /\ multi'[issued_local_fork_ids[active.id]].env = env
                /\ \A j \in 1 .. Len(multi) : j # issued_local_fork_ids[active.id] =>
                     multi'[j] = multi[j]
           /\ env' = multi'[issued_local_fork_ids[id]].env
           /\ env' \in Nat
  <1>1. /\ Index(id) = id /\ id \in 1 .. Len(forks) /\ id \in Nat /\ id \in Ids
        /\ forks[id] \in ForkType /\ issued_local_fork_ids[id] \in 1 .. Len(multi)
    BY IndexIs
  <1>2. active = None \/ active.id # id
    BY DEF SelectFork, IsActive
  <1>3. active' = [id |-> id, idx |-> id] /\ active'.id = id
    BY <1>1 DEF SelectFork
  <1>4. active' # None
    <2>1. [id |-> id, idx |-> id] \in [id : Ids, idx : Ids]
      BY <1>1
    <2> QED
      BY <1>3, <2>1, NoneApart
  <1>5. \A i \in 1 .. Len(forks) :
            /\ forks[i] \in ForkType
            /\ forks[i].db \in State /\ forks[i].block \in Nat /\ forks[i].state \in State
    BY ForksAre
  <1>6. journaled_state \in State /\ ActiveFork.db \in State
    BY ActiveIs DEF TInv, FTypeOK, ForkType
  <1>7. \A i \in 1 .. Len(forks) :
            LET r == Recorded(forks[i], journaled_state)
            IN  /\ r \in ForkType
                /\ r.db = forks[i].db
                /\ r.block = forks[i].block
                /\ r.state = journaled_state
    BY <1>5, <1>6, ForkIs DEF Recorded
  <1>8. PICK kept : kept = Kept
    OBVIOUS
  <1>9. /\ kept \in Seq(ForkType)
        /\ Len(kept) = Len(forks)
        /\ \A i \in 1 .. Len(forks) :
             /\ kept[i].db = forks[i].db
             /\ kept[i].block = forks[i].block
             /\ kept[i].state = IF active = None \/ i = active.id THEN journaled_state
                                ELSE forks[i].state
    <2>1. CASE active = None
      <3>1. kept = [i \in 1 .. Len(forks) |-> Recorded(forks[i], journaled_state)]
        BY <1>8, <2>1 DEF Kept, TInv, FTypeOK
      <3>2. Len(forks) \in Nat
        BY DEF TInv, FTypeOK
      <3>3. kept \in Seq(ForkType) /\ Len(kept) = Len(forks)
        BY <1>7, <3>1, <3>2
      <3>4. \A i \in 1 .. Len(forks) : kept[i] = Recorded(forks[i], journaled_state)
        BY <3>1
      <3> QED
        BY <1>7, <2>1, <3>3, <3>4
    <2>2. CASE active # None
      <3>1. PICK a \in 1 .. Len(forks) : a = active.id /\ a = active.idx
        BY <2>2, ActiveIs
      <3>2. PICK r \in ForkType : r = Recorded(forks[a], journaled_state)
        BY <1>7
      <3>3. r.db = forks[a].db /\ r.block = forks[a].block /\ r.state = journaled_state
        BY <1>7, <3>2
      <3>4. kept = [forks EXCEPT ![a] = r]
        BY <1>8, <2>2, <3>1, <3>2 DEF Kept
      <3>5. /\ kept \in Seq(ForkType) /\ Len(kept) = Len(forks)
            /\ kept[a] = r
            /\ \A i \in 1 .. Len(forks) : i # a => kept[i] = forks[i]
        BY <3>4, SequenceSet DEF TInv, FTypeOK
      <3> QED
        BY <2>2, <3>1, <3>3, <3>5
    <2> QED
      BY <2>1, <2>2
  <1>10. PICK t \in ForkType : t = kept[id]
    BY <1>1, <1>9
  <1>11. /\ t.db = forks[id].db /\ t.db \in State
         /\ t.block = forks[id].block /\ t.block \in Nat
         /\ t.state = (IF active = None THEN journaled_state ELSE forks[id].state)
         /\ t.state \in State
    BY <1>1, <1>2, <1>5, <1>6, <1>9, <1>10
  <1>12. /\ Merged(ActiveFork.db, t.db) \in State
         /\ Merged(ActiveFork.db, t.db)["ordinary"] = t.db["ordinary"]
         /\ Merged(ActiveFork.db, t.db)["persistent"]
              = IF ActiveFork.db["persistent"] # None THEN ActiveFork.db["persistent"]
                ELSE t.db["persistent"]
    BY <1>6, <1>11, MergedIs
  <1>13. /\ Merged(journaled_state, t.state) \in State
         /\ Merged(journaled_state, t.state)["ordinary"] = t.state["ordinary"]
         /\ Merged(journaled_state, t.state)["persistent"]
              = IF journaled_state["persistent"] # None THEN journaled_state["persistent"]
                ELSE t.state["persistent"]
    BY <1>6, <1>11, MergedIs
  <1>14. PICK g \in ForkType : g = MergedInto(t)
    BY <1>11, <1>12, <1>13, ForkIs DEF MergedInto
  <1>15. /\ g.db = Merged(ActiveFork.db, t.db)
         /\ g.block = t.block
         /\ g.state = Merged(journaled_state, t.state)
    BY <1>11, <1>12, <1>13, <1>14, ForkIs DEF MergedInto
  <1>16. forks' = [kept EXCEPT ![id] = g] /\ journaled_state' = g.state
    BY <1>1, <1>8, <1>10, <1>14 DEF SelectFork
  <1>17. /\ forks' \in Seq(ForkType)
         /\ Len(forks') = Len(forks)
         /\ forks'[id] = g
         /\ \A i \in 1 .. Len(forks) : i # id => forks'[i] = kept[i]
    BY <1>1, <1>9, <1>16, SequenceSet
  <1>18. \A i \in 1 .. Len(forks) : i # id =>
            /\ forks'[i].db = forks[i].db
            /\ forks'[i].block = forks[i].block
            /\ forks'[i].state = IF active = None \/ i = active.id THEN journaled_state
                                 ELSE forks[i].state
    BY <1>9, <1>17
  <1>19. /\ journaled_state' \in State
         /\ journaled_state'["ordinary"]
              = IF active = None THEN journaled_state["ordinary"] ELSE forks[id].state["ordinary"]
         /\ journaled_state'["persistent"]
              = IF journaled_state["persistent"] # None THEN journaled_state["persistent"]
                ELSE IF active = None THEN None ELSE forks[id].state["persistent"]
    BY <1>11, <1>13, <1>15, <1>16
  <1>20. /\ multi' \in Seq(EnvType)
         /\ Len(multi') = Len(multi)
         /\ active = None => multi' = multi
         /\ active # None =>
              /\ multi'[issued_local_fork_ids[active.id]].env = env
              /\ \A j \in 1 .. Len(multi) : j # issued_local_fork_ids[active.id] =>
                   multi'[j] = multi[j]
    <2>1. CASE active = None
      BY <2>1 DEF SelectFork, TInv, FTypeOK
    <2>2. CASE active # None
      <3>1. PICK j \in 1 .. Len(multi) : j = issued_local_fork_ids[active.id]
        BY <2>2, ActiveIs, IndexIs
      <3>2. multi[j] \in EnvType /\ multi[j].block \in Nat /\ env \in Nat
        <4>1. multi[j] \in EnvType /\ env \in Nat
          BY DEF TInv, FTypeOK
        <4> QED
          BY <4>1 DEF EnvType
      <3>3. PICK m \in EnvType : m = [block |-> multi[j].block, env |-> env]
        BY <3>2 DEF EnvType
      <3>4. m.env = env
        BY <3>3
      <3>5. multi' = [multi EXCEPT ![j] = m]
        BY <2>2, <3>1, <3>3 DEF SelectFork, UpdatedBlock
      <3>6. /\ multi' \in Seq(EnvType)
            /\ Len(multi') = Len(multi)
            /\ multi'[j] = m
            /\ \A k \in 1 .. Len(multi) : k # j => multi'[k] = multi[k]
        BY <3>5, SequenceSet DEF TInv, FTypeOK
      <3> QED
        BY <2>2, <3>1, <3>4, <3>6
    <2> QED
      BY <2>1, <2>2
  <1>21. env' = multi'[issued_local_fork_ids[id]].env
    BY DEF SelectFork
  <1>22. env' \in Nat
    <2>1. multi'[issued_local_fork_ids[id]] \in EnvType
      BY <1>1, <1>20
    <2> QED
      BY <1>21, <2>1 DEF EnvType
  <1>23. /\ forks'[id].state = journaled_state'
         /\ forks'[id].block = forks[id].block
         /\ forks'[id].db["ordinary"] = forks[id].db["ordinary"]
         /\ forks'[id].db["persistent"]
              = IF ActiveFork.db["persistent"] # None THEN ActiveFork.db["persistent"]
                ELSE forks[id].db["persistent"]
    BY <1>11, <1>12, <1>15, <1>16, <1>17
  <1> QED
    BY <1>1, <1>2, <1>3, <1>4, <1>17, <1>18, <1>19, <1>20, <1>21, <1>22, <1>23

LEMMA SelectTInv == ASSUME TInv, NEW id \in LocalIds, SelectFork(id) PROVE TInv'
  <1>1. UNCHANGED <<mem_db, maps, state_snapshots, writes, rounds, number, base, blurred, shared>>
    BY DEF SelectFork
  <1>2. id \in Ids
    BY IndexIs
  <1>3. active' \in ActiveType
    <2>1. [id |-> id, idx |-> id] \in [id : Ids, idx : Ids]
      BY <1>2
    <2> QED
      BY <2>1, SelectEffect DEF ActiveType
  <1>4. own' \in Seq(Nat) /\ Len(own') = Len(own)
    <2>1. CASE active = None /\ base # None
      <3>1. base \in Nat /\ own \in Seq(Nat) /\ Len(own) \in Nat
        BY <2>1 DEF TInv, FTypeOK, Value
      <3>2. own' = [i \in 1 .. Len(own) |-> base]
        BY <2>1, <3>1 DEF SelectFork
      <3> QED
        BY <3>1, <3>2
    <2>2. CASE ~(active = None /\ base # None)
      BY <2>2 DEF SelectFork, TInv, FTypeOK
    <2> QED
      BY <2>1, <2>2
  <1>5. init_journaled_state' \in State /\ sure' \in {"yes", "no", "forgot"}
    BY DEF SelectFork, StillSure, TInv, FTypeOK
  <1>6. FTypeOK'
    BY <1>1, <1>3, <1>4, <1>5, SelectEffect DEF TInv, FTypeOK, maps
  <1>7. active'.idx = active'.id
    BY SelectEffect
  <1>8. Maps'
    BY <1>1, <1>4, <1>7, SelectEffect DEF TInv, Maps, maps
  <1> QED
    BY <1>6, <1>8 DEF TInv

\* What rolling a fork changes: its database and block, and what it has loaded
\* if it is active.
LEMMA RollEffect ==
    ASSUME TInv, NEW id \in LocalIds, NEW block \in Blocks, RollFork(id, block)
    PROVE  /\ id \in 1 .. Len(forks)
           /\ block \in Nat
           /\ forks' \in Seq(ForkType)
           /\ Len(forks') = Len(forks)
           /\ \A i \in 1 .. Len(forks) : i # id => forks'[i] = forks[i]
           /\ forks'[id].db["ordinary"] = None
           /\ forks'[id].db["persistent"] = forks[id].db["persistent"]
           /\ forks'[id].block = block
           /\ forks'[id].state = IF IsActive(id) THEN journaled_state' ELSE forks[id].state
           /\ journaled_state' \in State
           /\ ~IsActive(id) => journaled_state' = journaled_state
           /\ IsActive(id) =>
                /\ journaled_state'["ordinary"] = init_journaled_state["ordinary"]
                /\ journaled_state'["persistent"]
                     = IF journaled_state["persistent"] # None THEN journaled_state["persistent"]
                       ELSE init_journaled_state["persistent"]
           /\ multi' \in Seq(EnvType)
           /\ Len(multi') = Len(multi) + 1
           /\ \A i \in 1 .. Len(multi) : multi'[i] = multi[i]
           /\ multi'[Len(multi) + 1].env = Forked(block).env
           /\ Forked(block).env \in Nat
           /\ issued_local_fork_ids' \in Seq(Nat)
           /\ Len(issued_local_fork_ids') = Len(issued_local_fork_ids)
           /\ issued_local_fork_ids'[id] = Len(multi) + 1
           /\ \A i \in 1 .. Len(forks) : i # id =>
                issued_local_fork_ids'[i] = issued_local_fork_ids[i]
           /\ created_forks' \in Seq(Nat)
           /\ Len(created_forks') = Len(created_forks) + 1
           /\ created_forks'[Len(created_forks) + 1] = id
           /\ \A i \in 1 .. Len(created_forks) : created_forks'[i] = created_forks[i]
           /\ Fresh(block) \in Nat
           /\ own' \in Seq(Nat)
           /\ Len(own') = Len(own)
           /\ own'[id] = Fresh(block)
           /\ \A i \in 1 .. Len(forks) : i # id => own'[i] = own[i]
           /\ number' \in Seq(Nat)
           /\ Len(number') = Len(number)
           /\ number'[id] = Forked(block).env
           /\ \A i \in 1 .. Len(forks) : i # id => number'[i] = number[i]
  <1>1. /\ Index(id) = id /\ id \in 1 .. Len(forks) /\ id \in Nat
        /\ forks[id] \in ForkType
    BY IndexIs
  <1>2. /\ id \in 1 .. Len(issued_local_fork_ids)
        /\ id \in 1 .. Len(own)
        /\ id \in 1 .. Len(number)
        /\ Len(issued_local_fork_ids) = Len(forks)
        /\ Len(own) = Len(forks)
        /\ Len(number) = Len(forks)
    BY <1>1 DEF TInv, Maps
  <1>3. block \in Nat /\ Forked(block) \in EnvType /\ Forked(block).env \in Nat
    BY ForkedIs DEF TInv
  <1>4. forks[id].db \in State /\ forks[id].state \in State
    BY <1>1, ForksAre
  <1>5. /\ RolledJournaledState \in State
        /\ RolledJournaledState["ordinary"] = init_journaled_state["ordinary"]
        /\ RolledJournaledState["persistent"]
             = IF journaled_state["persistent"] # None THEN journaled_state["persistent"]
               ELSE init_journaled_state["persistent"]
    BY MergedIs DEF RolledJournaledState, TInv, FTypeOK
  <1>6. PICK st \in State : st = IF IsActive(id) THEN RolledJournaledState ELSE forks[id].state
    BY <1>4, <1>5
  <1>7. PICK d \in State : d = Merged(forks[id].db, Nothing)
    BY <1>4, NothingIs, MergedIs
  <1>8. d["ordinary"] = None /\ d["persistent"] = forks[id].db["persistent"]
    BY <1>4, <1>7, NothingIs, MergedIs
  <1>9. PICK f \in ForkType : f = Fork(d, block, st)
    BY <1>3, ForkIs
  <1>10. f.db = d /\ f.block = block /\ f.state = st
    BY <1>3, <1>9, ForkIs
  <1>11. forks' = [forks EXCEPT ![id] = f]
    BY <1>1, <1>6, <1>7, <1>9 DEF RollFork
  <1>12. /\ forks' \in Seq(ForkType)
         /\ Len(forks') = Len(forks)
         /\ forks'[id] = f
         /\ \A i \in 1 .. Len(forks) : i # id => forks'[i] = forks[i]
    BY <1>1, <1>11, SequenceSet DEF TInv, FTypeOK
  <1>13. journaled_state' = IF IsActive(id) THEN RolledJournaledState ELSE journaled_state
    BY DEF RollFork
  <1>14. PICK m \in EnvType : m = Forked(block)
    BY <1>3
  <1>15. /\ multi' \in Seq(EnvType)
         /\ Len(multi') = Len(multi) + 1
         /\ \A i \in 1 .. Len(multi) : multi'[i] = multi[i]
         /\ multi'[Len(multi) + 1] = m
         /\ Len(multi) + 1 \in Nat
    <2>1. multi' = Append(multi, m)
      BY <1>14 DEF RollFork
    <2> QED
      BY <2>1, SequenceAppend DEF TInv, FTypeOK
  <1>16. /\ issued_local_fork_ids' = [issued_local_fork_ids EXCEPT ![id] = Len(multi) + 1]
         /\ created_forks' = Append(created_forks, id)
         /\ own' = [own EXCEPT ![id] = Fresh(block)]
         /\ number' = [number EXCEPT ![id] = Forked(block).env]
    BY <1>1, <1>15 DEF RollFork
  <1>17. /\ issued_local_fork_ids' \in Seq(Nat)
         /\ Len(issued_local_fork_ids') = Len(issued_local_fork_ids)
         /\ issued_local_fork_ids'[id] = Len(multi) + 1
         /\ \A i \in 1 .. Len(forks) : i # id =>
              issued_local_fork_ids'[i] = issued_local_fork_ids[i]
    BY <1>2, <1>15, <1>16, SequenceSet DEF TInv, FTypeOK
  <1>18. /\ created_forks' \in Seq(Nat)
         /\ Len(created_forks') = Len(created_forks) + 1
         /\ created_forks'[Len(created_forks) + 1] = id
         /\ \A i \in 1 .. Len(created_forks) : created_forks'[i] = created_forks[i]
    BY <1>1, <1>16, SequenceAppend DEF TInv, FTypeOK
  <1>19. Fresh(block) \in Nat
    BY <1>3 DEF Fresh, Value, TInv, FTypeOK
  <1>20. /\ own' \in Seq(Nat)
         /\ Len(own') = Len(own)
         /\ own'[id] = Fresh(block)
         /\ \A i \in 1 .. Len(forks) : i # id => own'[i] = own[i]
    BY <1>2, <1>16, <1>19, SequenceSet DEF TInv, FTypeOK
  <1>21. /\ number' \in Seq(Nat)
         /\ Len(number') = Len(number)
         /\ number'[id] = Forked(block).env
         /\ \A i \in 1 .. Len(forks) : i # id => number'[i] = number[i]
    BY <1>2, <1>3, <1>16, SequenceSet DEF TInv, FTypeOK
  <1>22. /\ journaled_state' \in State
         /\ forks'[id].state = IF IsActive(id) THEN journaled_state' ELSE forks[id].state
    BY <1>5, <1>6, <1>10, <1>12, <1>13 DEF TInv, FTypeOK
  <1> QED
    BY <1>1, <1>3, <1>5, <1>8, <1>10, <1>12, <1>13, <1>14, <1>15, <1>17, <1>18, <1>19, <1>20,
       <1>21, <1>22

LEMMA RollTInv ==
    ASSUME TInv, NEW id \in LocalIds, NEW block \in Blocks, RollFork(id, block) PROVE TInv'
  <1>1. UNCHANGED <<mem_db, init_journaled_state, active, state_snapshots, writes, rounds,
                    base, shared>>
    BY DEF RollFork
  <1>2. /\ blurred' \in SUBSET Ids
        /\ env' \in Nat
        /\ sure' \in {"yes", "no", "forgot"}
    <2>1. Forked(block).env \in Nat /\ id \in Ids
      BY RollEffect, IndexIs
    <2>2. /\ blurred' = blurred \/ blurred' = blurred \cup {id}
          /\ env' = env \/ env' = Forked(block).env
          /\ sure' = StillSure
      BY DEF RollFork
    <2>3. /\ blurred \in SUBSET Ids
          /\ env \in Nat
          /\ sure \in {"yes", "no", "forgot"}
      BY DEF TInv, FTypeOK
    <2> QED
      BY <2>1, <2>2, <2>3 DEF StillSure
  <1>3. FTypeOK'
    BY <1>1, <1>2, RollEffect DEF TInv, FTypeOK
  <1>4. Len(forks) \in Nat /\ Len(multi) \in Nat
    BY DEF TInv, FTypeOK
  <1>5. /\ Len(forks') = Len(forks)
        /\ Len(multi') = Len(multi) + 1
        /\ Len(issued_local_fork_ids') = Len(forks)
        /\ Len(own') = Len(forks)
        /\ Len(number') = Len(forks)
        /\ Len(created_forks') = Len(multi) + 1
        /\ Len(forks) <= MaxForks
    BY RollEffect DEF TInv, Maps
  <1>6. ASSUME NEW i \in 1 .. Len(forks)
        PROVE  /\ issued_local_fork_ids'[i] \in 1 .. Len(multi')
               /\ created_forks'[issued_local_fork_ids'[i]] = i
    <2>1. CASE i = id
      <3>1. /\ issued_local_fork_ids'[i] = Len(multi) + 1
            /\ created_forks'[Len(multi) + 1] = id
        BY <2>1, RollEffect DEF TInv, Maps
      <3> QED
        BY <1>4, <1>5, <2>1, <3>1
    <2>2. CASE i # id
      <3>1. /\ issued_local_fork_ids[i] \in 1 .. Len(multi)
            /\ created_forks[issued_local_fork_ids[i]] = i
        BY DEF TInv, Maps
      <3>2. /\ issued_local_fork_ids'[i] = issued_local_fork_ids[i]
            /\ created_forks'[issued_local_fork_ids[i]] = created_forks[issued_local_fork_ids[i]]
        BY <2>2, <3>1, RollEffect, SMTT(30) DEF TInv, Maps
      <3> QED
        BY <1>4, <1>5, <3>1, <3>2
    <2> QED
      BY <2>1, <2>2
  <1>7. active' # None => active'.id \in 1 .. Len(forks') /\ active'.idx = active'.id
    BY <1>1, <1>5 DEF TInv, Maps
  <1>8. Maps'
    BY <1>5, <1>6, <1>7 DEF Maps
  <1> QED
    BY <1>3, <1>8 DEF TInv

\* A loaded slot is read again; the persistent one is left alone.
LEMMA ReloadedIs ==
    ASSUME NEW state \in State, NEW db \in State, NEW block \in Nat, db["ordinary"] # None
    PROVE  /\ Reloaded(state, db, block) \in State
           /\ Reloaded(state, db, block)["ordinary"]
                = IF state["ordinary"] = None THEN None ELSE db["ordinary"]
           /\ Reloaded(state, db, block)["persistent"] = state["persistent"]
  <1>1. PICK r \in State : r = Remote(block)
    BY RemoteIs
  <1>2. PICK v \in Value : v = Over(db, r)["ordinary"]
    BY OverIs, SlotsTwo DEF State
  <1>3. v = db["ordinary"]
    BY <1>2, OverIs, SlotsTwo
  <1>4. Reloaded(state, db, block)
          = IF state["ordinary"] = None THEN state ELSE [state EXCEPT !["ordinary"] = v]
    BY <1>1, <1>2 DEF Reloaded
  <1> QED
    BY <1>3, <1>4, SetIs, SlotsTwo

LEMMA TransactEffect ==
    ASSUME TInv, NEW id \in LocalIds, Transact(id)
    PROVE  /\ id \in 1 .. Len(forks)
           /\ Written(writes) \in Nat
           /\ Written(writes) # None
           /\ forks' \in Seq(ForkType)
           /\ Len(forks') = Len(forks)
           /\ \A i \in 1 .. Len(forks) : i # id => forks'[i] = forks[i]
           /\ forks'[id].db["ordinary"] = Written(writes)
           /\ forks'[id].db["persistent"] = forks[id].db["persistent"]
           /\ forks'[id].block = forks[id].block
           /\ forks'[id].state["ordinary"]
                = IF forks[id].state["ordinary"] = None THEN None ELSE Written(writes)
           /\ forks'[id].state["persistent"] = forks[id].state["persistent"]
           /\ forks'[id].state \in State
           /\ journaled_state' \in State
           /\ journaled_state'["ordinary"]
                = IF journaled_state["ordinary"] = None THEN None ELSE Written(writes)
           /\ journaled_state'["persistent"] = journaled_state["persistent"]
           /\ own' \in Seq(Nat)
           /\ Len(own') = Len(own)
           /\ own'[id] = Written(writes)
           /\ \A i \in 1 .. Len(forks) : i # id => own'[i] = own[i]
  <1>1. /\ Index(id) = id /\ id \in 1 .. Len(forks) /\ id \in Nat
        /\ forks[id] \in ForkType
    BY IndexIs
  <1>2. id \in 1 .. Len(own) /\ Len(own) = Len(forks)
    BY <1>1 DEF TInv, Maps
  <1>3. PICK v \in Nat : v = Written(writes)
    BY WrittenIs DEF TInv
  <1>4. v # None /\ v \in Value
    BY <1>3, WrittenIs DEF TInv, Value
  <1>5. forks[id].db \in State /\ forks[id].state \in State /\ forks[id].block \in Nat
    BY <1>1, ForksAre
  <1>6. PICK d \in State : d = [forks[id].db EXCEPT !["ordinary"] = v]
    BY <1>4, <1>5, SetIs, SlotsTwo
  <1>7. d["ordinary"] = v /\ d["persistent"] = forks[id].db["persistent"] /\ d["ordinary"] # None
    BY <1>4, <1>5, <1>6, SetIs, SlotsTwo
  <1>0. PICK s0 \in State, b \in Nat : s0 = forks[id].state /\ b = forks[id].block
    BY <1>5
  <1>8. PICK st \in State : st = Reloaded(s0, d, b)
    BY <1>7, ReloadedIs
  <1>9. /\ st["ordinary"] = IF s0["ordinary"] = None THEN None ELSE v
        /\ st["persistent"] = s0["persistent"]
    <2>1. /\ Reloaded(s0, d, b)["ordinary"] = IF s0["ordinary"] = None THEN None ELSE d["ordinary"]
          /\ Reloaded(s0, d, b)["persistent"] = s0["persistent"]
      BY <1>7, ReloadedIs
    <2> QED
      BY <1>7, <1>8, <2>1
  <1>10. PICK f \in ForkType : f = Fork(d, forks[id].block, st)
    BY <1>5, ForkIs
  <1>11. f.db = d /\ f.block = forks[id].block /\ f.state = st
    BY <1>5, <1>10, ForkIs
  <1>12. /\ forks' = [forks EXCEPT ![id] = f]
         /\ journaled_state' = Reloaded(journaled_state, d, b)
         /\ own' = [own EXCEPT ![id] = v]
    BY <1>1, <1>3, <1>0, <1>6, <1>8, <1>10 DEF Transact, Applied
  <1>13. /\ journaled_state' \in State
         /\ journaled_state'["ordinary"] = IF journaled_state["ordinary"] = None THEN None ELSE v
         /\ journaled_state'["persistent"] = journaled_state["persistent"]
    <2>1. PICK j \in State : j = journaled_state
      BY DEF TInv, FTypeOK
    <2>2. /\ Reloaded(j, d, b) \in State
          /\ Reloaded(j, d, b)["ordinary"] = IF j["ordinary"] = None THEN None ELSE d["ordinary"]
          /\ Reloaded(j, d, b)["persistent"] = j["persistent"]
      BY <1>7, ReloadedIs
    <2> QED
      BY <1>7, <1>12, <2>1, <2>2
  <1>14. /\ forks' \in Seq(ForkType)
         /\ Len(forks') = Len(forks)
         /\ forks'[id] = f
         /\ \A i \in 1 .. Len(forks) : i # id => forks'[i] = forks[i]
    BY <1>1, <1>12, SequenceSet DEF TInv, FTypeOK
  <1>15. /\ own' \in Seq(Nat)
         /\ Len(own') = Len(own)
         /\ own'[id] = v
         /\ \A i \in 1 .. Len(forks) : i # id => own'[i] = own[i]
    BY <1>2, <1>12, SequenceSet DEF TInv, FTypeOK
  <1> QED
    BY <1>0, <1>1, <1>3, <1>4, <1>7, <1>9, <1>11, <1>13, <1>14, <1>15

LEMMA TransactTInv == ASSUME TInv, NEW id \in LocalIds, Transact(id) PROVE TInv'
  <1>1. UNCHANGED <<mem_db, init_journaled_state, active, maps, multi, state_snapshots,
                    env, rounds, number, shared, sure>>
    BY DEF Transact
  <1>2. /\ blurred' \in SUBSET Ids
        /\ base' \in Value
        /\ writes' \in Nat
    <2>1. active # None => active.id \in Ids
      BY ActiveIs, IndexIs
    <2>2. blurred' \in SUBSET Ids
      <3>1. blurred \in SUBSET Ids
        BY DEF TInv, FTypeOK
      <3>2. blurred' = IF active = None THEN Ids
                       ELSE IF IsActive(id) THEN blurred ELSE blurred \cup {active.id}
        BY DEF Transact, Ids
      <3> QED
        BY <2>1, <3>1, <3>2
    <2>3. base' \in Value
      BY DEF Transact, Value, TInv, FTypeOK
    <2>4. writes' \in Nat
      BY DEF Transact, TInv, FTypeOK
    <2> QED
      BY <2>2, <2>3, <2>4
  <1>3. FTypeOK'
    BY <1>1, <1>2, TransactEffect DEF TInv, FTypeOK, maps
  <1>4. Maps'
    BY <1>1, TransactEffect DEF TInv, Maps, maps
  <1> QED
    BY <1>3, <1>4 DEF TInv

\* What a fork's database and the remote chain hold.
Stored(db, block) == IF db["ordinary"] # None THEN db["ordinary"] ELSE block

LEMMA ReloadedStored ==
    ASSUME NEW state \in State, NEW db \in State, NEW block \in Nat
    PROVE  /\ Reloaded(state, db, block) \in State
           /\ Reloaded(state, db, block)["ordinary"]
                = IF state["ordinary"] = None THEN None ELSE Stored(db, block)
           /\ Reloaded(state, db, block)["persistent"] = state["persistent"]
           /\ Over(db, Remote(block))["ordinary"] = Stored(db, block)
           /\ Stored(db, block) \in Nat
  <1>1. PICK r \in State : r = Remote(block) /\ r["ordinary"] = block
    BY RemoteIs
  <1>2. PICK v \in Value : v = Over(db, r)["ordinary"]
    BY OverIs, SlotsTwo DEF State
  <1>3. v = Stored(db, block)
    BY <1>1, <1>2, OverIs, SlotsTwo DEF Stored
  <1>4. Reloaded(state, db, block)
          = IF state["ordinary"] = None THEN state ELSE [state EXCEPT !["ordinary"] = v]
    BY <1>1, <1>2 DEF Reloaded
  <1>5. Stored(db, block) \in Nat
    BY SlotsTwo DEF Stored, State, Value
  <1> QED
    BY <1>1, <1>2, <1>3, <1>4, <1>5, SetIs, SlotsTwo

\* The database stays, what was loaded is read again.
LEMMA OtherEffect ==
    ASSUME TInv, NEW id \in LocalIds, TransactOther(id)
    PROVE  /\ id \in 1 .. Len(forks)
           /\ forks' \in Seq(ForkType)
           /\ Len(forks') = Len(forks)
           /\ \A i \in 1 .. Len(forks) : i # id => forks'[i] = forks[i]
           /\ forks'[id].db = forks[id].db
           /\ forks'[id].block = forks[id].block
           /\ forks'[id].state["ordinary"]
                = IF forks[id].state["ordinary"] = None THEN None
                  ELSE Stored(forks[id].db, forks[id].block)
           /\ forks'[id].state["persistent"] = forks[id].state["persistent"]
           /\ forks'[id].state \in State
           /\ journaled_state' \in State
           /\ journaled_state'["ordinary"]
                = IF journaled_state["ordinary"] = None THEN None
                  ELSE Stored(forks[id].db, forks[id].block)
           /\ journaled_state'["persistent"] = journaled_state["persistent"]
  <1>1. /\ Index(id) = id /\ id \in 1 .. Len(forks)
        /\ forks[id].db \in State /\ forks[id].state \in State /\ forks[id].block \in Nat
    BY IndexIs, ForksAre
  <1>2. PICK d \in State, s \in State, b \in Nat :
          d = forks[id].db /\ s = forks[id].state /\ b = forks[id].block
    BY <1>1
  <1>3. PICK j \in State : j = journaled_state
    BY DEF TInv, FTypeOK
  <1>4. PICK st \in State, js \in State : st = Reloaded(s, d, b) /\ js = Reloaded(j, d, b)
    BY ReloadedStored
  <1>5. /\ st["ordinary"] = IF s["ordinary"] = None THEN None ELSE Stored(d, b)
        /\ st["persistent"] = s["persistent"]
    BY <1>4, ReloadedStored
  <1>6. /\ js["ordinary"] = IF j["ordinary"] = None THEN None ELSE Stored(d, b)
        /\ js["persistent"] = j["persistent"]
    BY <1>4, ReloadedStored
  <1>7. PICK f \in ForkType : f = Fork(d, b, st) /\ f.db = d /\ f.block = b /\ f.state = st
    BY ForkIs
  <1>8. forks' = [forks EXCEPT ![id] = f] /\ journaled_state' = js
    BY <1>1, <1>2, <1>3, <1>4, <1>7 DEF TransactOther, Applied
  <1>9. /\ forks' \in Seq(ForkType)
        /\ Len(forks') = Len(forks)
        /\ forks'[id] = f
        /\ \A i \in 1 .. Len(forks) : i # id => forks'[i] = forks[i]
    BY <1>1, <1>8, SequenceSet DEF TInv, FTypeOK
  <1> QED
    BY <1>1, <1>2, <1>3, <1>5, <1>6, <1>7, <1>8, <1>9

LEMMA OtherTInv == ASSUME TInv, NEW id \in LocalIds, TransactOther(id) PROVE TInv'
  <1>1. UNCHANGED <<mem_db, init_journaled_state, active, maps, multi, state_snapshots,
                    env, writes, rounds, own, number, shared, sure>>
    BY DEF TransactOther
  <1>2. blurred' \in SUBSET Ids /\ base' \in Value
    <2>1. active # None => active.id \in Ids
      BY ActiveIs, IndexIs
    <2>2. id \in Ids
      BY IndexIs
    <2>3. blurred \in SUBSET Ids
      BY DEF TInv, FTypeOK
    <2>4. blurred' = IF active = None THEN Ids
                     ELSE blurred \cup (IF IsActive(id) THEN {} ELSE {active.id})
                                  \cup (IF Uncommitted(id) THEN {id} ELSE {})
      BY DEF TransactOther, Ids
    <2>5. base' \in Value
      BY DEF TransactOther, Value, TInv, FTypeOK
    <2> QED
      BY <2>1, <2>2, <2>3, <2>4, <2>5
  <1>3. FTypeOK'
    BY <1>1, <1>2, OtherEffect DEF TInv, FTypeOK, maps
  <1>4. Maps'
    BY <1>1, OtherEffect DEF TInv, Maps, maps
  <1> QED
    BY <1>3, <1>4 DEF TInv

LEMMA PromiseIs ==
    ASSUME TInv
    PROVE  /\ Promise \in PromiseType
           /\ Promise.own = own
           /\ Promise.number = number
           /\ Promise.base = base
           /\ Promise.blurred = blurred
           /\ Promise.shared = shared
           /\ Promise.sure = sure
  BY DEF Promise, PromiseType, TInv, FTypeOK

LEMMA SnapshotEffect ==
    ASSUME TInv, SnapshotState
    PROVE  \E s \in SnapshotType :
              /\ state_snapshots' = Append(state_snapshots, s)
              /\ s.active = active
              /\ active # None => s.fork_id = issued_local_fork_ids[active.id]
              /\ s.fork = ActiveFork
              /\ s.state = journaled_state
              /\ s.env = env
              /\ s.promise = Promise
  <1>1. PICK v \in Value :
          v = IF active = None THEN None ELSE issued_local_fork_ids[active.id]
    <2>1. active # None => issued_local_fork_ids[active.id] \in Nat
      BY ActiveIs, IndexIs DEF TInv, FTypeOK
    <2> QED
      BY <2>1 DEF Value
  <1>2. PICK f \in ForkType : f = ActiveFork
    BY ActiveIs
  <1>3. PICK p \in PromiseType : p = Promise
    BY PromiseIs
  <1>4. /\ active \in ActiveType /\ journaled_state \in State /\ env \in Nat
    BY DEF TInv, FTypeOK
  <1>5. PICK s : s = [there |-> TRUE, active |-> active, fork_id |-> v, fork |-> f,
                      state |-> journaled_state, env |-> env, promise |-> p]
    OBVIOUS
  <1>6. s \in SnapshotType
    BY <1>4, <1>5 DEF SnapshotType
  <1>7. state_snapshots' = Append(state_snapshots, s)
    BY <1>1, <1>2, <1>3, <1>5 DEF SnapshotState
  <1>8. /\ s.active = active /\ s.fork_id = v /\ s.fork = f /\ s.state = journaled_state
        /\ s.env = env /\ s.promise = p
    BY <1>5
  <1> QED
    BY <1>1, <1>2, <1>3, <1>6, <1>7, <1>8

LEMMA SnapshotTInv == ASSUME TInv, SnapshotState PROVE TInv'
  <1>1. UNCHANGED <<mem_db, init_journaled_state, active, maps, forks, multi,
                    journaled_state, env, writes, rounds, ghost>>
    BY DEF SnapshotState
  <1>2. state_snapshots' \in Seq(SnapshotType)
    <2>1. PICK s \in SnapshotType : state_snapshots' = Append(state_snapshots, s)
      BY SnapshotEffect
    <2> QED
      BY <2>1, SequenceAppend DEF TInv, FTypeOK
  <1>3. FTypeOK'
    BY <1>1, <1>2 DEF TInv, FTypeOK, maps, ghost
  <1>4. Maps'
    BY <1>1 DEF TInv, Maps, maps, ghost
  <1> QED
    BY <1>3, <1>4 DEF TInv

\* The fields of a snapshot.
LEMMA SnapshotIs ==
    ASSUME TInv, NEW n \in 1 .. Len(state_snapshots)
    PROVE  LET s == state_snapshots[n]
           IN  /\ s \in SnapshotType
               /\ s.there \in BOOLEAN
               /\ s.active \in ActiveType
               /\ s.fork_id \in Value
               /\ s.fork \in ForkType
               /\ s.fork.db \in State
               /\ s.fork.state \in State
               /\ s.fork.block \in Nat
               /\ s.state \in State
               /\ s.env \in Nat
               /\ s.promise \in PromiseType
               /\ s.promise.own \in Seq(Nat)
               /\ s.promise.number \in Seq(Nat)
               /\ s.promise.base \in Value
               /\ s.promise.blurred \in SUBSET Ids
               /\ s.promise.shared \in Nat
               /\ s.promise.sure \in {"yes", "no", "forgot"}
  <1>1. PICK s \in SnapshotType : s = state_snapshots[n]
    BY DEF TInv, FTypeOK
  <1>2. /\ s.there \in BOOLEAN /\ s.active \in ActiveType /\ s.fork_id \in Value
        /\ s.fork \in ForkType /\ s.state \in State /\ s.env \in Nat
        /\ s.promise \in PromiseType
    BY DEF SnapshotType
  <1>3. s.fork.db \in State /\ s.fork.state \in State /\ s.fork.block \in Nat
    BY <1>2 DEF ForkType
  <1>4. /\ s.promise.own \in Seq(Nat) /\ s.promise.number \in Seq(Nat)
        /\ s.promise.base \in Value /\ s.promise.blurred \in SUBSET Ids
        /\ s.promise.shared \in Nat /\ s.promise.sure \in {"yes", "no", "forgot"}
    BY <1>2 DEF PromiseType
  <1> QED
    BY <1>1, <1>2, <1>3, <1>4

\* Two snapshots that differ in no more than being there.
Alike(s, t) ==
    /\ s.active = t.active
    /\ s.fork_id = t.fork_id
    /\ s.fork = t.fork
    /\ s.state = t.state
    /\ s.env = t.env
    /\ s.promise = t.promise

LEMMA MarkedIs ==
    ASSUME TInv, NEW n \in 1 .. Len(state_snapshots), NEW there \in BOOLEAN
    PROVE  /\ Marked(n, there) \in Seq(SnapshotType)
           /\ Len(Marked(n, there)) = Len(state_snapshots)
           /\ \A k \in 1 .. Len(state_snapshots) :
                Alike(Marked(n, there)[k], state_snapshots[k])
  <1>1. PICK s \in SnapshotType : s = state_snapshots[n]
    BY DEF TInv, FTypeOK
  <1>2. PICK t : t = [s EXCEPT !.there = there]
    OBVIOUS
  <1>3. t \in SnapshotType /\ Alike(t, s)
    BY <1>2 DEF SnapshotType, Alike
  <1>4. Marked(n, there) = [state_snapshots EXCEPT ![n] = t]
    BY <1>1, <1>2 DEF Marked
  <1>5. \A k \in 1 .. Len(state_snapshots) : Alike(state_snapshots[k], state_snapshots[k])
    BY DEF Alike
  <1>6. /\ [state_snapshots EXCEPT ![n] = t] \in Seq(SnapshotType)
        /\ Len([state_snapshots EXCEPT ![n] = t]) = Len(state_snapshots)
        /\ [state_snapshots EXCEPT ![n] = t][n] = t
        /\ \A k \in 1 .. Len(state_snapshots) : k # n =>
             [state_snapshots EXCEPT ![n] = t][k] = state_snapshots[k]
    BY <1>3, SequenceSet DEF TInv, FTypeOK
  <1> QED
    BY <1>1, <1>3, <1>4, <1>5, <1>6

LEMMA DeleteTInv ==
    ASSUME TInv, NEW n \in 1 .. Len(state_snapshots), DeleteStateSnapshot(n) PROVE TInv'
  <1>1. /\ UNCHANGED <<mem_db, init_journaled_state, active, maps, forks, multi,
                       journaled_state, env, writes, rounds, ghost>>
        /\ state_snapshots' = Marked(n, FALSE)
    BY DEF DeleteStateSnapshot
  <1>2. state_snapshots' \in Seq(SnapshotType)
    BY <1>1, MarkedIs
  <1>3. FTypeOK'
    BY <1>1, <1>2 DEF TInv, FTypeOK, maps, ghost
  <1>4. Maps'
    BY <1>1 DEF TInv, Maps, maps, ghost
  <1> QED
    BY <1>3, <1>4 DEF TInv

\* What reverting to a snapshot of a fork changes: that fork, and which is active.
LEMMA RevertForkEffect ==
    ASSUME TInv, SnapshotsInv, NEW n \in 1 .. Len(state_snapshots),
           state_snapshots[n].active # None, RevertFork(state_snapshots[n]),
           NEW id, id = state_snapshots[n].active.id
    PROVE  /\ ForkSnapshot(state_snapshots[n])
           /\ active # None
           /\ id \in 1 .. Len(forks)
           /\ id \in Ids
           /\ active' = state_snapshots[n].active
           /\ active' # None
           /\ active'.id = id
           /\ active'.idx = id
           /\ forks' \in Seq(ForkType)
           /\ Len(forks') = Len(forks)
           /\ forks'[id] = state_snapshots[n].fork
           /\ \A i \in 1 .. Len(forks) : i # id => forks'[i] = forks[i]
           /\ issued_local_fork_ids' \in Seq(Nat)
           /\ Len(issued_local_fork_ids') = Len(issued_local_fork_ids)
           /\ issued_local_fork_ids'[id] = state_snapshots[n].fork_id
           /\ \A i \in 1 .. Len(forks) : i # id =>
                issued_local_fork_ids'[i] = issued_local_fork_ids[i]
           /\ created_forks' = created_forks
           /\ own' \in Seq(Nat)
           /\ Len(own') = Len(own)
           /\ own'[id] = state_snapshots[n].promise.own[id]
           /\ \A i \in 1 .. Len(forks) : i # id => own'[i] = own[i]
           /\ number' \in Seq(Nat)
           /\ Len(number') = Len(number)
           /\ number'[id] = state_snapshots[n].promise.number[id]
           /\ \A i \in 1 .. Len(forks) : i # id => number'[i] = number[i]
           /\ blurred' \in SUBSET Ids
           /\ \A i : i \in blurred' <=>
                \/ i # id /\ i \in blurred
                \/ i = id /\ i \in state_snapshots[n].promise.blurred
                \/ active.id # id /\ i = active.id
  <1>1. PICK s \in SnapshotType : s = state_snapshots[n]
    BY SnapshotIs
  <1>2. ForkSnapshot(s)
    BY <1>1 DEF SnapshotsInv
  <1>3. /\ active # None /\ id \in 1 .. Len(forks) /\ s.active.idx = id /\ s.active.id = id
        /\ s.fork_id \in 1 .. Len(multi) /\ created_forks[s.fork_id] = id
        /\ id \in 1 .. Len(s.promise.own) /\ id \in 1 .. Len(s.promise.number)
    BY <1>1, <1>2 DEF ForkSnapshot
  <1>4. id \in Ids
    BY <1>3, IndexIs DEF LocalIds, TInv, Maps, FTypeOK
  <1>5. /\ id \in 1 .. Len(issued_local_fork_ids) /\ id \in 1 .. Len(own)
        /\ id \in 1 .. Len(number) /\ s.fork_id \in 1 .. Len(created_forks)
        /\ Len(issued_local_fork_ids) = Len(forks) /\ Len(own) = Len(forks)
        /\ Len(number) = Len(forks)
    BY <1>3 DEF TInv, Maps
  <1>6. /\ s.fork \in ForkType /\ s.fork_id \in Nat
        /\ s.promise.own[id] \in Nat /\ s.promise.number[id] \in Nat
        /\ s.promise.blurred \in SUBSET Ids
    <2>1. /\ s.fork \in ForkType /\ s.promise.own \in Seq(Nat) /\ s.promise.number \in Seq(Nat)
          /\ s.promise.blurred \in SUBSET Ids
      BY <1>1, SnapshotIs
    <2>2. s.fork_id \in Nat
      BY <1>3 DEF TInv, FTypeOK
    <2>3. PICK o \in Seq(Nat), m \in Seq(Nat) : o = s.promise.own /\ m = s.promise.number
      BY <2>1
    <2>4. id \in 1 .. Len(o) /\ id \in 1 .. Len(m)
      BY <1>3, <2>3
    <2>5. o[id] \in Nat /\ m[id] \in Nat
      BY <2>4, SequenceElement, Zenon
    <2> QED
      BY <2>1, <2>2, <2>3, <2>5
  <1>7. /\ forks' = [forks EXCEPT ![id] = s.fork]
        /\ issued_local_fork_ids' = [issued_local_fork_ids EXCEPT ![id] = s.fork_id]
        /\ created_forks' = [created_forks EXCEPT ![s.fork_id] = id]
        /\ active' = s.active
        /\ own' = [own EXCEPT ![id] = s.promise.own[id]]
        /\ number' = [number EXCEPT ![id] = s.promise.number[id]]
        /\ blurred' = (blurred \ {id}) \cup (s.promise.blurred \cap {id})
                      \cup (IF IsActive(id) THEN {} ELSE {active.id})
    BY <1>1, <1>3 DEF RevertFork
  <1>8. /\ forks' \in Seq(ForkType)
        /\ Len(forks') = Len(forks)
        /\ forks'[id] = s.fork
        /\ \A i \in 1 .. Len(forks) : i # id => forks'[i] = forks[i]
    BY <1>3, <1>6, <1>7, SequenceSet DEF TInv, FTypeOK
  <1>9. /\ issued_local_fork_ids' \in Seq(Nat)
        /\ Len(issued_local_fork_ids') = Len(issued_local_fork_ids)
        /\ issued_local_fork_ids'[id] = s.fork_id
        /\ \A i \in 1 .. Len(forks) : i # id =>
             issued_local_fork_ids'[i] = issued_local_fork_ids[i]
    BY <1>5, <1>6, <1>7, SequenceSet DEF TInv, FTypeOK
  <1>10. created_forks' = created_forks
    BY <1>3, <1>5, <1>7 DEF TInv, FTypeOK
  <1>11. /\ own' \in Seq(Nat)
         /\ Len(own') = Len(own)
         /\ own'[id] = s.promise.own[id]
         /\ \A i \in 1 .. Len(forks) : i # id => own'[i] = own[i]
    BY <1>5, <1>6, <1>7, SequenceSet DEF TInv, FTypeOK
  <1>12. /\ number' \in Seq(Nat)
         /\ Len(number') = Len(number)
         /\ number'[id] = s.promise.number[id]
         /\ \A i \in 1 .. Len(forks) : i # id => number'[i] = number[i]
    BY <1>5, <1>6, <1>7, SequenceSet DEF TInv, FTypeOK
  <1>13. \A i : i \in blurred' <=>
            \/ i # id /\ i \in blurred
            \/ i = id /\ i \in s.promise.blurred
            \/ active.id # id /\ i = active.id
    BY <1>3, <1>7 DEF IsActive
  <1>14. blurred' \in SUBSET Ids
    <2>1. active.id \in Ids
      BY <1>3, ActiveIs, IndexIs
    <2>2. blurred \in SUBSET Ids
      BY DEF TInv, FTypeOK
    <2> QED
      BY <1>4, <1>13, <2>1, <2>2
  <1> QED
    BY <1>1, <1>2, <1>3, <1>4, <1>7, <1>8, <1>9, <1>10, <1>11, <1>12, <1>13, <1>14

LEMMA RevertTInv ==
    ASSUME TInv, SnapshotsInv, NEW n \in 1 .. Len(state_snapshots), NEW keep \in BOOLEAN,
           RevertState(n, keep)
    PROVE  TInv'
  <1>1. /\ journaled_state' = state_snapshots[n].state
        /\ env' = state_snapshots[n].env
        /\ state_snapshots' = Marked(n, keep)
        /\ UNCHANGED <<init_journaled_state, multi, writes, rounds>>
    BY DEF RevertState
  <1>2. /\ state_snapshots' \in Seq(SnapshotType)
        /\ journaled_state' \in State
        /\ env' \in Nat
    BY <1>1, MarkedIs, SnapshotIs
  <1>3. CASE state_snapshots[n].active = None
    <2>1. RevertMemory(state_snapshots[n])
      BY <1>3 DEF RevertState
    <2>2. UNCHANGED <<active, maps, forks, own, number>>
      BY <2>1 DEF RevertMemory
    <2>3. mem_db' \in State
      BY <2>1, SnapshotIs DEF RevertMemory
    <2>4. /\ base' \in Value
          /\ shared' \in Nat
          /\ sure' \in {"yes", "no", "forgot"}
      BY <2>1, SnapshotIs DEF RevertMemory, TInv, FTypeOK
    <2>5. blurred' \in SUBSET Ids
      <3>1. active # None => active.id \in Ids
        BY ActiveIs, IndexIs
      <3>2. blurred \in SUBSET Ids
        BY DEF TInv, FTypeOK
      <3> QED
        BY <2>1, <3>1, <3>2, SnapshotIs DEF RevertMemory
    <2>6. FTypeOK'
      BY <1>1, <1>2, <2>2, <2>3, <2>4, <2>5 DEF TInv, FTypeOK, maps
    <2>7. Maps'
      BY <1>1, <2>2 DEF TInv, Maps, maps
    <2> QED
      BY <2>6, <2>7 DEF TInv
  <1>4. CASE state_snapshots[n].active # None
    <2>1. RevertFork(state_snapshots[n])
      BY <1>4 DEF RevertState
    <2>2. PICK id : id = state_snapshots[n].active.id
      OBVIOUS
    <2>3. UNCHANGED <<mem_db, base>>
      BY <2>1 DEF RevertFork
    <2>4. shared' \in Nat /\ sure' \in {"yes", "no", "forgot"}
      BY <2>1, SnapshotIs DEF RevertFork
    <2>5. active' \in ActiveType
      BY <1>4, <2>1, <2>2, RevertForkEffect, SnapshotIs
    <2>6. created_forks' \in Seq(Nat)
      BY <1>4, <2>1, <2>2, RevertForkEffect DEF TInv, FTypeOK
    <2>7. /\ forks' \in Seq(ForkType) /\ issued_local_fork_ids' \in Seq(Nat)
          /\ own' \in Seq(Nat) /\ number' \in Seq(Nat) /\ blurred' \in SUBSET Ids
      BY <1>4, <2>1, <2>2, RevertForkEffect
    <2>8. FTypeOK'
      BY <1>1, <1>2, <2>3, <2>4, <2>5, <2>6, <2>7 DEF TInv, FTypeOK
    <2>9. /\ Len(forks') = Len(forks)
          /\ Len(issued_local_fork_ids') = Len(forks)
          /\ Len(own') = Len(forks)
          /\ Len(number') = Len(forks)
          /\ Len(created_forks') = Len(multi')
          /\ Len(forks) <= MaxForks
      BY <1>1, <1>4, <2>1, <2>2, RevertForkEffect DEF TInv, Maps
    <2>10. ASSUME NEW i \in 1 .. Len(forks)
           PROVE  /\ issued_local_fork_ids'[i] \in 1 .. Len(multi)
                  /\ created_forks'[issued_local_fork_ids'[i]] = i
      <3>1. CASE i = id
        <4>1. ForkSnapshot(state_snapshots[n])
          BY <1>4, <2>1, <2>2, RevertForkEffect
        <4>2. /\ state_snapshots[n].fork_id \in 1 .. Len(multi)
              /\ created_forks[state_snapshots[n].fork_id] = id
          BY <2>2, <4>1 DEF ForkSnapshot
        <4>3. /\ issued_local_fork_ids'[i] = state_snapshots[n].fork_id
              /\ created_forks' = created_forks
          BY <1>4, <2>1, <2>2, <3>1, RevertForkEffect
        <4> QED
          BY <3>1, <4>2, <4>3
      <3>2. CASE i # id
        <4>1. /\ issued_local_fork_ids'[i] = issued_local_fork_ids[i]
              /\ created_forks' = created_forks
          BY <1>4, <2>1, <2>2, <3>2, RevertForkEffect
        <4> QED
          BY <4>1 DEF TInv, Maps
      <3> QED
        BY <3>1, <3>2
    <2>11. active' # None => active'.id \in 1 .. Len(forks) /\ active'.idx = active'.id
      BY <1>4, <2>1, <2>2, RevertForkEffect
    <2>12. Maps'
      BY <1>1, <2>9, <2>10, <2>11 DEF Maps
    <2> QED
      BY <2>8, <2>12 DEF TInv
  <1> QED
    BY <1>3, <1>4

-----------------------------------------------------------------------------
(* Snapshots                                                               *)

\* What is said of the snapshots stays true when none of them changes, forks are
\* only added, and what forks start with does not change once one is selected.
LEMMA SnapshotsStay ==
    ASSUME TInv, SnapshotsInv,
           Len(state_snapshots') = Len(state_snapshots),
           \A k \in 1 .. Len(state_snapshots) : Alike(state_snapshots'[k], state_snapshots[k]),
           active # None => /\ active' # None
                            /\ init_journaled_state' = init_journaled_state
                            /\ base' = base,
           Len(forks') \in Nat, Len(forks) <= Len(forks'),
           Len(multi') \in Nat, Len(multi) <= Len(multi'),
           \A j \in 1 .. Len(multi) : created_forks'[j] = created_forks[j]
    PROVE  SnapshotsInv'
  <1>1. SUFFICES ASSUME NEW n \in 1 .. Len(state_snapshots)
                 PROVE  IF state_snapshots'[n].active = None THEN MemorySnapshot(state_snapshots'[n])
                        ELSE ForkSnapshot(state_snapshots[n])'
    BY DEF SnapshotsInv
  <1>2. PICK s, t : s = state_snapshots[n] /\ t = state_snapshots'[n]
    OBVIOUS
  <1>3. /\ t.active = s.active /\ t.fork_id = s.fork_id /\ t.fork = s.fork /\ t.state = s.state
        /\ t.env = s.env /\ t.promise = s.promise
    BY <1>2 DEF Alike
  <1>4. CASE s.active = None
    <2>1. MemorySnapshot(s)
      BY <1>2, <1>4 DEF SnapshotsInv
    <2>2. MemorySnapshot(t)
      BY <1>3, <2>1 DEF MemorySnapshot
    <2> QED
      BY <1>2, <1>3, <1>4, <2>2
  <1>5. CASE s.active # None
    <2>1. ForkSnapshot(s)
      BY <1>2, <1>5 DEF SnapshotsInv
    <2>2. Len(forks) \in Nat /\ Len(multi) \in Nat
      BY DEF TInv, FTypeOK
    <2>3. PICK id : id = s.active.id
      OBVIOUS
    <2>4. /\ active # None
          /\ id \in 1 .. Len(forks)
          /\ s.active.idx = id
          /\ s.fork_id \in 1 .. Len(multi)
          /\ created_forks[s.fork_id] = id
          /\ id \in 1 .. Len(s.promise.own)
          /\ id \in 1 .. Len(s.promise.number)
          /\ StartsWith(init_journaled_state, base, s.promise.blurred)
          /\ id \notin s.promise.blurred =>
                /\ s.promise.own[id] = Ordinary(s.state, s.fork)
                /\ s.promise.number[id] = s.env
          /\ s.promise.sure = "yes" => Persistent(s.state, s.fork) = s.promise.shared
      BY <2>1, <2>3 DEF ForkSnapshot
    <2>5. id \in 1 .. Len(forks') /\ s.fork_id \in 1 .. Len(multi')
      BY <2>2, <2>4
    <2>6. created_forks'[s.fork_id] = id /\ active' # None
      BY <2>4
    <2>7. StartsWith(init_journaled_state', base', s.promise.blurred)
      BY <2>4
    <2>8. ForkSnapshot(state_snapshots[n])' <=>
          /\ active' # None
          /\ t.active.id \in 1 .. Len(forks')
          /\ t.active.idx = t.active.id
          /\ t.fork_id \in 1 .. Len(multi')
          /\ created_forks'[t.fork_id] = t.active.id
          /\ t.active.id \in 1 .. Len(t.promise.own)
          /\ t.active.id \in 1 .. Len(t.promise.number)
          /\ StartsWith(init_journaled_state', base', t.promise.blurred)
          /\ t.active.id \notin t.promise.blurred =>
                /\ t.promise.own[t.active.id] = Ordinary(t.state, t.fork)
                /\ t.promise.number[t.active.id] = t.env
          /\ t.promise.sure = "yes" => Persistent(t.state, t.fork) = t.promise.shared
      BY <1>2 DEF ForkSnapshot
    <2>9. ForkSnapshot(state_snapshots[n])'
      BY <1>3, <2>3, <2>4, <2>5, <2>6, <2>7, <2>8
    <2> QED
      BY <1>2, <1>3, <1>5, <2>9
  <1> QED
    BY <1>4, <1>5

\* Used where an action leaves the snapshots alone.
LEMMA SnapshotsSame ==
    ASSUME TInv, SnapshotsInv, UNCHANGED state_snapshots,
           active # None => /\ active' # None
                            /\ init_journaled_state' = init_journaled_state
                            /\ base' = base,
           Len(forks') \in Nat, Len(forks) <= Len(forks'),
           Len(multi') \in Nat, Len(multi) <= Len(multi'),
           \A j \in 1 .. Len(multi) : created_forks'[j] = created_forks[j]
    PROVE  SnapshotsInv'
  <1>1. /\ Len(state_snapshots') = Len(state_snapshots)
        /\ \A k \in 1 .. Len(state_snapshots) : Alike(state_snapshots'[k], state_snapshots[k])
    BY DEF Alike
  <1> QED
    BY <1>1, SnapshotsStay

\* Before a fork is selected there is no snapshot of a fork.
LEMMA NoForkSnapshot ==
    ASSUME SnapshotsInv, active = None, NEW n \in 1 .. Len(state_snapshots)
    PROVE  state_snapshots[n].active = None /\ MemorySnapshot(state_snapshots[n])
  BY DEF SnapshotsInv, ForkSnapshot

\* Used where an action leaves forks and maps alone.
LEMMA SnapshotsSameForks ==
    ASSUME TInv, SnapshotsInv, UNCHANGED <<state_snapshots, active, maps, multi>>,
           Len(forks') = Len(forks),
           active # None => UNCHANGED <<init_journaled_state, base>>
    PROVE  SnapshotsInv'
  <1>1. /\ Len(forks) \in Nat /\ Len(multi) \in Nat
    BY DEF TInv, FTypeOK
  <1> QED
    BY <1>1, SnapshotsSame DEF maps

-----------------------------------------------------------------------------
(* The actions                                                             *)

\* As long as the persistent slot is remembered it is read.
LEMMA RememberedReads ==
    ASSUME TInv, Remembered PROVE Persistent(journaled_state, ActiveFork) = shared
  <1>1. ActiveFork.db["persistent"] = None
    <2>1. CASE active = None
      BY <2>1, ActiveIs DEF Remembered
    <2>2. CASE active # None
      BY <2>2, ActiveIs DEF Remembered
    <2> QED
      BY <2>1, <2>2
  <1> QED
    BY <1>1 DEF Remembered, Persistent

LEMMA SharedReads ==
    ASSUME TInv, SharedInv, sure # "no"
    PROVE  Persistent(journaled_state, ActiveFork) = shared
  <1>1. sure \in {"yes", "no", "forgot"}
    BY DEF TInv, FTypeOK
  <1> QED
    BY <1>1, RememberedReads DEF SharedInv

LEMMA StoreFInv == ASSUME FInv, NEW slot \in Slots, Store(slot) PROVE FInv'
  <1>0. TInv /\ TInv'
    BY StoreTInv DEF FInv
  <1>1. PICK v \in Nat : v = Written(writes) /\ v # None
    BY <1>0, WrittenIs DEF TInv
  <1>2. /\ shared' = IF slot = "persistent" THEN v ELSE shared
        /\ base' = IF slot = "ordinary" /\ active = None THEN v ELSE base
        /\ own' = IF slot = "ordinary" /\ active # None
                  THEN [own EXCEPT ![active.id] = v] ELSE own
        /\ UNCHANGED <<mem_db, init_journaled_state, active, maps, forks, multi,
                       state_snapshots, env, rounds, number, blurred, sure>>
    BY <1>1 DEF Store
  <1>3. /\ slot = "ordinary" \/ slot = "persistent"
        /\ slot = "ordinary" => /\ journaled_state'["ordinary"] = v
                                /\ journaled_state'["persistent"] = journaled_state["persistent"]
        /\ slot = "persistent" => /\ journaled_state'["persistent"] = v
                                  /\ journaled_state'["ordinary"] = journaled_state["ordinary"]
    <2>1. journaled_state' = [journaled_state EXCEPT ![slot] = v]
      BY <1>1 DEF Store
    <2>2. journaled_state \in State /\ v \in Value
      BY <1>0 DEF TInv, FTypeOK, Value
    <2> QED
      BY <2>1, <2>2, SetIs, SlotsTwo DEF Slots
  <1>4. NotSelected'
    BY <1>2 DEF FInv, NotSelected
  <1>5. Base'
    BY <1>1, <1>2, <1>3 DEF FInv, Base, StartsWith
  <1>6. OwnInv'
    <2>1. SUFFICES ASSUME NEW id \in 1 .. Len(forks), id \notin blurred
                   PROVE  own'[id] = Ordinary(IF active # None /\ active.id = id
                                              THEN journaled_state' ELSE forks[id].state, forks[id])
      BY <1>2 DEF OwnInv, IsActive
    <2>2. own[id] = Ordinary(IF active # None /\ active.id = id
                             THEN journaled_state ELSE forks[id].state, forks[id])
      BY <2>1 DEF FInv, OwnInv, IsActive
    <2>3. CASE slot = "ordinary" /\ active # None
      <3>1. own' = [own EXCEPT ![active.id] = v] /\ journaled_state'["ordinary"] = v
        BY <1>2, <1>3, <2>3
      <3>2. own \in Seq(Nat) /\ id \in 1 .. Len(own) /\ active.id \in 1 .. Len(own)
        BY <1>0, <2>3 DEF TInv, FTypeOK, Maps
      <3>3. own'[id] = IF id = active.id THEN v ELSE own[id]
        BY <3>1, <3>2, SequenceSet
      <3> QED
        BY <1>1, <2>2, <2>3, <3>1, <3>3 DEF Ordinary
    <2>4. CASE slot = "ordinary" /\ active = None
      BY <1>2, <2>2, <2>4
    <2>5. CASE slot = "persistent"
      BY <1>2, <1>3, <2>2, <2>5, SlotsTwo DEF Ordinary
    <2> QED
      BY <1>3, <2>3, <2>4, <2>5
  <1>7. NumberInv'
    BY <1>2 DEF FInv, NumberInv, BlockNumber, IsActive, maps
  <1>8. SharedInv'
    <2>1. ActiveFork' = ActiveFork
      BY <1>2 DEF ActiveFork
    <2>2. sure = "yes" => Remembered'
      <3>1. SUFFICES ASSUME sure = "yes" PROVE Remembered'
        OBVIOUS
      <3>2. Remembered
        BY <3>1 DEF FInv, SharedInv
      <3> QED
        BY <1>1, <1>2, <1>3, <3>2, SlotsTwo DEF Remembered
    <2>3. sure = "forgot" => Persistent(journaled_state', ActiveFork) = shared'
      BY <1>1, <1>2, <1>3, SlotsTwo DEF FInv, SharedInv, Persistent
    <2> QED
      BY <1>2, <2>1, <2>2, <2>3 DEF SharedInv
  <1>9. SnapshotsInv'
    BY <1>0, <1>2, SnapshotsSameForks DEF FInv
  <1> QED
    BY <1>0, <1>4, <1>5, <1>6, <1>7, <1>8, <1>9 DEF FInv

LEMMA LoadFInv == ASSUME FInv, NEW slot \in Slots, Load(slot) PROVE FInv'
  <1>0. TInv /\ TInv'
    BY LoadTInv DEF FInv
  <1>1. PICK v \in Nat : v = Visible[slot]
    BY <1>0, ActiveIs DEF Slots
  <1>2. /\ journaled_state[slot] = None
        /\ blurred' = IF active = None /\ slot = "ordinary" THEN Ids ELSE blurred
        /\ UNCHANGED <<mem_db, init_journaled_state, active, maps, forks, multi,
                       state_snapshots, env, writes, rounds, own, number, base, shared, sure>>
        /\ v # None
    BY <1>1, NoneApart DEF Load, Ids
  <1>3. /\ slot = "ordinary" \/ slot = "persistent"
        /\ slot = "ordinary" => /\ journaled_state'["ordinary"] = v
                                /\ v = Ordinary(journaled_state, ActiveFork)
                                /\ journaled_state'["persistent"] = journaled_state["persistent"]
        /\ slot = "persistent" => /\ journaled_state'["persistent"] = v
                                  /\ v = Persistent(journaled_state, ActiveFork)
                                  /\ journaled_state'["ordinary"] = journaled_state["ordinary"]
    <2>1. journaled_state' = [journaled_state EXCEPT ![slot] = v]
      BY <1>1 DEF Load
    <2>2. journaled_state \in State /\ v \in Value
      BY <1>0 DEF TInv, FTypeOK, Value
    <2> QED
      BY <1>0, <1>1, <2>1, <2>2, SetIs, SlotsTwo, ActiveIs DEF Slots
  <1>4. NotSelected'
    BY <1>2 DEF FInv, NotSelected
  <1>5. Base'
    BY <1>2, <1>3, SlotsTwo DEF FInv, Base, StartsWith
  <1>6. OwnInv'
    <2>1. SUFFICES ASSUME NEW id \in 1 .. Len(forks), id \notin blurred'
                   PROVE  own[id] = Ordinary(IF active # None /\ active.id = id
                                             THEN journaled_state' ELSE forks[id].state, forks[id])
      BY <1>2 DEF OwnInv, IsActive
    <2>2. id \in Ids
      BY <1>0, ForksHaveIds
    <2>3. id \notin blurred
      BY <1>2, <2>1, <2>2
    <2>4. own[id] = Ordinary(IF active # None /\ active.id = id
                             THEN journaled_state ELSE forks[id].state, forks[id])
      BY <2>3 DEF FInv, OwnInv, IsActive
    <2>5. CASE active # None /\ active.id = id /\ slot = "ordinary"
      <3>1. own[id] = v /\ journaled_state'["ordinary"] = v
        BY <1>0, <1>3, <2>4, <2>5, ActiveIs
      <3> QED
        BY <1>2, <2>5, <3>1 DEF Ordinary
    <2>6. CASE active # None /\ active.id = id /\ slot = "persistent"
      BY <1>3, <2>4, <2>6 DEF Ordinary
    <2> QED
      BY <1>3, <2>4, <2>5, <2>6
  <1>7. NumberInv'
    <2>1. SUFFICES ASSUME NEW id \in 1 .. Len(forks), id \notin blurred'
                   PROVE  number[id] = BlockNumber(id)
      BY <1>2 DEF NumberInv, BlockNumber, IsActive, maps
    <2>2. id \in Ids
      BY <1>0, ForksHaveIds
    <2>3. id \notin blurred
      BY <1>2, <2>1, <2>2
    <2> QED
      BY <2>3 DEF FInv, NumberInv
  <1>8. SharedInv'
    <2>1. ActiveFork' = ActiveFork
      BY <1>2 DEF ActiveFork
    <2>2. sure = "yes" => Remembered'
      <3>1. SUFFICES ASSUME sure = "yes" PROVE Remembered'
        OBVIOUS
      <3>2. Remembered
        BY <3>1 DEF FInv, SharedInv
      <3>3. Persistent(journaled_state, ActiveFork) = shared
        BY <1>0, <3>2, RememberedReads
      <3> QED
        BY <1>2, <1>3, <3>2, <3>3, SlotsTwo DEF Remembered
    <2>3. sure = "forgot" => Persistent(journaled_state', ActiveFork) = shared'
      BY <1>2, <1>3, SlotsTwo DEF FInv, SharedInv, Persistent
    <2> QED
      BY <1>2, <2>1, <2>2, <2>3 DEF SharedInv
  <1>9. SnapshotsInv'
    BY <1>0, <1>2, SnapshotsSameForks DEF FInv
  <1> QED
    BY <1>0, <1>4, <1>5, <1>6, <1>7, <1>8, <1>9 DEF FInv

LEMMA SetBlockNumberFInv == ASSUME FInv, SetBlockNumber PROVE FInv'
  <1>0. TInv /\ TInv'
    BY SetBlockNumberTInv DEF FInv
  <1>1. /\ number' = IF active = None THEN number ELSE [number EXCEPT ![active.id] = env']
        /\ UNCHANGED <<mem_db, init_journaled_state, active, maps, forks, multi, state_snapshots,
                       journaled_state, rounds, own, base, blurred, shared, sure>>
    BY DEF SetBlockNumber
  <1>2. NotSelected' /\ Base'
    BY <1>1 DEF FInv, NotSelected, Base
  <1>3. OwnInv'
    BY <1>1 DEF FInv, OwnInv, IsActive
  <1>4. NumberInv'
    <2>1. SUFFICES ASSUME NEW id \in 1 .. Len(forks), id \notin blurred
                   PROVE  number'[id] = IF active # None /\ active.id = id THEN env'
                                        ELSE multi[issued_local_fork_ids[id]].env
      BY <1>1 DEF NumberInv, BlockNumber, IsActive, maps
    <2>2. number[id] = IF active # None /\ active.id = id THEN env
                       ELSE multi[issued_local_fork_ids[id]].env
      BY <2>1 DEF FInv, NumberInv, BlockNumber, IsActive
    <2>3. CASE active # None
      <3>1. number \in Seq(Nat) /\ id \in 1 .. Len(number) /\ active.id \in 1 .. Len(number)
            /\ env' \in Nat
        BY <1>0, <2>3 DEF TInv, FTypeOK, Maps
      <3>2. number'[id] = IF id = active.id THEN env' ELSE number[id]
        BY <1>1, <2>3, <3>1, SequenceSet
      <3> QED
        BY <2>2, <2>3, <3>2
    <2>4. CASE active = None
      BY <1>1, <2>2, <2>4
    <2> QED
      BY <2>3, <2>4
  <1>5. SharedInv'
    <2>1. ActiveFork' = ActiveFork
      BY <1>1 DEF ActiveFork
    <2>2. Remembered => Remembered'
      BY <1>1 DEF Remembered
    <2> QED
      BY <1>1, <2>1, <2>2 DEF FInv, SharedInv
  <1>6. SnapshotsInv'
    BY <1>0, <1>1, SnapshotsSameForks DEF FInv
  <1> QED
    BY <1>0, <1>2, <1>3, <1>4, <1>5, <1>6 DEF FInv

LEMMA EndFInv == ASSUME FInv, EndTransaction PROVE FInv'
  <1>0. TInv /\ TInv'
    BY EndTInv DEF FInv
  <1>1. /\ journaled_state' = Nothing
        /\ journaled_state'["ordinary"] = None
        /\ journaled_state'["persistent"] = None
        /\ UNCHANGED <<init_journaled_state, active, maps, multi, state_snapshots, env, writes,
                       own, number, blurred, shared>>
    BY NothingIs DEF EndTransaction
  <1>2. CASE active = None
    <2>1. base' = None /\ sure' = "no" /\ UNCHANGED forks
      BY <1>2 DEF EndTransaction
    <2>2. NotSelected'
      BY <1>1, <2>1 DEF FInv, NotSelected
    <2>3. Base'
      BY <1>1, <1>2, <2>1 DEF Base, StartsWith
    <2>4. OwnInv'
      BY <1>1, <1>2, <2>1 DEF FInv, OwnInv, IsActive
    <2>5. NumberInv'
      BY <1>1, <2>1 DEF FInv, NumberInv, BlockNumber, IsActive, maps
    <2>6. SharedInv'
      BY <2>1 DEF SharedInv
    <2>7. SnapshotsInv'
      BY <1>0, <1>1, <1>2, <2>1, SnapshotsSameForks DEF FInv
    <2> QED
      BY <1>0, <2>2, <2>3, <2>4, <2>5, <2>6, <2>7 DEF FInv
  <1>3. CASE active # None
    <2>1. sure' = (IF sure = "yes" THEN "forgot" ELSE sure) /\ UNCHANGED <<mem_db, base>>
      BY <1>3 DEF EndTransaction
    <2>2. PICK a \in 1 .. Len(forks) : a = active.id /\ ActiveFork = forks[a] /\ a = active.idx
      BY <1>0, <1>3, ActiveIs
    <2>3. /\ Len(forks') = Len(forks)
          /\ \A i \in 1 .. Len(forks) : i # a => forks'[i] = forks[i]
          /\ forks'[a].db = Over(journaled_state, forks[a].db)
          /\ forks'[a].block = forks[a].block
      BY <1>0, <1>3, <2>2, EndForks
    <2>4. journaled_state \in State /\ forks[a].db \in State
      BY <1>0, ForksAre DEF TInv, FTypeOK
    <2>5. \A s \in Slots : forks'[a].db[s] = IF journaled_state[s] # None THEN journaled_state[s]
                                             ELSE forks[a].db[s]
      BY <2>3, <2>4, OverIs
    <2>6. /\ Ordinary(journaled_state', forks'[a]) = Ordinary(journaled_state, forks[a])
          /\ Persistent(journaled_state', forks'[a]) = Persistent(journaled_state, forks[a])
      BY <1>1, <2>3, <2>5, SlotsTwo DEF Ordinary, Persistent
    <2>7. NotSelected' /\ Base'
      BY <1>1, <1>3, <2>1 DEF FInv, NotSelected, Base
    <2>8. OwnInv'
      <3>1. SUFFICES ASSUME NEW id \in 1 .. Len(forks), id \notin blurred
                     PROVE  own[id] = Ordinary(IF id = a THEN journaled_state' ELSE forks'[id].state,
                                               forks'[id])
        BY <1>1, <1>3, <2>2, <2>3 DEF OwnInv, IsActive
      <3>2. own[id] = Ordinary(IF id = a THEN journaled_state ELSE forks[id].state, forks[id])
        BY <1>3, <2>2, <3>1 DEF FInv, OwnInv, IsActive
      <3> QED
        BY <2>3, <2>6, <3>2
    <2>9. NumberInv'
      BY <1>1, <2>3 DEF FInv, NumberInv, BlockNumber, IsActive, maps
    <2>10. SharedInv'
      <3>1. ActiveFork' = forks'[a]
        BY <1>1, <1>3, <2>2 DEF ActiveFork
      <3>2. sure # "no" => Persistent(journaled_state, forks[a]) = shared
        BY <1>0, <2>2, SharedReads DEF FInv
      <3> QED
        BY <1>1, <2>1, <2>6, <3>1, <3>2 DEF SharedInv
    <2>11. SnapshotsInv'
      BY <1>0, <1>1, <2>1, <2>3, SnapshotsSameForks DEF FInv
    <2> QED
      BY <1>0, <2>7, <2>8, <2>9, <2>10, <2>11 DEF FInv
  <1> QED
    BY <1>2, <1>3

LEMMA CreateFInv == ASSUME FInv, NEW block \in Blocks, CreateFork(block) PROVE FInv'
  <1>0. TInv /\ TInv'
    BY CreateTInv DEF FInv
  <1>1. UNCHANGED <<mem_db, init_journaled_state, active, state_snapshots, journaled_state,
                    env, writes, rounds, base, blurred, shared, sure>>
    BY DEF CreateFork
  <1>2. PICK new \in Nat : new = Len(forks) + 1
    BY <1>0 DEF TInv, FTypeOK
  <1>3. /\ Len(forks) \in Nat /\ Len(multi) \in Nat
        /\ Len(issued_local_fork_ids) = Len(forks)
        /\ Len(own) = Len(forks) /\ Len(number) = Len(forks)
        /\ Len(created_forks) = Len(multi)
    BY <1>0 DEF TInv, FTypeOK, Maps
  <1>4. /\ Len(forks') = new
        /\ \A i \in 1 .. Len(forks) : /\ forks'[i] = forks[i]
                                      /\ own'[i] = own[i]
                                      /\ number'[i] = number[i]
                                      /\ issued_local_fork_ids'[i] = issued_local_fork_ids[i]
        /\ \A i \in 1 .. Len(multi) : multi'[i] = multi[i] /\ created_forks'[i] = created_forks[i]
        /\ forks'[new].db["ordinary"] = None
        /\ forks'[new].db["persistent"] = None
        /\ forks'[new].block = block
        /\ forks'[new].state = init_journaled_state
        /\ own'[new] = Fresh(block)
        /\ number'[new] = Forked(block).env
        /\ issued_local_fork_ids'[new] = Len(multi) + 1
        /\ multi'[Len(multi) + 1].env = Forked(block).env
        /\ Len(multi') = Len(multi) + 1
    BY <1>0, <1>2, <1>3, CreateEffect, NothingIs
  <1>5. ASSUME NEW i \in 1 .. new PROVE i = new \/ i \in 1 .. Len(forks)
    BY <1>2, <1>3
  <1>6. new \in Ids /\ ~(active # None /\ active.id = new)
    <2>1. Len(forks') = new /\ new \in 1 .. Len(forks')
      BY <1>2, <1>3, <1>4
    <2>2. new \in Ids
      BY <1>0, <2>1 DEF TInv, Maps, Ids
    <2>3. active # None => active.id \in 1 .. Len(forks)
      BY <1>0, ActiveIs
    <2> QED
      BY <1>2, <1>3, <2>2, <2>3
  <1>7. NotSelected'
    <2>1. SUFFICES ASSUME active = None, NEW i \in 1 .. new
                   PROVE  /\ init_journaled_state = Nothing
                          /\ sure # "forgot"
                          /\ forks'[i].state = Nothing /\ forks'[i].db["persistent"] = None
      <3>1. 1 \in 1 .. new
        BY <1>2, <1>3
      <3> QED
        BY <1>1, <1>4, <3>1 DEF NotSelected
    <2> QED
      BY <1>4, <1>5, <2>1 DEF FInv, NotSelected
  <1>8. Base'
    BY <1>1 DEF FInv, Base
  <1>9. OwnInv'
    <2>1. SUFFICES ASSUME NEW id \in 1 .. new, id \notin blurred
                   PROVE  own'[id] = Ordinary(IF active # None /\ active.id = id
                                              THEN journaled_state ELSE forks'[id].state, forks'[id])
      BY <1>1, <1>4 DEF OwnInv, IsActive
    <2>2. CASE id \in 1 .. Len(forks)
      BY <1>4, <2>1, <2>2 DEF FInv, OwnInv, IsActive
    <2>3. CASE id = new
      <3>1. Ordinary(forks'[id].state, forks'[id])
              = IF init_journaled_state["ordinary"] # None THEN init_journaled_state["ordinary"]
                ELSE block
        BY <1>4, <2>3 DEF Ordinary
      <3>2. CASE active = None
        BY <1>4, <2>3, <3>1, <3>2, NothingIs DEF FInv, NotSelected, Fresh
      <3>3. CASE active # None
        <4>1. StartsWith(init_journaled_state, base, blurred)
          BY <3>3 DEF FInv, Base
        <4>2. IF base # None THEN init_journaled_state["ordinary"] = base
              ELSE init_journaled_state["ordinary"] = None
          BY <1>6, <2>1, <2>3, <4>1 DEF StartsWith
        <4>3. own'[id] = IF base # None THEN base ELSE block
          BY <1>4, <2>3, <3>3 DEF Fresh
        <4> QED
          BY <1>6, <2>3, <3>1, <4>2, <4>3
      <3> QED
        BY <3>2, <3>3
    <2> QED
      BY <1>5, <2>2, <2>3
  <1>10. NumberInv'
    <2>1. SUFFICES ASSUME NEW id \in 1 .. new, id \notin blurred
                   PROVE  number'[id] = IF active # None /\ active.id = id THEN env
                                        ELSE multi'[issued_local_fork_ids'[id]].env
      BY <1>1, <1>4 DEF NumberInv, BlockNumber, IsActive
    <2>2. CASE id \in 1 .. Len(forks)
      <3>1. issued_local_fork_ids[id] \in 1 .. Len(multi)
        BY <1>0, <2>2 DEF TInv, Maps
      <3>2. number[id] = IF active # None /\ active.id = id THEN env
                         ELSE multi[issued_local_fork_ids[id]].env
        BY <2>1, <2>2 DEF FInv, NumberInv, BlockNumber, IsActive
      <3> QED
        BY <1>4, <2>2, <3>1, <3>2
    <2>3. CASE id = new
      BY <1>4, <1>6, <2>3
    <2> QED
      BY <1>5, <2>2, <2>3
  <1>11. SharedInv'
    <2>1. ActiveFork' = ActiveFork
      <3>1. active # None => forks'[active.idx] = forks[active.idx]
        BY <1>0, <1>4, ActiveIs
      <3> QED
        BY <1>1, <3>1 DEF ActiveFork
    <2>2. ASSUME Remembered PROVE Remembered'
      <3>1. ASSUME NEW i \in 1 .. new
            PROVE  /\ forks'[i].db["persistent"] = None
                   /\ journaled_state["persistent"] = None => forks'[i].state["persistent"] = None
        BY <1>4, <1>5, <2>2 DEF Remembered
      <3> QED
        BY <1>1, <1>4, <2>2, <3>1 DEF Remembered
    <2> QED
      BY <1>1, <2>1, <2>2 DEF FInv, SharedInv
  <1>12. SnapshotsInv'
    <2>1. /\ Len(forks') \in Nat /\ Len(forks) <= Len(forks')
          /\ Len(multi') \in Nat /\ Len(multi) <= Len(multi')
      BY <1>2, <1>3, <1>4
    <2> QED
      BY <1>0, <1>1, <1>4, <2>1, SnapshotsSame DEF FInv
  <1> QED
    BY <1>0, <1>7, <1>8, <1>9, <1>10, <1>11, <1>12 DEF FInv

LEMMA SelectFInv == ASSUME FInv, NEW id \in LocalIds, SelectFork(id) PROVE FInv'
  <1>0. TInv /\ TInv'
    BY SelectTInv DEF FInv
  <1>1. /\ UNCHANGED <<mem_db, maps, state_snapshots, writes, rounds, number, base, blurred, shared>>
        /\ init_journaled_state' = IF active = None THEN journaled_state ELSE init_journaled_state
        /\ sure' = StillSure
    BY DEF SelectFork
  <1>2. /\ id \in 1 .. Len(forks)
        /\ active = None \/ active.id # id
        /\ active'.id = id
        /\ active'.idx = id
        /\ active' # None
        /\ Len(forks') = Len(forks)
        /\ Len(multi') = Len(multi)
    BY <1>0, SelectEffect
  <1>3. NotSelected'
    BY <1>2 DEF NotSelected
  <1>4. Base'
    BY <1>1, <1>2 DEF FInv, Base
  <1>5. OwnInv'
    <2>1. SUFFICES ASSUME NEW i \in 1 .. Len(forks), i \notin blurred
                   PROVE  own'[i] = Ordinary(IF i = id THEN journaled_state' ELSE forks'[i].state,
                                             forks'[i])
      BY <1>1, <1>2 DEF OwnInv, IsActive
    <2>2. own[i] = Ordinary(IF active # None /\ active.id = i
                            THEN journaled_state ELSE forks[i].state, forks[i])
      BY <2>1 DEF FInv, OwnInv, IsActive
    <2>3. PICK st : st = IF i = id THEN journaled_state' ELSE forks'[i].state
      OBVIOUS
    <2>4. /\ forks'[i].db["ordinary"] = forks[i].db["ordinary"]
          /\ forks'[i].block = forks[i].block
      BY <1>0, SelectEffect
    <2>5. CASE active = None
      <3>1. st["ordinary"] = journaled_state["ordinary"]
        BY <1>0, <2>3, <2>5, SelectEffect
      <3>2. StartsWith(journaled_state, base, blurred)
        BY <2>5 DEF FInv, Base
      <3>3. i \in Ids
        BY <1>0, ForksHaveIds
      <3>4. IF base # None THEN journaled_state["ordinary"] = base
            ELSE journaled_state["ordinary"] = None
        BY <2>1, <3>2, <3>3 DEF StartsWith
      <3>5. forks[i].state["ordinary"] = None
        BY <2>5, NothingIs DEF FInv, NotSelected
      <3>6. CASE base # None
        <4>1. own'[i] = base
          <5>1. own' = [k \in DOMAIN own |-> base] /\ DOMAIN own = 1 .. Len(forks)
            BY <1>0, <2>5, <3>6 DEF SelectFork, TInv, FTypeOK, Maps
          <5> QED
            BY <5>1
        <4> QED
          BY <2>3, <3>1, <3>4, <3>6, <4>1 DEF Ordinary
      <3>7. CASE base = None
        <4>1. own'[i] = own[i]
          BY <3>7 DEF SelectFork
        <4> QED
          BY <2>2, <2>3, <2>4, <2>5, <3>1, <3>4, <3>5, <3>7, <4>1 DEF Ordinary
      <3> QED
        BY <3>6, <3>7
    <2>6. CASE active # None
      <3>1. own'[i] = own[i]
        BY <2>6 DEF SelectFork
      <3>2. st["ordinary"] = IF i = active.id THEN journaled_state["ordinary"]
                             ELSE forks[i].state["ordinary"]
        BY <1>0, <1>2, <2>3, <2>6, SelectEffect
      <3> QED
        BY <2>2, <2>3, <2>4, <2>6, <3>1, <3>2 DEF Ordinary
    <2> QED
      BY <2>5, <2>6
  <1>6. NumberInv'
    <2>1. SUFFICES ASSUME NEW i \in 1 .. Len(forks), i \notin blurred
                   PROVE  number[i] = IF i = id THEN env' ELSE multi'[issued_local_fork_ids[i]].env
      BY <1>1, <1>2 DEF NumberInv, BlockNumber, IsActive, maps
    <2>2. env' = multi'[issued_local_fork_ids[id]].env
      BY <1>0, SelectEffect
    <2>3. number[i] = IF active # None /\ active.id = i THEN env
                      ELSE multi[issued_local_fork_ids[i]].env
      BY <2>1 DEF FInv, NumberInv, BlockNumber, IsActive
    <2>4. /\ issued_local_fork_ids[i] \in 1 .. Len(multi)
          /\ created_forks[issued_local_fork_ids[i]] = i
      BY <1>0 DEF TInv, Maps
    <2>5. CASE active = None
      BY <1>0, <2>2, <2>3, <2>5, SelectEffect
    <2>6. CASE active # None
      <3>1. created_forks[issued_local_fork_ids[active.id]] = active.id
        BY <1>0, <2>6, ActiveIs DEF TInv, Maps
      <3>2. i # active.id => issued_local_fork_ids[i] # issued_local_fork_ids[active.id]
        BY <2>4, <3>1
      <3>3. multi'[issued_local_fork_ids[i]].env
              = IF i = active.id THEN env ELSE multi[issued_local_fork_ids[i]].env
        BY <1>0, <2>4, <2>6, <3>2, SelectEffect
      <3> QED
        BY <2>2, <2>3, <2>6, <3>3
    <2> QED
      BY <2>5, <2>6
  <1>7. SharedInv'
    <2>1. sure' # "forgot" /\ (sure' = "yes" => sure = "yes")
      BY <1>1 DEF StillSure
    <2>2. ASSUME Remembered PROVE Remembered'
      <3>1. ActiveFork.db["persistent"] = None
        BY <1>0, <2>2, ActiveIs DEF Remembered
      <3>2. \A i \in 1 .. Len(forks) : forks'[i].db["persistent"] = None
        BY <1>0, <2>2, <3>1, SelectEffect DEF Remembered
      <3>3. CASE journaled_state["persistent"] # None
        <4>1. journaled_state'["persistent"] = shared
          BY <1>0, <2>2, <3>3, SelectEffect DEF Remembered
        <4>2. journaled_state'["persistent"] # None
          BY <2>2, <3>3, <4>1 DEF Remembered
        <4> QED
          BY <1>1, <1>2, <2>2, <3>2, <4>1, <4>2 DEF Remembered
      <3>4. CASE journaled_state["persistent"] = None
        <4>1. /\ shared = 0
              /\ init_journaled_state["persistent"] = None
              /\ \A i \in 1 .. Len(forks) : forks[i].state["persistent"] = None
          BY <2>2, <3>4 DEF Remembered
        <4>2. journaled_state'["persistent"] = None
          BY <1>0, <1>2, <3>4, <4>1, SelectEffect, SMTT(30)
        <4>3. \A i \in 1 .. Len(forks) : forks'[i].state["persistent"] = None
          BY <1>0, <3>4, <4>1, <4>2, SelectEffect
        <4>4. init_journaled_state'["persistent"] = None
          BY <1>1, <3>4, <4>1
        <4> QED
          BY <1>1, <1>2, <2>2, <3>2, <4>1, <4>2, <4>3, <4>4 DEF Remembered
      <3> QED
        BY <3>3, <3>4
    <2> QED
      BY <2>1, <2>2 DEF FInv, SharedInv
  <1>8. SnapshotsInv'
    <2>1. Len(forks) \in Nat /\ Len(multi) \in Nat
      BY <1>0 DEF TInv, FTypeOK
    <2> QED
      BY <1>0, <1>1, <1>2, <2>1, SnapshotsSame DEF FInv, maps
  <1> QED
    BY <1>0, <1>3, <1>4, <1>5, <1>6, <1>7, <1>8 DEF FInv

LEMMA RollFInv ==
    ASSUME FInv, NEW id \in LocalIds, NEW block \in Blocks, RollFork(id, block) PROVE FInv'
  <1>0. TInv /\ TInv'
    BY RollTInv DEF FInv
  <1>1. /\ UNCHANGED <<mem_db, init_journaled_state, active, state_snapshots, writes, rounds,
                       base, shared>>
        /\ env' = IF IsActive(id) THEN Forked(block).env ELSE env
        /\ blurred' = IF IsActive(id) \/ active = None THEN blurred ELSE blurred \cup {id}
        /\ blurred \subseteq blurred'
        /\ sure' = StillSure
    BY DEF RollFork
  <1>2. id \in 1 .. Len(forks) /\ Len(forks') = Len(forks) /\ id \in Ids
    BY <1>0, RollEffect, IndexIs
  <1>3. ~IsActive(id) => journaled_state' = journaled_state
    BY <1>0, RollEffect
  <1>4. NotSelected'
    <2>1. SUFFICES ASSUME active = None PROVE NotSelected'
      BY <1>1 DEF NotSelected
    <2>2. ~IsActive(id)
      BY <2>1 DEF IsActive
    <2>3. ASSUME NEW i \in 1 .. Len(forks)
          PROVE  forks'[i].state = Nothing /\ forks'[i].db["persistent"] = None
      <3>1. forks[i].state = Nothing /\ forks[i].db["persistent"] = None
        BY <2>1 DEF FInv, NotSelected
      <3>2. i # id => forks'[i] = forks[i]
        BY <1>0, RollEffect
      <3>3. i = id => /\ forks'[i].state = forks[i].state
                      /\ forks'[i].db["persistent"] = forks[i].db["persistent"]
        BY <1>0, <2>2, RollEffect
      <3> QED
        BY <3>1, <3>2, <3>3
    <2>4. init_journaled_state = Nothing /\ sure' # "forgot"
      BY <1>1, <2>1 DEF FInv, NotSelected, StillSure
    <2> QED
      BY <1>1, <1>2, <2>3, <2>4 DEF NotSelected
  <1>5. Base'
    <2>1. active = None => journaled_state' = journaled_state
      BY <1>3 DEF IsActive
    <2>2. StartsWith(IF active = None THEN journaled_state ELSE init_journaled_state, base, blurred)
      BY DEF FInv, Base
    <2>3. StartsWith(IF active = None THEN journaled_state' ELSE init_journaled_state, base, blurred')
      BY <1>1, <2>1, <2>2 DEF StartsWith
    <2> QED
      BY <1>1, <2>3 DEF Base
  <1>6. OwnInv'
    <2>1. SUFFICES ASSUME NEW i \in 1 .. Len(forks), i \notin blurred'
                   PROVE  own'[i] = Ordinary(IF active # None /\ active.id = i
                                             THEN journaled_state' ELSE forks'[i].state, forks'[i])
      BY <1>1, <1>2 DEF OwnInv, IsActive
    <2>2. i \notin blurred
      BY <1>1, <2>1
    <2>3. own[i] = Ordinary(IF active # None /\ active.id = i
                            THEN journaled_state ELSE forks[i].state, forks[i])
      BY <2>2 DEF FInv, OwnInv, IsActive
    <2>4. CASE i # id
      <3>1. forks'[i] = forks[i] /\ own'[i] = own[i]
        BY <1>0, <2>4, RollEffect
      <3>2. active # None /\ active.id = i => journaled_state' = journaled_state
        BY <1>3, <2>4 DEF IsActive
      <3> QED
        BY <2>3, <3>1, <3>2
    <2>5. CASE i = id /\ active = None
      <3>1. /\ own'[i] = block
            /\ forks'[i].db["ordinary"] = None
            /\ forks'[i].block = block
            /\ forks'[i].state = forks[i].state
        BY <1>0, <2>5, RollEffect DEF Fresh, IsActive
      <3>2. forks[i].state["ordinary"] = None
        BY <2>5, NothingIs DEF FInv, NotSelected
      <3> QED
        BY <2>5, <3>1, <3>2 DEF Ordinary
    <2>6. CASE i = id /\ active # None
      <3>1. IsActive(id)
        BY <1>1, <2>1, <2>6
      <3>2. /\ own'[i] = (IF base # None THEN base ELSE block)
            /\ forks'[i].db["ordinary"] = None
            /\ forks'[i].block = block
            /\ journaled_state'["ordinary"] = init_journaled_state["ordinary"]
        BY <1>0, <2>6, <3>1, RollEffect DEF Fresh
      <3>3. StartsWith(init_journaled_state, base, blurred)
        BY <2>6 DEF FInv, Base
      <3>4. IF base # None THEN init_journaled_state["ordinary"] = base
            ELSE init_journaled_state["ordinary"] = None
        BY <1>2, <2>2, <2>6, <3>3 DEF StartsWith
      <3>5. active.id = i
        BY <2>6, <3>1 DEF IsActive
      <3> QED
        BY <2>6, <3>2, <3>4, <3>5 DEF Ordinary
    <2> QED
      BY <2>4, <2>5, <2>6
  <1>7. NumberInv'
    <2>1. SUFFICES ASSUME NEW i \in 1 .. Len(forks), i \notin blurred'
                   PROVE  number'[i] = IF active # None /\ active.id = i THEN env'
                                       ELSE multi'[issued_local_fork_ids'[i]].env
      BY <1>1, <1>2 DEF NumberInv, BlockNumber, IsActive
    <2>2. CASE i = id
      <3>1. /\ number'[i] = Forked(block).env
            /\ multi'[issued_local_fork_ids'[i]].env = Forked(block).env
        BY <1>0, <2>2, RollEffect
      <3>2. active # None /\ active.id = i => env' = Forked(block).env
        BY <1>1, <2>2 DEF IsActive
      <3> QED
        BY <3>1, <3>2
    <2>3. CASE i # id
      <3>1. i \notin blurred /\ issued_local_fork_ids[i] \in 1 .. Len(multi)
        BY <1>0, <1>1, <2>1 DEF TInv, Maps
      <3>2. number[i] = IF active # None /\ active.id = i THEN env
                        ELSE multi[issued_local_fork_ids[i]].env
        BY <3>1 DEF FInv, NumberInv, BlockNumber, IsActive
      <3>3. number'[i] = number[i] /\ issued_local_fork_ids'[i] = issued_local_fork_ids[i]
        BY <1>0, <2>3, RollEffect
      <3>4. \A n \in 1 .. Len(multi) : multi'[n] = multi[n]
        BY <1>0, RollEffect
      <3>5. active # None /\ active.id = i => env' = env
        BY <1>1, <2>3 DEF IsActive
      <3> QED
        BY <3>1, <3>2, <3>3, <3>4, <3>5
    <2> QED
      BY <2>2, <2>3
  <1>8. SharedInv'
    <2>1. sure' # "forgot" /\ (sure' = "yes" => sure = "yes")
      BY <1>1 DEF StillSure
    <2>2. ASSUME Remembered PROVE Remembered'
      <3>1. \A i \in 1 .. Len(forks) : forks'[i].db["persistent"] = None
        <4>1. \A i \in 1 .. Len(forks) : forks[i].db["persistent"] = None
          BY <2>2 DEF Remembered
        <4>2. forks'[id].db["persistent"] = forks[id].db["persistent"]
          BY <1>0, RollEffect
        <4>3. \A i \in 1 .. Len(forks) : i # id => forks'[i] = forks[i]
          BY <1>0, RollEffect
        <4> QED
          BY <4>1, <4>2, <4>3
      <3>2. CASE journaled_state["persistent"] # None
        <4>1. journaled_state'["persistent"] = shared /\ journaled_state'["persistent"] # None
          BY <1>0, <2>2, <3>2, RollEffect DEF Remembered
        <4> QED
          BY <1>1, <1>2, <2>2, <3>1, <4>1 DEF Remembered
      <3>3. CASE journaled_state["persistent"] = None
        <4>1. /\ shared = 0
              /\ init_journaled_state["persistent"] = None
              /\ \A i \in 1 .. Len(forks) : forks[i].state["persistent"] = None
          BY <2>2, <3>3 DEF Remembered
        <4>2. journaled_state'["persistent"] = None
          BY <1>0, <3>3, <4>1, RollEffect
        <4>3. ASSUME NEW i \in 1 .. Len(forks) PROVE forks'[i].state["persistent"] = None
          <5>1. i # id => forks'[i] = forks[i]
            BY <1>0, RollEffect
          <5>2. i = id => forks'[i].state = journaled_state' \/ forks'[i].state = forks[i].state
            BY <1>0, RollEffect
          <5> QED
            BY <4>1, <4>2, <5>1, <5>2
        <4> QED
          BY <1>1, <1>2, <2>2, <3>1, <4>1, <4>2, <4>3 DEF Remembered
      <3> QED
        BY <3>2, <3>3
    <2> QED
      BY <2>1, <2>2 DEF FInv, SharedInv
  <1>9. SnapshotsInv'
    <2>1. Len(forks) \in Nat /\ Len(multi) \in Nat /\ Len(created_forks) = Len(multi)
      BY <1>0 DEF TInv, FTypeOK, Maps
    <2>2. /\ Len(multi') = Len(multi) + 1
          /\ \A j \in 1 .. Len(multi) : created_forks'[j] = created_forks[j]
      BY <1>0, <2>1, RollEffect
    <2>3. Len(multi') \in Nat /\ Len(multi) <= Len(multi')
      BY <2>1, <2>2
    <2> QED
      BY <1>0, <1>1, <1>2, <2>1, <2>2, <2>3, SnapshotsSame DEF FInv
  <1> QED
    BY <1>0, <1>4, <1>5, <1>6, <1>7, <1>8, <1>9 DEF FInv

\* A state that has neither slot is the empty one.
LEMMA NothingOnly ==
    ASSUME NEW state \in State, state["ordinary"] = None, state["persistent"] = None
    PROVE  state = Nothing
  BY DEF State, Nothing, Slots

LEMMA TransactFInv == ASSUME FInv, NEW id \in LocalIds, Transact(id) PROVE FInv'
  <1>0. TInv /\ TInv'
    BY TransactTInv DEF FInv
  <1>1. /\ UNCHANGED <<mem_db, init_journaled_state, active, maps, multi, state_snapshots,
                       env, rounds, number, shared, sure>>
        /\ base' = IF active = None THEN None ELSE base
        /\ blurred' = IF active = None THEN Ids
                      ELSE IF IsActive(id) THEN blurred ELSE blurred \cup {active.id}
        /\ blurred \subseteq blurred'
    BY <1>0 DEF Transact, Ids, TInv, FTypeOK
  <1>2. id \in 1 .. Len(forks) /\ Len(forks') = Len(forks)
    BY <1>0, TransactEffect
  <1>3. PICK v \in Nat : v = Written(writes) /\ v # None
    BY <1>0, TransactEffect
  <1>4. NotSelected'
    <2>1. SUFFICES ASSUME active = None, NEW i \in 1 .. Len(forks)
                   PROVE  forks'[i].state = Nothing /\ forks'[i].db["persistent"] = None
      BY <1>1, <1>2 DEF FInv, NotSelected
    <2>2. forks[i].state = Nothing /\ forks[i].db["persistent"] = None
      BY <2>1 DEF FInv, NotSelected
    <2>3. CASE i # id
      BY <1>0, <2>2, <2>3, TransactEffect
    <2>4. CASE i = id
      <3>1. /\ forks'[i].state \in State
            /\ forks'[i].state["ordinary"] = None
            /\ forks'[i].state["persistent"] = None
            /\ forks'[i].db["persistent"] = None
        BY <1>0, <2>2, <2>4, TransactEffect, NothingIs
      <3> QED
        BY <3>1, NothingOnly
    <2> QED
      BY <2>3, <2>4
  <1>5. Base'
    BY <1>1 DEF FInv, Base, StartsWith
  <1>6. OwnInv'
    <2>1. SUFFICES ASSUME NEW i \in 1 .. Len(forks), i \notin blurred'
                   PROVE  own'[i] = Ordinary(IF active # None /\ active.id = i
                                             THEN journaled_state' ELSE forks'[i].state, forks'[i])
      BY <1>1, <1>2 DEF OwnInv, IsActive
    <2>2. i \in Ids
      BY <1>0, ForksHaveIds
    <2>3. active # None /\ i \notin blurred
      BY <1>1, <2>1, <2>2
    <2>4. own[i] = Ordinary(IF active # None /\ active.id = i
                            THEN journaled_state ELSE forks[i].state, forks[i])
      BY <2>3 DEF FInv, OwnInv, IsActive
    <2>5. CASE i = id
      <3>1. /\ own'[i] = v
            /\ forks'[i].db["ordinary"] = v
            /\ forks'[i].state["ordinary"] = None \/ forks'[i].state["ordinary"] = v
            /\ journaled_state'["ordinary"] = None \/ journaled_state'["ordinary"] = v
        BY <1>0, <1>3, <2>5, TransactEffect
      <3> QED
        BY <1>3, <3>1 DEF Ordinary
    <2>6. CASE i # id
      <3>1. active.id # i
        BY <1>1, <2>1, <2>3, <2>6 DEF IsActive
      <3>2. forks'[i] = forks[i] /\ own'[i] = own[i]
        BY <1>0, <2>6, TransactEffect
      <3> QED
        BY <2>4, <3>1, <3>2
    <2> QED
      BY <2>5, <2>6
  <1>7. NumberInv'
    <2>1. SUFFICES ASSUME NEW i \in 1 .. Len(forks), i \notin blurred'
                   PROVE  number[i] = BlockNumber(i)
      BY <1>1, <1>2 DEF NumberInv, BlockNumber, IsActive, maps
    <2>2. i \notin blurred
      BY <1>1, <2>1
    <2> QED
      BY <2>2 DEF FInv, NumberInv
  <1>8. SharedInv'
    <2>1. /\ \A i \in 1 .. Len(forks) :
               /\ forks'[i].db["persistent"] = forks[i].db["persistent"]
               /\ forks'[i].state["persistent"] = forks[i].state["persistent"]
          /\ journaled_state'["persistent"] = journaled_state["persistent"]
      BY <1>0, TransactEffect
    <2>2. Remembered => Remembered'
      BY <1>1, <1>2, <2>1 DEF Remembered
    <2>3. Persistent(journaled_state', ActiveFork') = Persistent(journaled_state, ActiveFork)
      <3>1. CASE active = None
        <4>1. ActiveFork' = ActiveFork
          BY <1>1, <3>1 DEF ActiveFork
        <4> QED
          BY <2>1, <4>1 DEF Persistent
      <3>2. CASE active # None
        <4>1. PICK a \in 1 .. Len(forks) : a = active.id /\ a = active.idx
          BY <1>0, <3>2, ActiveIs
        <4>2. ActiveFork = forks[a] /\ ActiveFork' = forks'[a]
          BY <1>1, <3>2, <4>1 DEF ActiveFork
        <4> QED
          BY <2>1, <4>2 DEF Persistent
      <3> QED
        BY <3>1, <3>2
    <2> QED
      BY <1>1, <2>2, <2>3 DEF FInv, SharedInv
  <1>9. SnapshotsInv'
    BY <1>0, <1>1, <1>2, SnapshotsSameForks DEF FInv
  <1> QED
    BY <1>0, <1>4, <1>5, <1>6, <1>7, <1>8, <1>9 DEF FInv

\* A fork without an uncommitted write shows what is stored.
LEMMA CommittedReads ==
    ASSUME TInv, NEW id \in LocalIds, ~Uncommitted(id)
    PROVE  Ordinary(IF IsActive(id) THEN journaled_state ELSE forks[id].state, forks[id])
             = Stored(forks[id].db, forks[id].block)
  <1>1. /\ Index(id) = id /\ id \in 1 .. Len(forks) /\ forks[id] \in ForkType
        /\ forks[id].db \in State /\ forks[id].state \in State /\ forks[id].block \in Nat
    BY IndexIs, ForksAre
  <1>2. PICK d \in State, b \in Nat : d = forks[id].db /\ b = forks[id].block
    BY <1>1
  <1>3. Over(d, Remote(b))["ordinary"] = Stored(d, b)
    BY ReloadedStored
  <1>4. View(id)["ordinary"] = Stored(d, b)
    BY <1>1, <1>2, <1>3 DEF Uncommitted
  <1>5. CASE IsActive(id)
    <2>1. ActiveFork = forks[id]
      BY <1>5, ActiveIs DEF IsActive
    <2> QED
      BY <1>2, <1>4, <1>5, <2>1, ActiveIs DEF View
  <1>6. CASE ~IsActive(id)
    <2>1. View(id) = Read(forks[id].state, forks[id])
      BY <1>1, <1>6 DEF View
    <2> QED
      BY <1>1, <1>2, <1>4, <1>6, <2>1, ReadIs
  <1> QED
    BY <1>5, <1>6

LEMMA OtherFInv == ASSUME FInv, NEW id \in LocalIds, TransactOther(id) PROVE FInv'
  <1>0. TInv /\ TInv'
    BY OtherTInv DEF FInv
  <1>1. /\ UNCHANGED <<mem_db, init_journaled_state, active, maps, multi, state_snapshots,
                       env, rounds, own, number, shared, sure>>
        /\ base' = IF active = None THEN None ELSE base
        /\ active = None => blurred' = Ids
        /\ active # None /\ ~IsActive(id) => active.id \in blurred'
        /\ active # None /\ Uncommitted(id) => id \in blurred'
        /\ blurred \subseteq blurred'
    BY <1>0 DEF TransactOther, Ids, TInv, FTypeOK
  <1>2. id \in 1 .. Len(forks) /\ Len(forks') = Len(forks)
    BY <1>0, OtherEffect
  <1>4. NotSelected'
    <2>1. SUFFICES ASSUME active = None, NEW i \in 1 .. Len(forks)
                   PROVE  forks'[i].state = Nothing /\ forks'[i].db["persistent"] = None
      BY <1>1, <1>2 DEF FInv, NotSelected
    <2>2. forks[i].state = Nothing /\ forks[i].db["persistent"] = None
      BY <2>1 DEF FInv, NotSelected
    <2>3. CASE i # id
      BY <1>0, <2>2, <2>3, OtherEffect
    <2>4. CASE i = id
      <3>1. /\ forks'[i].state \in State
            /\ forks'[i].state["ordinary"] = None
            /\ forks'[i].state["persistent"] = None
            /\ forks'[i].db["persistent"] = None
        BY <1>0, <2>2, <2>4, OtherEffect, NothingIs
      <3> QED
        BY <3>1, NothingOnly
    <2> QED
      BY <2>3, <2>4
  <1>5. Base'
    BY <1>1 DEF FInv, Base, StartsWith
  <1>6. OwnInv'
    <2>1. SUFFICES ASSUME NEW i \in 1 .. Len(forks), i \notin blurred'
                   PROVE  own[i] = Ordinary(IF active # None /\ active.id = i
                                            THEN journaled_state' ELSE forks'[i].state, forks'[i])
      BY <1>1, <1>2 DEF OwnInv, IsActive
    <2>2. i \in Ids
      BY <1>0, ForksHaveIds
    <2>3. active # None /\ i \notin blurred
      BY <1>1, <2>1, <2>2
    <2>4. own[i] = Ordinary(IF active # None /\ active.id = i
                            THEN journaled_state ELSE forks[i].state, forks[i])
      BY <2>3 DEF FInv, OwnInv, IsActive
    <2>5. CASE i = id
      <3>1. PICK stored : stored = Stored(forks[i].db, forks[i].block)
        OBVIOUS
      <3>2. ~Uncommitted(id)
        BY <1>1, <2>1, <2>3, <2>5
      <3>3. own[i] = stored
        BY <1>0, <2>4, <2>5, <3>1, <3>2, CommittedReads DEF IsActive
      <3>4. /\ forks'[i].db = forks[i].db /\ forks'[i].block = forks[i].block
            /\ forks'[i].state["ordinary"] = None \/ forks'[i].state["ordinary"] = stored
            /\ journaled_state'["ordinary"] = None \/ journaled_state'["ordinary"] = stored
        BY <1>0, <2>5, <3>1, OtherEffect
      <3> QED
        BY <3>1, <3>3, <3>4 DEF Ordinary, Stored
    <2>6. CASE i # id
      <3>1. active.id # i
        BY <1>1, <2>1, <2>3, <2>6 DEF IsActive
      <3>2. forks'[i] = forks[i]
        BY <1>0, <2>6, OtherEffect
      <3> QED
        BY <2>4, <3>1, <3>2
    <2> QED
      BY <2>5, <2>6
  <1>7. NumberInv'
    <2>1. SUFFICES ASSUME NEW i \in 1 .. Len(forks), i \notin blurred'
                   PROVE  number[i] = BlockNumber(i)
      BY <1>1, <1>2 DEF NumberInv, BlockNumber, IsActive, maps
    <2>2. i \notin blurred
      BY <1>1, <2>1
    <2> QED
      BY <2>2 DEF FInv, NumberInv
  <1>8. SharedInv'
    <2>1. /\ \A i \in 1 .. Len(forks) :
               /\ forks'[i].db["persistent"] = forks[i].db["persistent"]
               /\ forks'[i].state["persistent"] = forks[i].state["persistent"]
          /\ journaled_state'["persistent"] = journaled_state["persistent"]
      BY <1>0, OtherEffect
    <2>2. Remembered => Remembered'
      BY <1>1, <1>2, <2>1 DEF Remembered
    <2>3. Persistent(journaled_state', ActiveFork') = Persistent(journaled_state, ActiveFork)
      <3>1. CASE active = None
        <4>1. ActiveFork' = ActiveFork
          BY <1>1, <3>1 DEF ActiveFork
        <4> QED
          BY <2>1, <4>1 DEF Persistent
      <3>2. CASE active # None
        <4>1. PICK a \in 1 .. Len(forks) : a = active.id /\ a = active.idx
          BY <1>0, <3>2, ActiveIs
        <4>2. ActiveFork = forks[a] /\ ActiveFork' = forks'[a]
          BY <1>1, <3>2, <4>1 DEF ActiveFork
        <4> QED
          BY <2>1, <4>2 DEF Persistent
      <3> QED
        BY <3>1, <3>2
    <2> QED
      BY <1>1, <2>2, <2>3 DEF FInv, SharedInv
  <1>9. SnapshotsInv'
    BY <1>0, <1>1, <1>2, SnapshotsSameForks DEF FInv
  <1> QED
    BY <1>0, <1>4, <1>5, <1>6, <1>7, <1>8, <1>9 DEF FInv

\* A snapshot that was just taken.
LEMMA SnapshotTaken ==
    ASSUME FInv, NEW s, s.active = active, s.state = journaled_state, s.fork = ActiveFork,
           s.env = env, s.promise = Promise,
           active # None => s.fork_id = issued_local_fork_ids[active.id]
    PROVE  IF s.active = None THEN MemorySnapshot(s) ELSE ForkSnapshot(s)
  <1>0. TInv /\ SharedInv
    BY DEF FInv
  <1>1. /\ s.promise.own = own /\ s.promise.number = number /\ s.promise.base = base
        /\ s.promise.blurred = blurred /\ s.promise.shared = shared /\ s.promise.sure = sure
    BY <1>0, PromiseIs
  <1>2. CASE active = None
    <2>1. StartsWith(journaled_state, base, blurred) /\ sure # "forgot"
      BY <1>2 DEF FInv, Base, NotSelected
    <2>2. ActiveFork.db = mem_db
      BY <1>0, <1>2, ActiveIs
    <2>3. sure = "yes" => /\ mem_db["persistent"] = None
                          /\ journaled_state["persistent"] # None
                               => journaled_state["persistent"] = shared
                          /\ journaled_state["persistent"] = None => shared = 0
      BY <1>0 DEF SharedInv, Remembered
    <2>4. MemorySnapshot(s)
      BY <1>1, <2>1, <2>2, <2>3 DEF MemorySnapshot
    <2> QED
      BY <1>2, <2>4
  <1>3. CASE active # None
    <2>1. PICK id \in 1 .. Len(forks) : id = active.id /\ id = active.idx /\ ActiveFork = forks[id]
      BY <1>0, <1>3, ActiveIs
    <2>2. /\ issued_local_fork_ids[id] \in 1 .. Len(multi)
          /\ created_forks[issued_local_fork_ids[id]] = id
          /\ id \in 1 .. Len(own)
          /\ id \in 1 .. Len(number)
      BY <1>0 DEF TInv, Maps
    <2>3. StartsWith(init_journaled_state, base, blurred)
      BY <1>3 DEF FInv, Base
    <2>4. id \notin blurred => own[id] = Ordinary(journaled_state, forks[id]) /\ number[id] = env
      BY <1>3, <2>1 DEF FInv, OwnInv, NumberInv, BlockNumber, IsActive
    <2>5. sure = "yes" => Persistent(journaled_state, ActiveFork) = shared
      BY <1>0, SharedReads
    <2>6. ForkSnapshot(s)
      BY <1>1, <1>3, <2>1, <2>2, <2>3, <2>4, <2>5 DEF ForkSnapshot
    <2> QED
      BY <1>3, <2>6
  <1> QED
    BY <1>2, <1>3

LEMMA SnapshotFInv == ASSUME FInv, SnapshotState PROVE FInv'
  <1>0. TInv /\ TInv'
    BY SnapshotTInv DEF FInv
  <1>1. UNCHANGED <<mem_db, init_journaled_state, active, maps, forks, multi,
                    journaled_state, env, writes, rounds, own, number, base, blurred, shared, sure>>
    BY DEF SnapshotState, ghost
  <1>2. NotSelected' /\ Base'
    BY <1>1 DEF FInv, NotSelected, Base
  <1>3. OwnInv' /\ NumberInv'
    BY <1>1 DEF FInv, OwnInv, NumberInv, BlockNumber, IsActive, maps
  <1>4. SharedInv'
    BY <1>1 DEF FInv, SharedInv, Remembered, ActiveFork
  <1>5. SnapshotsInv'
    <2>1. PICK s \in SnapshotType :
              /\ state_snapshots' = Append(state_snapshots, s)
              /\ s.active = active
              /\ active # None => s.fork_id = issued_local_fork_ids[active.id]
              /\ s.fork = ActiveFork
              /\ s.state = journaled_state
              /\ s.env = env
              /\ s.promise = Promise
      BY <1>0, SnapshotEffect
    <2>2. IF s.active = None THEN MemorySnapshot(s) ELSE ForkSnapshot(s)
      BY <2>1, SnapshotTaken
    <2>3. /\ Len(state_snapshots) \in Nat
          /\ Len(state_snapshots') = Len(state_snapshots) + 1
          /\ state_snapshots'[Len(state_snapshots) + 1] = s
          /\ \A k \in 1 .. Len(state_snapshots) : state_snapshots'[k] = state_snapshots[k]
      BY <1>0, <2>1, SequenceAppend DEF TInv, FTypeOK
    <2>4. SUFFICES ASSUME NEW n \in 1 .. Len(state_snapshots')
                   PROVE  IF state_snapshots'[n].active = None THEN MemorySnapshot(state_snapshots'[n])
                          ELSE ForkSnapshot(state_snapshots[n])'
      BY DEF SnapshotsInv
    <2>5. PICK t : t = state_snapshots'[n]
      OBVIOUS
    <2>6. IF t.active = None THEN MemorySnapshot(t) ELSE ForkSnapshot(t)
      <3>1. n = Len(state_snapshots) + 1 \/ n \in 1 .. Len(state_snapshots)
        BY <2>3
      <3> QED
        BY <2>2, <2>3, <2>5, <3>1 DEF FInv, SnapshotsInv
    <2>7. ForkSnapshot(state_snapshots[n])' <=> ForkSnapshot(t)
      BY <1>1, <2>5 DEF ForkSnapshot, maps
    <2> QED
      BY <2>5, <2>6, <2>7
  <1> QED
    BY <1>0, <1>2, <1>3, <1>4, <1>5 DEF FInv

LEMMA DeleteFInv ==
    ASSUME FInv, NEW n \in 1 .. Len(state_snapshots), DeleteStateSnapshot(n) PROVE FInv'
  <1>0. TInv /\ TInv'
    BY DeleteTInv DEF FInv
  <1>1. /\ UNCHANGED <<mem_db, init_journaled_state, active, maps, forks, multi,
                       journaled_state, env, writes, rounds, own, number, base, blurred, shared,
                       sure>>
        /\ state_snapshots' = Marked(n, FALSE)
    BY DEF DeleteStateSnapshot, ghost
  <1>2. NotSelected' /\ Base'
    BY <1>1 DEF FInv, NotSelected, Base
  <1>3. OwnInv' /\ NumberInv'
    BY <1>1 DEF FInv, OwnInv, NumberInv, BlockNumber, IsActive, maps
  <1>4. SharedInv'
    BY <1>1 DEF FInv, SharedInv, Remembered, ActiveFork
  <1>5. SnapshotsInv'
    <2>1. /\ Len(state_snapshots') = Len(state_snapshots)
          /\ \A k \in 1 .. Len(state_snapshots) : Alike(state_snapshots'[k], state_snapshots[k])
      BY <1>0, <1>1, MarkedIs
    <2>2. /\ Len(forks') \in Nat /\ Len(forks) <= Len(forks')
          /\ Len(multi') \in Nat /\ Len(multi) <= Len(multi')
          /\ \A j \in 1 .. Len(multi) : created_forks'[j] = created_forks[j]
      BY <1>0, <1>1 DEF TInv, FTypeOK, maps
    <2> QED
      BY <1>0, <1>1, <2>1, <2>2, SnapshotsStay DEF FInv
  <1> QED
    BY <1>0, <1>2, <1>3, <1>4, <1>5 DEF FInv

LEMMA RevertMemoryFInv ==
    ASSUME FInv, TInv', SnapshotsInv', NEW n \in 1 .. Len(state_snapshots), NEW keep \in BOOLEAN,
           RevertState(n, keep), state_snapshots[n].active = None
    PROVE  FInv'
  <1>0. TInv
    BY DEF FInv
  <1>1. PICK s \in SnapshotType : s = state_snapshots[n]
    BY <1>0, SnapshotIs
  <1>2. /\ RevertMemory(s)
        /\ journaled_state' = s.state
        /\ env' = s.env
        /\ UNCHANGED <<init_journaled_state, multi>>
    BY <1>1 DEF RevertState
  <1>3. UNCHANGED <<active, maps, forks, own, number>> /\ mem_db' = s.fork.db
    BY <1>2 DEF RevertMemory
  <1>4. MemorySnapshot(s)
    BY <1>1 DEF FInv, SnapshotsInv
  <1>5. CASE active = None
    <2>1. /\ base' = s.promise.base
          /\ blurred' = blurred \cup s.promise.blurred
          /\ shared' = s.promise.shared
          /\ sure' = s.promise.sure
      BY <1>2, <1>5 DEF RevertMemory
    <2>2. StartsWith(s.state, s.promise.base, s.promise.blurred) /\ s.promise.sure # "forgot"
      BY <1>4 DEF MemorySnapshot
    <2>3. NotSelected'
      BY <1>2, <1>3, <2>1, <2>2 DEF FInv, NotSelected
    <2>4. Base'
      <3>1. StartsWith(s.state, s.promise.base, blurred')
        BY <2>1, <2>2 DEF StartsWith
      <3> QED
        BY <1>2, <1>3, <1>5, <2>1, <3>1 DEF Base
    <2>5. OwnInv' /\ NumberInv'
      BY <1>2, <1>3, <1>5, <2>1 DEF FInv, OwnInv, NumberInv, BlockNumber, IsActive, maps
    <2>6. SharedInv'
      <3>1. sure' # "forgot"
        BY <2>1, <2>2
      <3>2. ASSUME sure' = "yes" PROVE Remembered'
        <4>1. /\ s.fork.db["persistent"] = None
              /\ s.state["persistent"] # None => s.state["persistent"] = s.promise.shared
              /\ s.state["persistent"] = None => s.promise.shared = 0
          BY <1>4, <2>1, <3>2 DEF MemorySnapshot
        <4>2. /\ init_journaled_state["persistent"] = None
              /\ \A i \in 1 .. Len(forks) :
                    forks[i].state["persistent"] = None /\ forks[i].db["persistent"] = None
          BY <1>5, NothingIs DEF FInv, NotSelected
        <4> QED
          BY <1>2, <1>3, <2>1, <4>1, <4>2 DEF Remembered
      <3> QED
        BY <3>1, <3>2 DEF SharedInv
    <2> QED
      BY <2>3, <2>4, <2>5, <2>6 DEF FInv
  <1>6. CASE active # None
    <2>1. /\ blurred' = blurred \cup {active.id}
          /\ sure' = "no"
          /\ UNCHANGED <<base, shared>>
      BY <1>2, <1>6 DEF RevertMemory
    <2>2. NotSelected' /\ Base'
      BY <1>2, <1>3, <1>6, <2>1 DEF FInv, NotSelected, Base, StartsWith
    <2>3. OwnInv' /\ NumberInv'
      <3>1. SUFFICES ASSUME NEW i \in 1 .. Len(forks), i \notin blurred, i # active.id
                     PROVE  /\ own[i] = Ordinary(forks[i].state, forks[i])
                            /\ number[i] = multi[issued_local_fork_ids[i]].env
        BY <1>2, <1>3, <2>1 DEF OwnInv, NumberInv, BlockNumber, IsActive, maps
      <3> QED
        BY <3>1 DEF FInv, OwnInv, NumberInv, BlockNumber, IsActive
    <2>4. SharedInv'
      BY <2>1 DEF SharedInv
    <2> QED
      BY <2>2, <2>3, <2>4 DEF FInv
  <1> QED
    BY <1>5, <1>6

LEMMA RevertForkFInv ==
    ASSUME FInv, TInv', SnapshotsInv', NEW n \in 1 .. Len(state_snapshots), NEW keep \in BOOLEAN,
           RevertState(n, keep), state_snapshots[n].active # None
    PROVE  FInv'
  <1>0. TInv /\ SnapshotsInv
    BY DEF FInv
  <1>1. PICK s \in SnapshotType : s = state_snapshots[n]
    BY <1>0, SnapshotIs
  <1>2. /\ RevertFork(s)
        /\ journaled_state' = s.state
        /\ env' = s.env
        /\ UNCHANGED <<init_journaled_state, multi>>
    BY <1>1 DEF RevertState
  <1>3. /\ UNCHANGED <<mem_db, base>>
        /\ shared' = s.promise.shared
        /\ sure' = IF s.promise.sure = "yes" THEN "forgot" ELSE "no"
    BY <1>2 DEF RevertFork
  <1>4. PICK id : id = s.active.id
    OBVIOUS
  <1>5. /\ ForkSnapshot(s)
        /\ active # None
        /\ id \in 1 .. Len(forks)
        /\ id \in Ids
        /\ active' # None
        /\ active'.id = id
        /\ active'.idx = id
        /\ Len(forks') = Len(forks)
        /\ forks'[id] = s.fork
        /\ own'[id] = s.promise.own[id]
        /\ number'[id] = s.promise.number[id]
        /\ \A i \in 1 .. Len(forks) : i # id =>
             /\ forks'[i] = forks[i]
             /\ own'[i] = own[i]
             /\ number'[i] = number[i]
             /\ issued_local_fork_ids'[i] = issued_local_fork_ids[i]
        /\ \A i : i \in blurred' <=>
             \/ i # id /\ i \in blurred
             \/ i = id /\ i \in s.promise.blurred
             \/ active.id # id /\ i = active.id
    <2>1. RevertFork(state_snapshots[n]) /\ id = state_snapshots[n].active.id
      BY <1>1, <1>2, <1>4
    <2>2. ForkSnapshot(state_snapshots[n])
      BY <1>0, <2>1, RevertForkEffect
    <2>3. ForkSnapshot(s)
      BY <1>1, <2>2
    <2>4. /\ active # None
          /\ id \in 1 .. Len(forks)
          /\ id \in Ids
          /\ active' # None
          /\ active'.id = id
          /\ active'.idx = id
          /\ Len(forks') = Len(forks)
      BY <1>0, <2>1, RevertForkEffect
    <2>7. forks'[id] = state_snapshots[n].fork
      BY <1>0, <2>1, RevertForkEffect
    <2>8. own'[id] = state_snapshots[n].promise.own[id]
      BY <1>0, <2>1, RevertForkEffect
    <2>9. number'[id] = state_snapshots[n].promise.number[id]
      BY <1>0, <2>1, RevertForkEffect
    <2>5. \A i \in 1 .. Len(forks) : i # id =>
             /\ forks'[i] = forks[i]
             /\ own'[i] = own[i]
             /\ number'[i] = number[i]
             /\ issued_local_fork_ids'[i] = issued_local_fork_ids[i]
      BY <1>0, <2>1, RevertForkEffect
    <2>6. \A i : i \in blurred' <=>
             \/ i # id /\ i \in blurred
             \/ i = id /\ i \in state_snapshots[n].promise.blurred
             \/ active.id # id /\ i = active.id
      BY <1>0, <2>1, RevertForkEffect
    <2> QED
      BY <1>1, <2>3, <2>4, <2>5, <2>6, <2>7, <2>8, <2>9
  <1>6. /\ StartsWith(init_journaled_state, base, s.promise.blurred)
        /\ id \notin s.promise.blurred =>
              /\ s.promise.own[id] = Ordinary(s.state, s.fork)
              /\ s.promise.number[id] = s.env
        /\ s.promise.sure = "yes" => Persistent(s.state, s.fork) = s.promise.shared
    BY <1>4, <1>5 DEF ForkSnapshot
  <1>7. NotSelected'
    BY <1>5 DEF NotSelected
  <1>8. Base'
    <2>1. StartsWith(init_journaled_state, base, blurred)
      BY <1>5 DEF FInv, Base
    <2>2. ASSUME Ids \subseteq blurred, Ids \subseteq s.promise.blurred PROVE Ids \subseteq blurred'
      BY <1>5, <2>2
    <2>3. StartsWith(init_journaled_state, base, blurred')
      BY <1>6, <2>1, <2>2 DEF StartsWith
    <2> QED
      BY <1>2, <1>3, <1>5, <2>3 DEF Base
  <1>9. ASSUME NEW i \in 1 .. Len(forks), i \notin blurred', i # id
        PROVE  /\ own'[i] = Ordinary(forks'[i].state, forks'[i])
               /\ number'[i] = multi'[issued_local_fork_ids'[i]].env
    <2>1. i \notin blurred /\ i # active.id
      BY <1>5, <1>9
    <2>2. /\ own[i] = Ordinary(forks[i].state, forks[i])
          /\ number[i] = multi[issued_local_fork_ids[i]].env
      BY <2>1 DEF FInv, OwnInv, NumberInv, BlockNumber, IsActive
    <2> QED
      BY <1>2, <1>5, <1>9, <2>2
  <1>10. id \notin blurred' => /\ own'[id] = Ordinary(journaled_state', forks'[id])
                               /\ number'[id] = env'
    BY <1>2, <1>5, <1>6
  <1>11. OwnInv'
    BY <1>5, <1>9, <1>10 DEF OwnInv, IsActive
  <1>12. NumberInv'
    BY <1>5, <1>9, <1>10 DEF NumberInv, BlockNumber, IsActive
  <1>13. SharedInv'
    <2>1. ActiveFork' = s.fork
      BY <1>5 DEF ActiveFork
    <2> QED
      BY <1>2, <1>3, <1>6, <2>1 DEF SharedInv
  <1> QED
    BY <1>7, <1>8, <1>11, <1>12, <1>13 DEF FInv

LEMMA RevertFInv ==
    ASSUME FInv, NEW n \in 1 .. Len(state_snapshots), NEW keep \in BOOLEAN, RevertState(n, keep)
    PROVE  FInv'
  <1>0. TInv /\ TInv' /\ SnapshotsInv
    BY RevertTInv DEF FInv
  <1>1. /\ state_snapshots' = Marked(n, keep)
        /\ UNCHANGED <<init_journaled_state, multi>>
    BY DEF RevertState
  <1>2. /\ Len(state_snapshots') = Len(state_snapshots)
        /\ \A k \in 1 .. Len(state_snapshots) : Alike(state_snapshots'[k], state_snapshots[k])
    BY <1>0, <1>1, MarkedIs
  <1>3. Len(forks) \in Nat /\ Len(multi) \in Nat
    BY <1>0 DEF TInv, FTypeOK
  <1>4. CASE state_snapshots[n].active = None
    <2>1. RevertMemory(state_snapshots[n])
      BY <1>4 DEF RevertState
    <2>2. /\ UNCHANGED <<active, forks, created_forks>>
          /\ active # None => UNCHANGED base
      BY <2>1 DEF RevertMemory, maps
    <2>3. SnapshotsInv'
      BY <1>0, <1>1, <1>2, <1>3, <2>2, SnapshotsStay
    <2> QED
      BY <1>0, <1>4, <2>3, RevertMemoryFInv
  <1>5. CASE state_snapshots[n].active # None
    <2>1. RevertFork(state_snapshots[n])
      BY <1>5 DEF RevertState
    <2>2. PICK id : id = state_snapshots[n].active.id
      OBVIOUS
    <2>3. /\ active' # None
          /\ created_forks' = created_forks
          /\ Len(forks') = Len(forks)
      BY <1>0, <1>5, <2>1, <2>2, RevertForkEffect
    <2>4. UNCHANGED base
      BY <2>1 DEF RevertFork
    <2>5. SnapshotsInv'
      BY <1>0, <1>1, <1>2, <1>3, <2>3, <2>4, SnapshotsStay
    <2> QED
      BY <1>0, <1>5, <2>5, RevertForkFInv
  <1> QED
    BY <1>4, <1>5

-----------------------------------------------------------------------------
(* The invariant and the theorems                                          *)

LEMMA InitFInv == Init => FInv
  <1> SUFFICES ASSUME Init PROVE FInv
    OBVIOUS
  <1>0. TInv
    BY InitTInv
  <1>1. /\ mem_db = Nothing /\ init_journaled_state = Nothing /\ journaled_state = Nothing
        /\ state_snapshots = <<>> /\ base = None /\ blurred = {} /\ shared = 0 /\ sure = "yes"
    BY DEF Init
  <1>2. Base
    BY <1>1, NothingIs DEF Base, StartsWith
  <1>3. SnapshotsInv
    BY <1>1 DEF SnapshotsInv
  <1>4. CASE active = None
    <2>1. forks = <<>>
      <3>1. 1 \in Ids
        BY ForkBackendAssumption DEF Ids
      <3>2. [id |-> 1, idx |-> 1] \in [id : Ids, idx : Ids]
        BY <3>1
      <3> QED
        BY <1>4, <3>2, NoneApart DEF Init
    <2>2. NotSelected /\ OwnInv /\ NumberInv
      BY <1>1, <2>1 DEF NotSelected, OwnInv, NumberInv
    <2>3. SharedInv
      BY <1>1, <2>1, NothingIs DEF SharedInv, Remembered
    <2> QED
      BY <1>0, <1>2, <1>3, <2>2, <2>3 DEF FInv
  <1>5. CASE active # None
    <2>1. PICK block \in Blocks :
            /\ active = [id |-> 1, idx |-> 1]
            /\ forks = <<NewFork(block, Nothing)>>
            /\ multi = <<[block |-> block, env |-> block]>>
            /\ env = block
            /\ own = <<block>>
            /\ number = <<block>>
      BY <1>5 DEF Init
    <2>2. block \in Nat
      BY ForkBackendAssumption
    <2>3. PICK f \in ForkType : f = NewFork(block, Nothing)
      BY <2>2, NothingIs, ForkIs DEF NewFork
    <2>4. f.db = Nothing /\ f.block = block /\ f.state = Nothing
      BY <2>2, <2>3, NothingIs, ForkIs DEF NewFork
    <2>5. /\ Len(forks) = 1 /\ forks[1] = f /\ active.id = 1
          /\ own[1] = block /\ number[1] = block
      BY <2>1, <2>3
    <2>6. NotSelected
      BY <1>5 DEF NotSelected
    <2>7. OwnInv
      BY <1>1, <1>5, <2>4, <2>5, NothingIs DEF OwnInv, IsActive, Ordinary
    <2>8. NumberInv
      BY <1>5, <2>1, <2>5 DEF NumberInv, BlockNumber, IsActive
    <2>9. SharedInv
      BY <1>1, <2>4, <2>5, NothingIs DEF SharedInv, Remembered
    <2> QED
      BY <1>0, <1>2, <1>3, <2>6, <2>7, <2>8, <2>9 DEF FInv
  <1> QED
    BY <1>4, <1>5

LEMMA StutterFInv == ASSUME FInv, UNCHANGED vars PROVE FInv'
  <1>1. UNCHANGED <<mem_db, init_journaled_state, active, issued_local_fork_ids, created_forks,
                    forks, multi, state_snapshots, journaled_state, env, writes, own, number,
                    base, blurred, shared, sure>>
    BY DEF vars, maps, ghost
  <1>2. TInv' /\ NotSelected' /\ Base'
    BY <1>1 DEF FInv, TInv, FTypeOK, Maps, NotSelected, Base
  <1>3. OwnInv' /\ NumberInv'
    BY <1>1 DEF FInv, OwnInv, NumberInv, BlockNumber, IsActive
  <1>4. SharedInv'
    BY <1>1 DEF FInv, SharedInv, Remembered, ActiveFork
  <1>5. SnapshotsInv'
    BY <1>1 DEF FInv, SnapshotsInv, MemorySnapshot, ForkSnapshot
  <1> QED
    BY <1>2, <1>3, <1>4, <1>5 DEF FInv

LEMMA NextFInv == FInv /\ [Next]_vars => FInv'
  <1> SUFFICES ASSUME FInv, [Next]_vars PROVE FInv'
    OBVIOUS
  <1>0. /\ state_snapshots \in Seq(SnapshotType)
        /\ DOMAIN state_snapshots = 1 .. Len(state_snapshots)
    BY DEF FInv, TInv, FTypeOK
  <1>1. CASE \E slot \in Slots : Store(slot)
    BY <1>1, StoreFInv
  <1>2. CASE \E slot \in Slots : Load(slot)
    BY <1>2, LoadFInv
  <1>3. CASE SetBlockNumber
    BY <1>3, SetBlockNumberFInv
  <1>4. CASE EndTransaction
    BY <1>4, EndFInv
  <1>5. CASE \E block \in Blocks : CreateFork(block)
    BY <1>5, CreateFInv
  <1>6. CASE \E id \in LocalIds : SelectFork(id)
    BY <1>6, SelectFInv
  <1>7. CASE \E id \in LocalIds, block \in Blocks : RollFork(id, block)
    BY <1>7, RollFInv
  <1>8. CASE \E id \in LocalIds : TransactOther(id) \/ Transact(id)
    BY <1>8, OtherFInv, TransactFInv
  <1>9. CASE SnapshotState
    BY <1>9, SnapshotFInv
  <1>10. CASE \E n \in DOMAIN state_snapshots, keep \in BOOLEAN : RevertState(n, keep)
    BY <1>0, <1>10, RevertFInv
  <1>11. CASE \E n \in DOMAIN state_snapshots : DeleteStateSnapshot(n)
    BY <1>0, <1>11, DeleteFInv
  <1>12. CASE UNCHANGED vars
    BY <1>12, StutterFInv
  <1> QED
    BY <1>1, <1>2, <1>3, <1>4, <1>5, <1>6, <1>7, <1>8, <1>9, <1>10, <1>11, <1>12 DEF Next

\* What the invariant says of the forks is what a test sees.
LEMMA FInvOwn == FInv => OwnState
  <1> SUFFICES ASSUME FInv, NEW id \in LocalIds \ blurred PROVE View(id)["ordinary"] = own[id]
    BY DEF OwnState
  <1>1. TInv
    BY DEF FInv
  <1>2. Index(id) = id /\ id \in 1 .. Len(forks) /\ forks[id] \in ForkType
    BY <1>1, IndexIs
  <1>3. own[id] = Ordinary(IF IsActive(id) THEN journaled_state ELSE forks[id].state, forks[id])
    BY <1>2 DEF FInv, OwnInv
  <1>4. CASE IsActive(id)
    <2>1. ActiveFork = forks[id]
      BY <1>1, <1>4, ActiveIs DEF IsActive
    <2> QED
      BY <1>1, <1>3, <1>4, <2>1, ActiveIs DEF View
  <1>5. CASE ~IsActive(id)
    <2>1. View(id) = Read(forks[id].state, forks[id])
      BY <1>2, <1>5 DEF View
    <2>2. forks[id].state \in State
      BY <1>1, <1>2, ForksAre
    <2> QED
      BY <1>2, <1>3, <1>5, <2>1, <2>2, ReadIs
  <1> QED
    BY <1>4, <1>5

LEMMA FInvShared == FInv => SharedState
  BY ActiveIs, SharedReads DEF FInv, SharedState

LEMMA FInvNumber == FInv => BlockPreserved
  <1> SUFFICES ASSUME FInv, NEW id \in LocalIds \ blurred PROVE BlockNumber(id) = number[id]
    BY DEF BlockPreserved
  <1>1. id \in 1 .. Len(forks)
    BY IndexIs DEF FInv
  <1> QED
    BY <1>1 DEF FInv, NumberInv

(* Type correctness and the maps of the backend: after any creations,      *)
(* selections, rolls and reverts every local id is still the index of its  *)
(* fork, through a ForkId no other local id has, and the fork that is      *)
(* active is one of them (ensure_fork, ForkIds of backend/mod.rs).         *)
THEOREM ForkMaps == Spec => []TInv
  <1>1. FInv => TInv
    BY DEF FInv
  <1> QED
    BY <1>1, InitFInv, NextFInv, PTL DEF Spec

(* A fork keeps its own state: for any number of forks, blocks, writes,    *)
(* rolls and snapshots an ordinary account has in every fork the value     *)
(* written there last, across select_fork, roll_fork, transact and         *)
(* revert_state (the forks of README, Divergences, apart: among them one   *)
(* whose uncommitted write vm.transact has read over).                     *)
THEOREM OwnStateTrue == Spec => []OwnState
  BY InitFInv, NextFInv, FInvOwn, PTL DEF Spec

(* A persistent account is shared: select_fork and roll_fork merge its     *)
(* database entry and journaled state so that the fork that is active      *)
(* reads what was written last (until a merge finds it only loaded, see    *)
(* README, Divergences).                                                   *)
THEOREM SharedStateTrue == Spec => []SharedState
  BY InitFInv, NextFInv, FInvShared, PTL DEF Spec

(* The block number a test has set in a fork is there when it comes back:  *)
(* update_block stores it under the ForkId of the fork that is left, and   *)
(* no other fork has that ForkId.                                          *)
THEOREM BlockPreservedTrue == Spec => []BlockPreserved
  BY InitFInv, NextFInv, FInvNumber, PTL DEF Spec
=============================================================================
