------------------------- MODULE InvariantCampaign -------------------------
(***************************************************************************)
(* An invariant test of forge: the campaign of random call sequences       *)
(* (crates/evm/evm/src/executors/invariant/mod.rs and result.rs), the      *)
(* shrinking of a failed sequence (shrink.rs), and the replay of a failure *)
(* persisted by an earlier `forge test' (crates/forge/src/runner.rs).      *)
(*                                                                         *)
(* The contract under test is any deterministic machine: a call leads from *)
(* a state to a state, reverts, or is discarded by vm.assume.  A state is  *)
(* the storage with the block environment and the state of the cheatcodes: *)
(* the latter two outlive a call that reverts after a vm.warp, and `left'  *)
(* says what it leaves behind.  The fuzzer chooses calls freely.  A state  *)
(* in `fails' sets ds-test's global failure flag, which no later call      *)
(* clears.                                                                 *)
(***************************************************************************)
EXTENDS Naturals, Sequences, FiniteSets, SequencesExt

CONSTANTS
    Calls, Contracts,
    Runs, Depth,            \* config.runs, config.depth
    MaxAssumeRejects, ShrinkRunLimit,
    MaxTests                \* bound on invocations of forge test

ASSUME CampaignAssumption ==
    /\ {Runs, Depth, MaxAssumeRejects, ShrinkRunLimit, MaxTests} \subseteq Nat
    /\ \A c \in Contracts : DOMAIN c = {"step", "left", "broken", "broken_after", "fails",
                                        "fail_on_revert", "call_after_invariant"}

VARIABLES
    contract,       \* step, left, broken, broken_after, fails, and the configuration
    file,           \* the persisted failure, <<>> if there is none
    phase,          \* "start", "idle" between runs, "run", "shrink", "done"
    run,            \* InvariantTestRun
    runs,           \* completed runs
    failures,       \* InvariantFailures
    shrinker,       \* CallSequenceShrinker
    verdict,        \* what the test reports
    tests,
    seen            \* history: an invariant was broken when it could be asserted

vars == <<contract, file, phase, run, runs, failures, shrinker, verdict, tests, seen>>

NoError == [kind |-> "none", calls |-> <<>>]
NoRun == [inputs |-> <<>>, executor |-> [at |-> "s0", failed |-> FALSE],
          depth |-> 0, rejects |-> 0]
NoShrinker == [included |-> {}, index |-> 1, prev |-> 0, tries |-> 0]
Verdict(kind, calls) == [kind |-> kind, calls |-> calls]

Init ==
    /\ contract \in Contracts
    /\ file = <<>>
    /\ phase = "start"
    /\ run = NoRun
    /\ runs = 0
    /\ failures = [reverts |-> 0, error |-> NoError]
    /\ shrinker = NoShrinker
    /\ verdict = Verdict("none", <<>>)
    /\ tests = 0
    /\ seen = FALSE

-----------------------------------------------------------------------------
(* The executor.                                                           *)

Outcome(executor, call) == contract.step[call][executor.at]

\* commit, transact_raw: the storage of a reverted call is undone, its environment
\* and its cheatcodes are persisted all the same.
LeftBehind(executor, call) ==
    LET reverted == <<call, executor.at>>
    IN  IF reverted \in DOMAIN contract.left
        THEN [at |-> contract.left[reverted], failed |-> executor.failed]
        ELSE executor
Commit(executor, call) ==
    LET outcome == Outcome(executor, call)
    IN  IF outcome \in {"revert", "assume"}
        THEN LeftBehind(executor, call)
        ELSE [at |-> outcome,
              failed |-> executor.failed \/ outcome \in contract.fails]

\* is_success: the call did not revert and the global failure flag is clear.
InvariantHolds(executor) ==
    ~executor.failed /\ executor.at \notin contract.broken

AfterInvariantHolds(executor) ==
    ~executor.failed /\ executor.at \notin contract.broken_after

SetUp == NoRun.executor

\* The executor after each of the calls, if those with these indices are
\* replayed on the state after setUp.
Replay(calls, sequence) ==
    LET after[i \in 0 .. Len(calls)] ==
            IF i = 0 THEN SetUp
            ELSE IF i \in sequence THEN Commit(after[i - 1], calls[i])
            ELSE after[i - 1]
    IN  after

\* check_sequence: after the replay the invariant must hold.  A revert ends it as
\* a failure if fail_on_revert is set; a call rejected by vm.assume is passed over.
CheckSequence(calls, sequence) ==
    LET after == Replay(calls, sequence)
        last == after[Len(calls)]
    IN  /\ contract.fail_on_revert =>
               \A i \in sequence : Outcome(after[i - 1], calls[i]) # "revert"
        /\ InvariantHolds(last)
        /\ contract.call_after_invariant => AfterInvariantHolds(last)

-----------------------------------------------------------------------------
(* run_invariant_test: the persisted failure first.                        *)

\* Slip: the last call that may be replayed is not.
FailsEarlier ==
    /\ file # <<>>
    /\ ~CheckSequence(file, {i \in DOMAIN file : i < Depth})

\* At most depth calls of the file are replayed.
StillFails ==
    /\ file # <<>>
    /\ ~CheckSequence(file, DOMAIN file \cap 1 .. Depth)

StartTest ==
    /\ phase = "start"
    /\ tests < MaxTests
    /\ tests' = tests + 1
    /\ failures' = [reverts |-> 0, error |-> NoError]
    /\ runs' = 0
    /\ seen' = FALSE
    /\ IF StillFails
       THEN /\ phase' = "done"
            /\ verdict' = Verdict("replayed", file)
       ELSE IF ~InvariantHolds(SetUp)     \* prepare_test
       THEN /\ phase' = "done"
            /\ verdict' = Verdict("setup", <<>>)
       ELSE /\ phase' = "idle"
            /\ UNCHANGED verdict
    /\ UNCHANGED <<contract, file, run, shrinker>>

-----------------------------------------------------------------------------
(* invariant_fuzz.                                                         *)

StartRun ==
    /\ phase = "idle"
    /\ runs < Runs
    /\ ~(contract.fail_on_revert /\ failures.reverts > 0)
    /\ \E first \in Calls :      \* on a clone of the executor after setUp
          run' = [inputs |-> <<first>>, executor |-> SetUp, depth |-> 0, rejects |-> 0]
    /\ phase' = "run"
    /\ UNCHANGED <<contract, file, runs, failures, shrinker, verdict, tests, seen>>

\* The call under way, and what the fuzzer would generate next.
Running == phase = "run" /\ run.depth < Depth
Tx == Last(run.inputs)

\* The campaign ends with this error.
Fail(kind, reverts) ==
    /\ failures' = [reverts |-> reverts, error |-> [kind |-> kind, calls |-> run.inputs]]
    /\ run' = NoRun
    /\ phase' = "report"

\* Slip: a rejected call is not counted.
NotCounted(n) == n

Counted(n) == n + 1

\* vm.assume: nothing is committed, the input is dropped.
Discard ==
    /\ Running
    /\ Outcome(run.executor, Tx) = "assume"
    /\ IF Counted(run.rejects) > MaxAssumeRejects
       THEN Fail("rejects", failures.reverts)
       ELSE /\ \E next \in Calls :
                  run' = [inputs |-> Append(Front(run.inputs), next),
                          executor |-> run.executor, depth |-> run.depth,
                          rejects |-> Counted(run.rejects)]
            /\ UNCHANGED <<failures, phase>>
    /\ UNCHANGED <<contract, file, runs, shrinker, verdict, tests, seen>>

\* can_continue: the call is taken for irrelevant, whatever it left behind.
PopReverted(inputs, reverted) == IF reverted THEN Front(inputs) ELSE inputs

\* The call reverted or a handler has failed.
RevertedCall ==
    /\ Running
    /\ Outcome(run.executor, Tx) # "assume"
    /\ LET executor == Commit(run.executor, Tx)
           reverted == Outcome(run.executor, Tx) = "revert"
           counted == failures.reverts + 1
       IN  /\ reverted \/ executor.failed
           /\ IF contract.fail_on_revert
              THEN Fail("revert", counted)
              ELSE /\ failures' = [failures EXCEPT !.reverts = counted]
                   /\ \E next \in Calls :
                         run' = [inputs |-> Append(PopReverted(run.inputs, reverted), next),
                                 executor |-> executor, depth |-> run.depth + 1,
                                 rejects |-> run.rejects]
                   /\ UNCHANGED phase
    /\ UNCHANGED <<contract, file, runs, shrinker, verdict, tests, seen>>

\* Slip: only the end of a run is checked.
BrokenAtTheEnd(executor) == ~InvariantHolds(executor) /\ run.depth + 1 = Depth

Broken(executor) == ~InvariantHolds(executor)

\* assert_invariants; only the first error is recorded.
AssertInvariants ==
    /\ Running
    /\ Outcome(run.executor, Tx) \notin {"assume", "revert"}
    /\ LET executor == Commit(run.executor, Tx)
       IN  /\ ~executor.failed
           /\ seen' = (seen \/ ~InvariantHolds(executor))
           /\ IF Broken(executor) /\ failures.error = NoError
              THEN Fail("broken", failures.reverts)
              ELSE /\ \E next \in Calls :
                         run' = [inputs |-> Append(run.inputs, next),
                                 executor |-> executor, depth |-> run.depth + 1,
                                 rejects |-> run.rejects]
                   /\ UNCHANGED <<failures, phase>>
    /\ UNCHANGED <<contract, file, runs, shrinker, verdict, tests>>

\* afterInvariant and end_run.  The inputs hold the call generated next, which
\* is never executed.
EndRun ==
    /\ phase = "run"
    /\ run.depth = Depth
    /\ LET fails == /\ contract.call_after_invariant
                    /\ failures.error = NoError
                    /\ ~AfterInvariantHolds(run.executor)
       IN  /\ failures' = IF fails
                          THEN [failures EXCEPT !.error = [kind |-> "after",
                                                           calls |-> run.inputs]]
                          ELSE failures
           /\ seen' = (seen \/ fails)
    /\ runs' = runs + 1
    /\ run' = NoRun
    /\ phase' = "idle"
    /\ UNCHANGED <<contract, file, shrinker, verdict, tests>>

\* The timer ends the campaign, without an error.
TimedOut ==
    /\ Running
    /\ run' = NoRun
    /\ phase' = "report"
    /\ UNCHANGED <<contract, file, runs, failures, shrinker, verdict, tests, seen>>

EndCampaign ==
    /\ phase = "idle"
    /\ runs = Runs \/ (contract.fail_on_revert /\ failures.reverts > 0)
    /\ phase' = "report"
    /\ UNCHANGED <<contract, file, run, runs, failures, shrinker, verdict, tests, seen>>

-----------------------------------------------------------------------------
(* replay_error and shrink_sequence.                                       *)

\* The i-th of a set of indices.
Nth(ids, i) == CHOOSE n \in ids : Cardinality({m \in ids : m < n}) = i - 1

\* current: the calls left, in their order.
Kept(calls, included) == [k \in 1 .. Cardinality(included) |-> calls[Nth(included, k)]]

\* Slip: the failing call is not put back.
NotRestored(s) == s.included

\* complicate: the last call removed is put back.
Restored(s) == s.included \cup {s.prev}

\* Slip: every second call is tried.
SimplifyTwo(s, calls) ==
    IF s.index > Len(calls)
    THEN s
    ELSE [s EXCEPT !.included = @ \ {s.index}, !.prev = s.index, !.index = @ + 2]

\* simplify: the next call is removed, if there is one.
Simplify(s, calls) ==
    IF s.index > Len(calls)
    THEN s
    ELSE [included |-> s.included \ {s.index}, index |-> s.index + 1, prev |-> s.index,
          tries |-> s.tries]

Complicate(s, calls) ==
    Simplify([included |-> Restored(s), index |-> s.index, prev |-> 0, tries |-> s.tries], calls)

\* Nothing is left to remove, or the sequence did not fail to begin with.
Exhausted(s, calls, success) ==
    IF success THEN s.prev = 0 \/ s.index > Len(calls) ELSE s.index > Len(calls)

\* A campaign that ended: what is reported, or shrunk first.
Report ==
    /\ phase = "report"
    /\ LET error == failures.error
       IN  CASE error.kind = "none" ->
                  /\ verdict' = Verdict("pass", <<>>)
                  /\ phase' = "done"
                  /\ UNCHANGED shrinker
             [] error.kind = "rejects" ->
                  /\ verdict' = Verdict("rejects", <<>>)
                  /\ phase' = "done"
                  /\ UNCHANGED shrinker
             [] OTHER ->
                  /\ shrinker' = [NoShrinker EXCEPT !.included = DOMAIN error.calls]
                  /\ phase' = "shrink"
                  /\ UNCHANGED verdict
    /\ UNCHANGED <<contract, file, run, runs, failures, tests, seen>>

\* A turn of the loop.
Shrink ==
    /\ phase = "shrink"
    /\ shrinker.tries < ShrinkRunLimit
    /\ LET calls == failures.error.calls
           success == CheckSequence(calls, shrinker.included)
           counted == [shrinker EXCEPT !.tries = @ + 1]
       IN  /\ shrinker' = IF ~success THEN Simplify(counted, calls)
                          ELSE IF shrinker.prev = 0 THEN counted
                          ELSE Complicate(counted, calls)
           /\ phase' = IF Exhausted(shrinker, calls, success) THEN "replay" ELSE "shrink"
    /\ UNCHANGED <<contract, file, run, runs, failures, verdict, tests, seen>>

ShrinkLimitReached ==
    /\ phase = "shrink"
    /\ shrinker.tries = ShrinkRunLimit
    /\ phase' = "replay"
    /\ UNCHANGED <<contract, file, run, runs, failures, shrinker, verdict, tests, seen>>

\* replay_run collects traces only; the sequence is persisted and reported.
PersistAndReport ==
    /\ phase = "replay"
    /\ LET left == Kept(failures.error.calls, shrinker.included)
       IN  /\ verdict' = Verdict(failures.error.kind, left)
           /\ file' = IF left = <<>> THEN file ELSE left
    /\ phase' = "done"
    /\ UNCHANGED <<contract, run, runs, failures, shrinker, tests, seen>>

-----------------------------------------------------------------------------
\* forge test is called again, after the bug was fixed or as it is.  Only the
\* file is left of the first call.
Again ==
    /\ phase = "done"
    /\ tests < MaxTests
    /\ contract' \in {contract, [contract EXCEPT !.broken = {}]}
    /\ phase' = "start"
    /\ shrinker' = NoShrinker
    /\ UNCHANGED <<file, run, runs, failures, verdict, tests, seen>>

\* The work of one invocation.
Step ==
    \/ StartRun \/ Discard \/ RevertedCall \/ AssertInvariants \/ EndRun
    \/ EndCampaign \/ Report \/ Shrink \/ ShrinkLimitReached \/ PersistAndReport
    \/ StartTest

Next == Step \/ TimedOut \/ Again

Spec == Init /\ [][Next]_vars

\* A test is sequential code that waits for nobody.
FairSpec == Spec /\ WF_vars(Step)

-----------------------------------------------------------------------------
(* Properties.                                                             *)

\* A reverted call that is dropped from the inputs leaves nothing behind, or none
\* is dropped.
NothingLost ==
    \/ contract.fail_on_revert
    \/ \A left \in DOMAIN contract.left : contract.step[left[1]][left[2]] # "revert"

(* The reported sequence breaks the test: what is left after reverted and   *)
(* discarded inputs were dropped, and after shrinking removed and restored  *)
(* calls, still fails when replayed on the state after setUp.  A call that  *)
(* reverts after vm.warp is dropped with its warp: of a contract with such  *)
(* calls nothing is promised (README, Divergences).                         *)
ReportedFails ==
    phase = "done" /\ verdict.kind \in {"broken", "revert"} /\ NothingLost =>
        ~CheckSequence(verdict.calls, DOMAIN verdict.calls)

(* "Shrinks the failure case to its smallest sequence of calls" (shrink.rs) *)
(* in one pass: where more calls never make a failing sequence pass, the    *)
(* shrunk sequence has no call that could be left out.                      *)
SmallestIfMonotone ==
    phase = "done" /\ verdict.kind \in {"broken", "revert", "after"} =>
        LET case == failures.error.calls
            failing == {ids \in SUBSET DOMAIN case : ~CheckSequence(case, ids)}
            monotone == \A ids \in failing : \A i \in DOMAIN case : ids \cup {i} \in failing
            kept == shrinker.included
        IN  monotone /\ kept \in failing => \A i \in kept : kept \ {i} \notin failing

(* A test passes only if no state in which its invariant was due broke it,  *)
(* and fails for a broken invariant only if one did, over all runs, their   *)
(* discarded and reverted calls, and a timeout at any moment.               *)
VerdictHonest ==
    phase = "done" =>
        /\ verdict.kind = "pass" => ~seen
        /\ verdict.kind \in {"broken", "after"} => seen

(* A failure that was found stays found: as long as the code is the same,   *)
(* the next forge test replays the persisted sequence and fails again,      *)
(* unless a dropped call left something behind.                             *)
FailsAgain ==
    [][phase = "start" /\ phase' # "start" /\ verdict.kind \in {"broken", "revert"}
       /\ contract.broken # {} /\ NothingLost
       => phase' = "done" /\ verdict'.kind = "replayed"]_vars

(* Every invocation ends, however many inputs vm.assume rejects.            *)
Finishes == (phase = "run") ~> (phase = "done")

(* Not kept by the code (README, Divergences).                              *)
(* A counterexample holds calls that were made: that of a failing           *)
(* afterInvariant has one generated call more.                              *)
CaseWasExecuted ==
    failures.error.kind = "after" => Len(failures.error.calls) <= Depth

(* ReportedFails for every contract.                                        *)
AlwaysReportedFails ==
    phase = "done" /\ verdict.kind \in {"broken", "revert"} =>
        ~CheckSequence(verdict.calls, DOMAIN verdict.calls)

(* An error that was found is what the test reports.                        *)
ErrorsKept ==
    [][failures.error # NoError /\ phase # "start" =>
          failures'.error = failures.error]_vars
=============================================================================
