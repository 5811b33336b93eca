----------------------- MODULE InvariantCampaignProofs -----------------------
(***************************************************************************)
(* Theorems about InvariantCampaign, for any contracts, numbers of runs,   *)
(* depths and limits.  What a replay reaches, call by call, is shown by    *)
(* taking the first place at which it would be otherwise (LeastIndex).     *)
(***************************************************************************)
EXTENDS InvariantCampaign, FiniteSetTheorems, TLAPS

Kinds == {"none", "rejects", "revert", "broken", "after"}

\* An invariant was broken iff the campaign has an error to show for it.
ErrorShown ==
    /\ failures \in [reverts : Nat, error : [kind : Kinds, calls : Seq(Calls)]]
    /\ failures.error.kind = "none" => failures.error = NoError
    /\ seen \in BOOLEAN
    /\ seen => failures.error.kind # "none"
    /\ failures.error.kind \in {"broken", "after"} => seen

\* The inputs of a run are the call of every depth, and the one under way; an
\* error has no more of them.
Inputs ==
    /\ phase = "run" => /\ run.inputs \in Seq(Calls)
                        /\ run.depth \in 0 .. Depth
                        /\ Len(run.inputs) \in 1 .. run.depth + 1
    /\ Len(failures.error.calls) <= Depth + 1

CInv == ErrorShown /\ Inputs /\ VerdictHonest

-----------------------------------------------------------------------------
(* Shrinking                                                               *)

Case == failures.error.calls

Failing == {ids \in SUBSET DOMAIN Case : ~CheckSequence(Case, ids)}

\* More calls never make a failing sequence pass.
Monotone == \A ids \in Failing : \A i \in DOMAIN Case : ids \cup {i} \in Failing

\* The last sequence that was seen to fail: the call removed from it is
\* being tried.
LastFailing == shrinker.included \cup ({shrinker.prev} \cap DOMAIN Case)

(* A turn of the loop for every call, in their order.  A call before       *)
(* `index' that is still there could not be left out of the last failing   *)
(* sequence.                                                               *)
Shrinking ==
    /\ shrinker \in [included : SUBSET DOMAIN Case, index : 1 .. Len(Case) + 1,
                     prev : 0 .. Len(Case), tries : Nat]
    /\ shrinker.tries = shrinker.index - 1
    /\ shrinker.prev = shrinker.index - 1
    /\ shrinker.prev \notin shrinker.included
    /\ \A i \in DOMAIN Case : i >= shrinker.index => i \in shrinker.included
    /\ Monotone => \A i \in LastFailing :
                       i < shrinker.prev => LastFailing \ {i} \notin Failing

\* No call can be left out, as far as failing sequences are monotone.
Smallest ==
    Monotone /\ shrinker.included \in Failing =>
        \A i \in shrinker.included : shrinker.included \ {i} \notin Failing

ShrinkInv ==
    /\ phase = "shrink" => Shrinking
    /\ phase = "replay" \/ (phase = "done" /\ verdict.kind \in {"broken", "revert", "after"}) =>
         shrinker.included \in SUBSET DOMAIN Case /\ Smallest

-----------------------------------------------------------------------------
(* The verdict                                                             *)

LEMMA FrontType ==
    ASSUME NEW s \in Seq(Calls), Len(s) >= 1, NEW next \in Calls
    PROVE  /\ Front(s) \in Seq(Calls)
           /\ Append(Front(s), next) \in Seq(Calls)
           /\ Len(Append(Front(s), next)) = Len(s)
  <1>1. Front(s) \in Seq(Calls) /\ Len(Front(s)) = Len(s) - 1
    BY DEF Front
  <1> QED
    BY <1>1

LEMMA AppendType ==
    ASSUME NEW s \in Seq(Calls), NEW next \in Calls
    PROVE  Append(s, next) \in Seq(Calls) /\ Len(Append(s, next)) = Len(s) + 1
  OBVIOUS

LEMMA InitCInv == Init => CInv
  <1> SUFFICES ASSUME Init PROVE CInv
    OBVIOUS
  <1>1. NoError \in [kind : Kinds, calls : Seq(Calls)] /\ NoError.kind = "none" /\ Len(NoError.calls) = 0
    BY DEF NoError, Kinds
  <1>2. failures.error = NoError /\ failures \in [reverts : Nat, error : [kind : Kinds, calls : Seq(Calls)]]
    BY <1>1 DEF Init
  <1>3. ErrorShown
    BY <1>1, <1>2 DEF Init, ErrorShown
  <1>4. Inputs
    BY <1>1, <1>2, CampaignAssumption DEF Init, Inputs
  <1> QED
    BY <1>3, <1>4 DEF Init, VerdictHonest, CInv

\* The campaign ends with an error.
LEMMA FailCInv ==
    ASSUME CInv, Running, NEW kind \in Kinds \ {"none"}, NEW reverts \in Nat, Fail(kind, reverts),
           seen' \in BOOLEAN, kind \in {"broken", "after"} => seen'
    PROVE  CInv'
  <1>1. /\ run.inputs \in Seq(Calls)
        /\ run.depth \in 0 .. Depth
        /\ Len(run.inputs) \in 1 .. run.depth + 1
    BY DEF CInv, Inputs, Running
  <1>2. /\ failures' = [reverts |-> reverts, error |-> [kind |-> kind, calls |-> run.inputs]]
        /\ phase' = "report"
    BY DEF Fail
  <1>3. failures'.error.kind = kind /\ failures'.error.calls = run.inputs
    BY <1>2
  <1>4. failures' \in [reverts : Nat, error : [kind : Kinds, calls : Seq(Calls)]]
    BY <1>1, <1>2
  <1>5. ErrorShown'
    BY <1>3, <1>4 DEF ErrorShown
  <1>6. Inputs'
    BY <1>1, <1>2, <1>3, CampaignAssumption DEF Inputs
  <1> QED
    BY <1>2, <1>5, <1>6 DEF CInv, VerdictHonest

\* The run goes on, or another one begins.
LEMMA GoOnCInv ==
    ASSUME CInv, phase' = "run",
           run'.inputs \in Seq(Calls), run'.depth \in 0 .. Depth,
           Len(run'.inputs) \in 1 .. run'.depth + 1,
           failures' \in [reverts : Nat, error : [kind : Kinds, calls : Seq(Calls)]],
           failures'.error = failures.error,
           seen' \in BOOLEAN, seen => seen', seen' => seen \/ failures.error.kind # "none"
    PROVE  CInv'
  <1>1. ErrorShown'
    BY DEF CInv, ErrorShown
  <1>2. Inputs'
    BY DEF CInv, Inputs
  <1> QED
    BY <1>1, <1>2 DEF CInv, VerdictHonest

\* Nothing changes about the errors, and no run is under way.
LEMMA BetweenCInv ==
    ASSUME CInv, phase' # "run", UNCHANGED <<failures, seen>>, VerdictHonest' PROVE CInv'
  <1>1. ErrorShown'
    BY DEF CInv, ErrorShown
  <1>2. Inputs'
    BY DEF CInv, Inputs
  <1> QED
    BY <1>1, <1>2 DEF CInv

LEMMA StartTestCInv == ASSUME CInv, StartTest PROVE CInv'
  <1>1. NoError \in [kind : Kinds, calls : Seq(Calls)] /\ NoError.kind = "none" /\ Len(NoError.calls) = 0
    BY DEF NoError, Kinds
  <1>2. /\ failures' = [reverts |-> 0, error |-> NoError]
        /\ seen' = FALSE
        /\ \/ phase' = "done" /\ verdict' = Verdict("replayed", file)
           \/ phase' = "done" /\ verdict' = Verdict("setup", <<>>)
           \/ phase' = "idle"
    BY DEF StartTest
  <1>3. /\ failures'.error = NoError
        /\ failures' \in [reverts : Nat, error : [kind : Kinds, calls : Seq(Calls)]]
    BY <1>1, <1>2
  <1>4. ErrorShown'
    BY <1>1, <1>2, <1>3 DEF ErrorShown
  <1>5. Inputs'
    BY <1>1, <1>2, <1>3, CampaignAssumption DEF Inputs
  <1>6. VerdictHonest'
    BY <1>2 DEF VerdictHonest, Verdict
  <1> QED
    BY <1>4, <1>5, <1>6 DEF CInv

LEMMA DiscardCInv == ASSUME CInv, Discard PROVE CInv'
  <1>1. /\ Running
        /\ UNCHANGED seen
        /\ seen \in BOOLEAN
        /\ failures \in [reverts : Nat, error : [kind : Kinds, calls : Seq(Calls)]]
    BY DEF Discard, CInv, ErrorShown
  <1>2. CASE Fail("rejects", failures.reverts)
    <2>1. "rejects" \in Kinds \ {"none"} /\ failures.reverts \in Nat
      BY <1>1 DEF Kinds
    <2> QED
      BY <1>1, <1>2, <2>1, FailCInv
  <1>3. CASE ~Fail("rejects", failures.reverts)
    <2>1. PICK next \in Calls :
              run' = [inputs |-> Append(Front(run.inputs), next), executor |-> run.executor,
                      depth |-> run.depth, rejects |-> Counted(run.rejects)]
      BY <1>3 DEF Discard
    <2>2. UNCHANGED <<failures, phase>> /\ phase = "run"
      BY <1>1, <1>3 DEF Discard, Running
    <2>3. /\ run.inputs \in Seq(Calls)
          /\ run.depth \in 0 .. Depth
          /\ Len(run.inputs) \in 1 .. run.depth + 1
      BY <2>2 DEF CInv, Inputs
    <2>4. run'.inputs = Append(Front(run.inputs), next) /\ run'.depth = run.depth
      BY <2>1
    <2>5. run'.inputs \in Seq(Calls) /\ Len(run'.inputs) = Len(run.inputs)
      BY <2>3, <2>4, FrontType
    <2> QED
      BY <1>1, <2>2, <2>3, <2>4, <2>5, GoOnCInv
  <1> QED
    BY <1>2, <1>3

LEMMA RevertedCallCInv == ASSUME CInv, RevertedCall PROVE CInv'
  <1>1. /\ Running
        /\ UNCHANGED seen
        /\ seen \in BOOLEAN
        /\ failures \in [reverts : Nat, error : [kind : Kinds, calls : Seq(Calls)]]
    BY DEF RevertedCall, CInv, ErrorShown
  <1>2. failures.reverts + 1 \in Nat
    BY <1>1
  <1>3. CASE contract.fail_on_revert
    <2>1. "revert" \in Kinds \ {"none"}
      BY DEF Kinds
    <2>2. Fail("revert", failures.reverts + 1)
      BY <1>3 DEF RevertedCall
    <2> QED
      BY <1>1, <1>2, <2>1, <2>2, FailCInv
  <1>4. CASE ~contract.fail_on_revert
    <2>1. PICK reverted : reverted = (Outcome(run.executor, Tx) = "revert")
      OBVIOUS
    <2>2. PICK next \in Calls :
              run' = [inputs |-> Append(PopReverted(run.inputs, reverted), next),
                      executor |-> Commit(run.executor, Tx), depth |-> run.depth + 1,
                      rejects |-> run.rejects]
      BY <1>4, <2>1 DEF RevertedCall
    <2>3. /\ failures' = [failures EXCEPT !.reverts = failures.reverts + 1]
          /\ UNCHANGED phase
          /\ phase = "run"
          /\ run.depth < Depth
      BY <1>1, <1>4 DEF RevertedCall, Running
    <2>4. /\ run.inputs \in Seq(Calls)
          /\ run.depth \in 0 .. Depth
          /\ Len(run.inputs) \in 1 .. run.depth + 1
      BY <2>3 DEF CInv, Inputs
    <2>5. run'.inputs = Append(PopReverted(run.inputs, reverted), next) /\ run'.depth = run.depth + 1
      BY <2>2
    <2>6. run'.inputs \in Seq(Calls) /\ Len(run'.inputs) \in {Len(run.inputs), Len(run.inputs) + 1}
      BY <2>4, <2>5, FrontType, AppendType DEF PopReverted
    <2>7. run'.depth \in 0 .. Depth /\ Len(run'.inputs) \in 1 .. run'.depth + 1
      BY <2>3, <2>4, <2>5, <2>6, CampaignAssumption, SMTT(30)
    <2>8. /\ failures' \in [reverts : Nat, error : [kind : Kinds, calls : Seq(Calls)]]
          /\ failures'.error = failures.error
      BY <1>1, <1>2, <2>3
    <2> QED
      BY <1>1, <2>3, <2>6, <2>7, <2>8, GoOnCInv
  <1> QED
    BY <1>3, <1>4

LEMMA AssertInvariantsCInv == ASSUME CInv, AssertInvariants PROVE CInv'
  <1>1. /\ Running
        /\ seen \in BOOLEAN
        /\ failures \in [reverts : Nat, error : [kind : Kinds, calls : Seq(Calls)]]
        /\ failures.error.kind = "none" => failures.error = NoError
    BY DEF AssertInvariants, CInv, ErrorShown
  <1>2. PICK executor : executor = Commit(run.executor, Tx)
    OBVIOUS
  <1>3. seen' = (seen \/ ~InvariantHolds(executor)) /\ Broken(executor) = ~InvariantHolds(executor)
    BY <1>2 DEF AssertInvariants, Broken
  <1>4. CASE Broken(executor) /\ failures.error = NoError
    <2>1. Fail("broken", failures.reverts)
      BY <1>2, <1>4 DEF AssertInvariants
    <2>2. "broken" \in Kinds \ {"none"} /\ failures.reverts \in Nat
      BY <1>1 DEF Kinds
    <2>3. seen' = TRUE
      BY <1>3, <1>4
    <2> QED
      BY <1>1, <2>1, <2>2, <2>3, FailCInv
  <1>5. CASE ~(Broken(executor) /\ failures.error = NoError)
    <2>1. PICK next \in Calls :
              run' = [inputs |-> Append(run.inputs, next), executor |-> executor,
                      depth |-> run.depth + 1, rejects |-> run.rejects]
      BY <1>2, <1>5 DEF AssertInvariants
    <2>2. UNCHANGED <<failures, phase>> /\ phase = "run" /\ run.depth < Depth
      BY <1>1, <1>2, <1>5 DEF AssertInvariants, Running
    <2>3. /\ run.inputs \in Seq(Calls)
          /\ run.depth \in 0 .. Depth
          /\ Len(run.inputs) \in 1 .. run.depth + 1
      BY <2>2 DEF CInv, Inputs
    <2>4. run'.inputs = Append(run.inputs, next) /\ run'.depth = run.depth + 1
      BY <2>1
    <2>5. run'.inputs \in Seq(Calls) /\ Len(run'.inputs) = Len(run.inputs) + 1
      BY <2>3, <2>4, AppendType
    <2>6. run'.depth \in 0 .. Depth /\ Len(run'.inputs) \in 1 .. run'.depth + 1
      BY <2>2, <2>3, <2>4, <2>5, CampaignAssumption, SMTT(30)
    <2>7. seen' \in BOOLEAN /\ (seen => seen') /\ (seen' => seen \/ failures.error.kind # "none")
      BY <1>1, <1>3, <1>5
    <2> QED
      BY <1>1, <2>2, <2>5, <2>6, <2>7, GoOnCInv
  <1> QED
    BY <1>4, <1>5

LEMMA EndRunCInv == ASSUME CInv, EndRun PROVE CInv'
  <1>1. /\ ErrorShown
        /\ Inputs
        /\ phase = "run"
        /\ phase' = "idle"
        /\ run.depth = Depth
    BY DEF CInv, EndRun
  <1>2. /\ run.inputs \in Seq(Calls)
        /\ Len(run.inputs) \in 1 .. Depth + 1
    BY <1>1 DEF Inputs
  <1>3. CASE /\ contract.call_after_invariant
             /\ failures.error = NoError
             /\ ~AfterInvariantHolds(run.executor)
    <2>1. /\ failures' = [failures EXCEPT !.error = [kind |-> "after", calls |-> run.inputs]]
          /\ seen' = TRUE
      BY <1>3 DEF EndRun
    <2>2. failures \in [reverts : Nat, error : [kind : Kinds, calls : Seq(Calls)]]
      BY <1>1 DEF ErrorShown
    <2>3. /\ failures'.error = [kind |-> "after", calls |-> run.inputs]
          /\ failures' \in [reverts : Nat, error : [kind : Kinds, calls : Seq(Calls)]]
      BY <1>2, <2>1, <2>2 DEF Kinds
    <2>4. ErrorShown'
      BY <2>1, <2>3 DEF ErrorShown
    <2>5. Inputs'
      BY <1>1, <1>2, <2>3, CampaignAssumption DEF Inputs
    <2> QED
      BY <1>1, <2>4, <2>5 DEF CInv, VerdictHonest
  <1>4. CASE ~(/\ contract.call_after_invariant
               /\ failures.error = NoError
               /\ ~AfterInvariantHolds(run.executor))
    <2>1. failures' = failures /\ seen' = (seen \/ FALSE)
      BY <1>4 DEF EndRun
    <2>2. seen' = seen
      BY <1>1, <2>1 DEF ErrorShown
    <2> QED
      BY <1>1, <2>1, <2>2, BetweenCInv DEF VerdictHonest
  <1> QED
    BY <1>3, <1>4

LEMMA StartRunCInv == ASSUME CInv, StartRun PROVE CInv'
  <1>1. PICK first \in Calls :
            run' = [inputs |-> <<first>>, executor |-> SetUp, depth |-> 0, rejects |-> 0]
    BY DEF StartRun
  <1>2. /\ run'.inputs = <<first>>
        /\ run'.depth = 0
    BY <1>1
  <1>3. <<first>> \in Seq(Calls) /\ Len(<<first>>) = 1
    OBVIOUS
  <1>4. phase' = "run" /\ UNCHANGED <<failures, seen>>
    BY DEF StartRun
  <1>5. failures' \in [reverts : Nat, error : [kind : Kinds, calls : Seq(Calls)]] /\ seen' \in BOOLEAN
    BY <1>4 DEF CInv, ErrorShown
  <1> QED
    BY <1>2, <1>3, <1>4, <1>5, GoOnCInv, CampaignAssumption

LEMMA ReportCInv == ASSUME CInv, Report PROVE CInv'
  <1>1. /\ phase' # "run"
        /\ UNCHANGED <<failures, seen>>
        /\ \/ failures.error.kind = "none" /\ verdict' = Verdict("pass", <<>>)
           \/ verdict' = Verdict("rejects", <<>>)
           \/ phase' = "shrink"
    <2>1. CASE failures.error.kind = "none"
      BY <2>1 DEF Report
    <2>2. CASE failures.error.kind = "rejects"
      BY <2>2 DEF Report
    <2>3. CASE failures.error.kind \notin {"none", "rejects"}
      BY <2>3 DEF Report
    <2> QED
      BY <2>1, <2>2, <2>3
  <1>2. VerdictHonest'
    BY <1>1 DEF VerdictHonest, Verdict, CInv, ErrorShown
  <1> QED
    BY <1>1, <1>2, BetweenCInv

LEMMA PersistCInv == ASSUME CInv, PersistAndReport PROVE CInv'
  <1>1. verdict' = Verdict(failures.error.kind, Kept(failures.error.calls, shrinker.included))
    BY DEF PersistAndReport
  <1>2. verdict'.kind = failures.error.kind
    BY <1>1 DEF Verdict
  <1>3. phase' # "run" /\ UNCHANGED <<failures, seen>>
    BY DEF PersistAndReport
  <1>4. (failures.error.kind \in {"broken", "after"} => seen) /\ failures.error.kind # "pass"
    BY DEF CInv, ErrorShown, Kinds
  <1>5. VerdictHonest'
    BY <1>2, <1>3, <1>4 DEF VerdictHonest
  <1> QED
    BY <1>3, <1>5, BetweenCInv

LEMMA NextCInv == CInv /\ [Next]_vars => CInv'
  <1> SUFFICES ASSUME CInv, [Next]_vars PROVE CInv'
    OBVIOUS
  <1>1. CASE TimedOut \/ EndCampaign \/ Shrink \/ ShrinkLimitReached \/ Again
    <2>1. UNCHANGED <<failures, seen>> /\ phase' \in {"report", "shrink", "replay", "start"}
      BY <1>1 DEF TimedOut, EndCampaign, Shrink, ShrinkLimitReached, Again
    <2> QED
      BY <2>1, BetweenCInv DEF VerdictHonest
  <1>2. CASE UNCHANGED vars
    BY <1>2 DEF vars, CInv, ErrorShown, Inputs, VerdictHonest
  <1> QED
    BY <1>1, <1>2, StartRunCInv, DiscardCInv, RevertedCallCInv, AssertInvariantsCInv, EndRunCInv,
       ReportCInv, PersistCInv, StartTestCInv DEF Next, Step

(* A test passes only if no state in which its invariant was due broke it, *)
(* and fails for a broken invariant only if one did: a run that goes on    *)
(* after a discarded or a reverted call loses no error, and the only error *)
(* that keeps a broken invariant from being recorded is one that was       *)
(* recorded before it.                                                     *)
THEOREM VerdictIsHonest == Spec => []VerdictHonest
  <1>1. Init => CInv
    BY InitCInv
  <1>2. CInv /\ [Next]_vars => CInv'
    BY NextCInv
  <1>3. CInv => VerdictHonest
    BY DEF CInv
  <1> QED
    BY <1>1, <1>2, <1>3, PTL DEF Spec

-----------------------------------------------------------------------------
(* The shrunk sequence                                                     *)

LEMMA SameCheck ==
    ASSUME NEW calls, NEW ids, contract' = contract
    PROVE  CheckSequence(calls, ids)' = CheckSequence(calls, ids)
  BY DEF CheckSequence, Replay, Commit, LeftBehind, Outcome, InvariantHolds, AfterInvariantHolds

LEMMA SameFailing ==
    ASSUME UNCHANGED <<contract, failures>>
    PROVE  UNCHANGED <<Case, Failing, Monotone>>
  <1>1. UNCHANGED Case
    BY DEF Case
  <1>2. PICK c : c = Case
    OBVIOUS
  <1>3. Failing = {ids \in SUBSET DOMAIN c : ~CheckSequence(c, ids)}
    BY <1>2 DEF Failing
  <1>4. Failing' = {ids \in SUBSET DOMAIN c : ~CheckSequence(c, ids)'}
    BY <1>1, <1>2 DEF Failing
  <1>5. \A ids : CheckSequence(c, ids)' = CheckSequence(c, ids)
    BY SameCheck
  <1>6. UNCHANGED Failing
    BY <1>3, <1>4, <1>5
  <1> QED
    BY <1>1, <1>6 DEF Monotone

LEMMA CaseType ==
    ASSUME CInv
    PROVE  /\ Len(Case) \in Nat
           /\ DOMAIN Case = 1 .. Len(Case)
           /\ Len(Case) <= Depth + 1
  <1>1. Case \in Seq(Calls) /\ Len(Case) <= Depth + 1
    BY DEF CInv, ErrorShown, Inputs, Case
  <1> QED
    BY <1>1

\* What could not be left out of a failing sequence cannot be left out of a
\* part of it.
LEMMA Tighter ==
    ASSUME CInv, Shrinking, Monotone, NEW i \in shrinker.included, i < shrinker.index
    PROVE  shrinker.included \ {i} \notin Failing
  <1>1. /\ i \in LastFailing
        /\ i < shrinker.prev
    BY CaseType DEF Shrinking, LastFailing
  <1>2. LastFailing \ {i} \notin Failing
    BY <1>1 DEF Shrinking
  <1>3. LastFailing = shrinker.included \cup {shrinker.prev} /\ shrinker.prev \in DOMAIN Case
    BY <1>1, CaseType DEF Shrinking, LastFailing
  <1>4. LastFailing \ {i} = (shrinker.included \ {i}) \cup {shrinker.prev}
    BY <1>1, <1>3 DEF Shrinking
  <1> QED
    BY <1>2, <1>3, <1>4 DEF Monotone

\* The next call is tried, after a sequence that fails.
LEMMA TriedNext ==
    ASSUME CInv, Shrinking, UNCHANGED <<contract, failures>>,
           shrinker.index <= Len(Case),
           NEW failing \in SUBSET DOMAIN Case,
           failing \in {shrinker.included, LastFailing},
           shrinker' = [included |-> failing \ {shrinker.index}, index |-> shrinker.index + 1,
                        prev |-> shrinker.index, tries |-> shrinker.tries + 1],
           Monotone => \A i \in failing : i < shrinker.index => failing \ {i} \notin Failing
    PROVE  Shrinking'
  <1>1. UNCHANGED <<Case, Failing, Monotone>>
    BY SameFailing
  <1>2. PICK s : s = shrinker
    OBVIOUS
  <1>3. /\ s.included \in SUBSET DOMAIN Case
        /\ s.index \in 1 .. Len(Case)
        /\ s.tries = s.index - 1
        /\ s.prev = s.index - 1
        /\ \A i \in DOMAIN Case : i >= s.index => i \in s.included
        /\ Len(Case) \in Nat
        /\ DOMAIN Case = 1 .. Len(Case)
    BY <1>2, CaseType DEF Shrinking
  <1>4. /\ shrinker'.included = failing \ {s.index}
        /\ shrinker'.index = s.index + 1
        /\ shrinker'.prev = s.index
        /\ shrinker'.tries = s.tries + 1
    BY <1>2
  <1>5. /\ s.included \subseteq failing
        /\ s.index \in failing
    BY <1>2, <1>3 DEF LastFailing
  <1>6. LastFailing' = failing
    BY <1>1, <1>3, <1>4, <1>5 DEF LastFailing
  <1>7. shrinker' \in [included : SUBSET DOMAIN Case', index : 1 .. Len(Case') + 1,
                       prev : 0 .. Len(Case'), tries : Nat]
    BY <1>1, <1>2, <1>3
  <1>8. \A i \in DOMAIN Case' : i >= shrinker'.index => i \in shrinker'.included
    BY <1>1, <1>3, <1>4, <1>5
  <1>9. Monotone' => \A i \in LastFailing' :
                         i < shrinker'.prev => LastFailing' \ {i} \notin Failing'
    BY <1>1, <1>2, <1>4, <1>6
  <1> QED
    BY <1>3, <1>4, <1>7, <1>8, <1>9 DEF Shrinking

LEMMA ShrinkShrinks == ASSUME CInv, ShrinkInv, Shrink PROVE ShrinkInv'
  <1>1. /\ phase = "shrink"
        /\ Shrinking
        /\ UNCHANGED <<contract, failures, verdict>>
    BY DEF Shrink, ShrinkInv
  <1>2. UNCHANGED <<Case, Failing, Monotone>>
    BY <1>1, SameFailing
  <1>3. PICK s : s = shrinker
    OBVIOUS
  <1>4. PICK success : success = CheckSequence(Case, s.included)
    OBVIOUS
  <1>5. PICK counted : counted = [included |-> s.included, index |-> s.index, prev |-> s.prev,
                                  tries |-> s.tries + 1]
    OBVIOUS
  <1>6. [s EXCEPT !.tries = s.tries + 1] = counted
    BY <1>1, <1>3, <1>5 DEF Shrinking
  <1>7. /\ shrinker' = IF ~success THEN Simplify(counted, Case)
                       ELSE IF s.prev = 0 THEN counted
                       ELSE Complicate(counted, Case)
        /\ phase' = IF Exhausted(s, Case, success) THEN "replay" ELSE "shrink"
    BY <1>3, <1>4, <1>6 DEF Shrink, Case
  <1>8. /\ s.included \in SUBSET DOMAIN Case
        /\ s.index \in 1 .. Len(Case) + 1
        /\ s.prev = s.index - 1
        /\ s.prev \notin s.included
        /\ Len(Case) \in Nat
        /\ DOMAIN Case = 1 .. Len(Case)
    BY <1>1, <1>3, CaseType DEF Shrinking
  <1>9. /\ (s.included \in Failing) = ~success
        /\ Monotone => \A i \in s.included : i < s.index => s.included \ {i} \notin Failing
    BY <1>1, <1>3, <1>4, <1>8, Tighter DEF Failing
  <1>10. CASE ~success
    <2>1. CASE s.index > Len(Case)
      <3>1. phase' = "replay" /\ shrinker'.included = s.included
        BY <1>5, <1>7, <1>10, <2>1 DEF Simplify, Exhausted
      <3>2. \A i \in s.included : i < s.index
        BY <1>8, <2>1
      <3>3. Smallest'
        BY <1>2, <1>9, <3>1, <3>2 DEF Smallest
      <3> QED
        BY <1>2, <1>8, <3>1, <3>3 DEF ShrinkInv
    <2>2. CASE ~(s.index > Len(Case))
      <3>1. /\ phase' = "shrink"
            /\ shrinker' = [included |-> s.included \ {s.index}, index |-> s.index + 1,
                            prev |-> s.index, tries |-> s.tries + 1]
        BY <1>5, <1>7, <1>10, <2>2 DEF Simplify, Exhausted
      <3>2. s.index <= Len(Case)
        BY <1>8, <2>2
      <3>3. Shrinking'
        BY <1>1, <1>3, <1>8, <1>9, <3>1, <3>2, TriedNext
      <3> QED
        BY <3>1, <3>3 DEF ShrinkInv
    <2> QED
      BY <2>1, <2>2
  <1>11. CASE success /\ s.prev = 0
    <2>1. phase' = "replay" /\ shrinker'.included = s.included
      BY <1>5, <1>7, <1>11 DEF Exhausted
    <2>2. Smallest'
      BY <1>2, <1>9, <1>11, <2>1 DEF Smallest
    <2> QED
      BY <1>2, <1>8, <2>1, <2>2 DEF ShrinkInv
  <1>12. CASE success /\ s.prev # 0
    <2>1. /\ LastFailing = s.included \cup {s.prev}
          /\ LastFailing \in SUBSET DOMAIN Case
          /\ LastFailing \ {s.prev} = s.included
      BY <1>3, <1>8, <1>12 DEF LastFailing
    <2>2. PICK failing : failing = LastFailing
      OBVIOUS
    <2>3. Monotone => \A i \in failing : i < s.index => failing \ {i} \notin Failing
      <3>1. SUFFICES ASSUME Monotone, NEW i \in failing, i < s.index
                     PROVE  failing \ {i} \notin Failing
        OBVIOUS
      <3>2. CASE i = s.prev
        BY <1>9, <1>12, <2>1, <2>2, <3>2
      <3>3. CASE i # s.prev
        <4>1. i < s.prev
          BY <1>8, <2>1, <2>2, <3>1, <3>3
        <4> QED
          BY <1>1, <1>3, <2>2, <3>1, <4>1 DEF Shrinking
      <3> QED
        BY <3>2, <3>3
    <2>4. CASE s.index > Len(Case)
      <3>1. /\ phase' = "replay"
            /\ shrinker' = [included |-> failing, index |-> s.index, prev |-> 0,
                            tries |-> s.tries + 1]
        BY <1>5, <1>7, <1>12, <2>1, <2>2, <2>4 DEF Simplify, Complicate, Restored, Exhausted
      <3>2. shrinker'.included = failing
        BY <3>1
      <3>3. \A i \in failing : i < s.index
        BY <1>8, <2>1, <2>2, <2>4
      <3>4. Smallest'
        BY <1>2, <2>3, <3>2, <3>3 DEF Smallest
      <3> QED
        BY <1>2, <2>1, <2>2, <3>1, <3>2, <3>4 DEF ShrinkInv
    <2>5. CASE ~(s.index > Len(Case))
      <3>1. /\ phase' = "shrink"
            /\ shrinker' = [included |-> failing \ {s.index}, index |-> s.index + 1,
                            prev |-> s.index, tries |-> s.tries + 1]
        BY <1>5, <1>7, <1>12, <2>1, <2>2, <2>5 DEF Simplify, Complicate, Restored, Exhausted
      <3>2. s.index <= Len(Case)
        BY <1>8, <2>5
      <3>3. Shrinking'
        BY <1>1, <1>3, <2>1, <2>2, <2>3, <3>1, <3>2, TriedNext
      <3> QED
        BY <3>1, <3>3 DEF ShrinkInv
    <2> QED
      BY <2>4, <2>5
  <1> QED
    BY <1>10, <1>11, <1>12

LEMMA LimitShrinks ==
    ASSUME CInv, ShrinkInv, ShrinkLimitReached, ShrinkRunLimit >= Depth + 1
    PROVE  ShrinkInv'
  <1>1. /\ Shrinking
        /\ shrinker.tries = ShrinkRunLimit
        /\ phase' = "replay"
        /\ UNCHANGED <<contract, failures, shrinker>>
    BY DEF ShrinkLimitReached, ShrinkInv
  <1>2. UNCHANGED <<Case, Failing, Monotone>>
    BY <1>1, SameFailing
  <1>3. /\ shrinker.included \in SUBSET DOMAIN Case
        /\ \A i \in shrinker.included : i < shrinker.index
    BY <1>1, CaseType, CampaignAssumption DEF Shrinking
  <1>4. Smallest
    BY <1>1, <1>3, Tighter DEF Smallest
  <1> QED
    BY <1>1, <1>2, <1>3, <1>4 DEF ShrinkInv, Smallest

LEMMA ReportShrinks == ASSUME CInv, Report PROVE ShrinkInv'
  <1>1. CASE failures.error.kind \in {"none", "rejects"}
    <2>1. phase' = "done" /\ verdict' \in {Verdict("pass", <<>>), Verdict("rejects", <<>>)}
      BY <1>1 DEF Report
    <2> QED
      BY <2>1 DEF ShrinkInv, Verdict
  <1>2. CASE failures.error.kind \notin {"none", "rejects"}
    <2>1. /\ phase' = "shrink"
          /\ shrinker' = [NoShrinker EXCEPT !.included = DOMAIN Case]
          /\ UNCHANGED Case
      BY <1>2 DEF Report, Case
    <2>2. shrinker' = [included |-> DOMAIN Case, index |-> 1, prev |-> 0, tries |-> 0]
      BY <2>1 DEF NoShrinker
    <2>3. Len(Case) \in Nat /\ DOMAIN Case = 1 .. Len(Case)
      BY CaseType
    <2>4. LastFailing' \subseteq 1 .. Len(Case)
      BY <2>1, <2>2, <2>3 DEF LastFailing
    <2>5. /\ shrinker'.included = DOMAIN Case
          /\ shrinker'.index = 1
          /\ shrinker'.prev = 0
          /\ shrinker'.tries = 0
      BY <2>2
    <2>6. shrinker' \in [included : SUBSET DOMAIN Case', index : 1 .. Len(Case') + 1,
                         prev : 0 .. Len(Case'), tries : Nat]
      <3>1. PICK n, ids : n \in Nat /\ n = Len(Case) /\ ids = DOMAIN Case
        BY <2>3
      <3>2. Len(Case') = n /\ DOMAIN Case' = ids
        BY <2>1, <3>1
      <3>3. 1 \in 1 .. n + 1 /\ 0 \in 0 .. n /\ ids \in SUBSET ids
        BY <3>1
      <3>4. shrinker' = [included |-> ids, index |-> 1, prev |-> 0, tries |-> 0]
        BY <2>2, <3>1
      <3>5. shrinker' \in [included : SUBSET ids, index : 1 .. n + 1, prev : 0 .. n, tries : Nat]
        BY <3>3, <3>4
      <3> QED
        BY <3>2, <3>5
    <2>7. \A i \in LastFailing' : ~(i < shrinker'.prev)
      BY <2>3, <2>4, <2>5
    <2>8. Shrinking'
      BY <2>1, <2>3, <2>5, <2>6, <2>7 DEF Shrinking
    <2> QED
      BY <2>1, <2>8 DEF ShrinkInv
  <1> QED
    BY <1>1, <1>2

LEMMA NextShrinks ==
    ASSUME CInv, ShrinkInv, [Next]_vars, ShrinkRunLimit >= Depth + 1
    PROVE  ShrinkInv'
  <1>1. CASE \/ StartRun \/ Discard \/ RevertedCall \/ AssertInvariants \/ EndRun
             \/ EndCampaign \/ TimedOut \/ Again
    <2>1. phase' \in {"run", "report", "idle", "start"}
      BY <1>1 DEF StartRun, Discard, RevertedCall, AssertInvariants, EndRun, EndCampaign, TimedOut,
                  Again, Fail, Running
    <2> QED
      BY <2>1 DEF ShrinkInv
  <1>2. CASE StartTest
    <2>1. \/ phase' = "done" /\ verdict' = Verdict("replayed", file)
          \/ phase' = "done" /\ verdict' = Verdict("setup", <<>>)
          \/ phase' = "idle"
      BY <1>2 DEF StartTest
    <2> QED
      BY <2>1 DEF ShrinkInv, Verdict
  <1>3. CASE PersistAndReport \/ UNCHANGED vars
    <2>1. /\ UNCHANGED <<contract, failures, shrinker>>
          /\ \/ phase = "replay" /\ phase' = "done"
             \/ UNCHANGED <<phase, verdict>>
      BY <1>3 DEF PersistAndReport, vars
    <2>2. UNCHANGED <<Case, Failing, Monotone>>
      BY <2>1, SameFailing
    <2>3. UNCHANGED <<Shrinking, Smallest>>
      BY <2>1, <2>2 DEF Shrinking, Smallest, LastFailing
    <2> QED
      BY <2>1, <2>2, <2>3 DEF ShrinkInv
  <1> QED
    BY <1>1, <1>2, <1>3, ShrinkShrinks, LimitShrinks, ReportShrinks DEF Next, Step

(* shrink.rs: "Shrinks the failure case to its smallest sequence of        *)
(* calls".  Where shrink_run_limit leaves a turn of the loop for every     *)
(* call of a failed run (the defaults are 5000 turns and 500 calls), one   *)
(* pass over the calls is enough for that, whatever the contract does, as  *)
(* long as more calls never make a failing sequence pass: what was kept    *)
(* when it was tried cannot be left out later.                             *)
THEOREM ShrunkToSmallest ==
    ASSUME ShrinkRunLimit >= Depth + 1
    PROVE  Spec => []SmallestIfMonotone
  <1>1. Init => CInv /\ ShrinkInv
    BY InitCInv DEF Init, ShrinkInv
  <1>2. CInv /\ ShrinkInv /\ [Next]_vars => (CInv /\ ShrinkInv)'
    BY NextCInv, NextShrinks
  <1>3. CInv /\ ShrinkInv => SmallestIfMonotone
    BY DEF ShrinkInv, Smallest, Monotone, Failing, Case, SmallestIfMonotone
  <1> QED
    BY <1>1, <1>2, <1>3, PTL DEF Spec

-----------------------------------------------------------------------------
(* What a replay does                                                      *)

\* A nonempty set of indices has a least one: induction over the calls of a
\* sequence rests on it.
LEMMA LeastIndex ==
    ASSUME NEW bad \in SUBSET Nat, bad # {}
    PROVE  \E n \in bad : \A m \in bad : ~(m < n)
  <1> DEFINE R == OpToRel(<, Nat)
  <1>1. \E n \in bad : \A m \in bad : ~(<<m, n>> \in R)
    <2>1. IsWellFoundedOn(R, Nat)
      BY NatLessThanWellFounded
    <2> HIDE DEF R
    <2> QED
      BY <2>1, WFMin, Zenon
  <1>2. \A m, n \in bad : m < n => <<m, n>> \in R
    BY DEF OpToRel
  <1> QED
    BY <1>1, <1>2

\* The equation that defines a replay.
Trace(calls, ids, g) ==
    g = [i \in 0 .. Len(calls) |->
            IF i = 0 THEN SetUp
            ELSE IF i \in ids THEN Commit(g[i - 1], calls[i])
            ELSE g[i - 1]]

LEMMA ReplayIs ==
    ASSUME NEW calls, NEW ids
    PROVE  Replay(calls, ids) = CHOOSE g : Trace(calls, ids, g)
  BY DEF Replay, Trace

LEMMA TraceSteps ==
    ASSUME NEW calls \in Seq(Calls), NEW ids, NEW g, Trace(calls, ids, g)
    PROVE  /\ DOMAIN g = 0 .. Len(calls)
           /\ g[0] = SetUp
           /\ \A i \in 1 .. Len(calls) :
                 g[i] = IF i \in ids THEN Commit(g[i - 1], calls[i]) ELSE g[i - 1]
  <1>1. Len(calls) \in Nat
    OBVIOUS
  <1> DEFINE E(i) == IF i = 0 THEN SetUp
                     ELSE IF i \in ids THEN Commit(g[i - 1], calls[i])
                     ELSE g[i - 1]
  <1>2. g = [i \in 0 .. Len(calls) |-> E(i)]
    BY DEF Trace
  <1>3. \A i \in 1 .. Len(calls) : i \in 0 .. Len(calls) /\ i # 0
    BY <1>1
  <1>4. 0 \in 0 .. Len(calls)
    BY <1>1
  <1> HIDE DEF E
  <1>5. DOMAIN g = 0 .. Len(calls) /\ \A i \in 0 .. Len(calls) : g[i] = E(i)
    BY <1>2
  <1> QED
    BY <1>3, <1>4, <1>5 DEF E

LEMMA TraceUnique ==
    ASSUME NEW calls \in Seq(Calls), NEW ids, NEW g, NEW h,
           Trace(calls, ids, g), Trace(calls, ids, h)
    PROVE  g = h
  <1>1. /\ Len(calls) \in Nat
        /\ DOMAIN g = 0 .. Len(calls) /\ DOMAIN h = 0 .. Len(calls)
        /\ g[0] = h[0]
        /\ \A i \in 1 .. Len(calls) :
              /\ g[i] = IF i \in ids THEN Commit(g[i - 1], calls[i]) ELSE g[i - 1]
              /\ h[i] = IF i \in ids THEN Commit(h[i - 1], calls[i]) ELSE h[i - 1]
    BY TraceSteps
  <1> DEFINE bad == {i \in 0 .. Len(calls) : g[i] # h[i]}
  <1>2. bad = {}
    <2> SUFFICES ASSUME bad # {} PROVE FALSE
      OBVIOUS
    <2>0. bad \in SUBSET Nat
      BY <1>1
    <2>1. PICK n \in bad : \A m \in bad : ~(m < n)
      BY <2>0, LeastIndex, Zenon
    <2>2. n \in 1 .. Len(calls) /\ n - 1 \in 0 .. Len(calls) /\ n - 1 < n
      BY <1>1
    <2>3. n - 1 \notin bad
      BY <2>1, <2>2
    <2>4. g[n - 1] = h[n - 1]
      BY <2>2, <2>3
    <2>5. g[n] = h[n]
      BY <1>1, <2>2, <2>4
    <2> QED
      BY <2>5
  <1>3. \A i \in 0 .. Len(calls) : g[i] = h[i]
    BY <1>2
  <1>4. g = [i \in 0 .. Len(calls) |-> g[i]] /\ h = [i \in 0 .. Len(calls) |-> h[i]]
    BY <1>1 DEF Trace
  <1> QED
    BY <1>3, <1>4

LEMMA TraceExists ==
    ASSUME NEW calls \in Seq(Calls), NEW ids
    PROVE  Trace(calls, ids, Replay(calls, ids))
  <1>1. Len(calls) \in Nat
    OBVIOUS
  <1> DEFINE Upto(n, g) == /\ DOMAIN g = 0 .. n
                           /\ g[0] = SetUp
                           /\ \A i \in 1 .. n :
                                 g[i] = IF i \in ids THEN Commit(g[i - 1], calls[i]) ELSE g[i - 1]
             bad == {n \in 0 .. Len(calls) : ~\E g : Upto(n, g)}
  <1>2. bad = {}
    <2> SUFFICES ASSUME bad # {} PROVE FALSE
      OBVIOUS
    <2>0. bad \in SUBSET Nat
      BY <1>1
    <2>1. PICK n \in bad : \A m \in bad : ~(m < n)
      BY <2>0, LeastIndex, Zenon
    <2>2. n # 0
      <3> DEFINE g0 == [i \in 0 .. 0 |-> SetUp]
      <3>1. Upto(0, g0)
        OBVIOUS
      <3> QED
        BY <3>1
    <2>3. n \in Nat /\ n - 1 \in 0 .. Len(calls) /\ n - 1 < n
      BY <1>1, <2>2
    <2>4. PICK g : Upto(n - 1, g)
      BY <2>1, <2>3
    <2> DEFINE last == IF n \in ids THEN Commit(g[n - 1], calls[n]) ELSE g[n - 1]
               h == [i \in 0 .. n |-> IF i = n THEN last ELSE g[i]]
    <2>5. Upto(n, h)
      <3> HIDE DEF last
      <3>1. DOMAIN h = 0 .. n /\ h[0] = SetUp
        BY <2>2, <2>3, <2>4
      <3>2. h[n] = last /\ \A i \in 0 .. n - 1 : h[i] = g[i]
        BY <2>3
      <3>3. ASSUME NEW i \in 1 .. n
            PROVE  h[i] = IF i \in ids THEN Commit(h[i - 1], calls[i]) ELSE h[i - 1]
        <4>1. CASE i = n
          <5>1. h[n - 1] = g[n - 1]
            BY <2>2, <2>3, <3>2
          <5> HIDE DEF h
          <5> QED
            BY <3>2, <4>1, <5>1 DEF last
        <4>2. CASE i # n
          <5>1. i \in 1 .. n - 1 /\ i \in 0 .. n - 1 /\ i - 1 \in 0 .. n - 1
            BY <2>3, <4>2
          <5>2. h[i] = g[i] /\ h[i - 1] = g[i - 1]
            BY <3>2, <5>1
          <5> HIDE DEF h
          <5> QED
            BY <2>4, <5>1, <5>2
        <4> QED
          BY <4>1, <4>2
      <3> QED
        BY <3>1, <3>3
    <2> HIDE DEF h
    <2> QED
      BY <2>5
  <1>3. PICK g : Upto(Len(calls), g)
    <2>1. Len(calls) \notin bad /\ Len(calls) \in 0 .. Len(calls)
      BY <1>1, <1>2
    <2> QED
      BY <2>1
  <1> DEFINE w == [i \in 0 .. Len(calls) |-> g[i]]
  <1>4. \E x : Trace(calls, ids, x)
    <2>1. \A i \in 0 .. Len(calls) : w[i] = g[i]
      OBVIOUS
    <2>2. ASSUME NEW i \in 0 .. Len(calls)
          PROVE  w[i] = IF i = 0 THEN SetUp
                        ELSE IF i \in ids THEN Commit(w[i - 1], calls[i]) ELSE w[i - 1]
      <3>1. CASE i = 0
        BY <1>3, <2>1, <3>1
      <3>2. CASE i # 0
        <4>1. i \in 1 .. Len(calls) /\ i - 1 \in 0 .. Len(calls)
          BY <1>1, <3>2
        <4>2. w[i] = g[i] /\ w[i - 1] = g[i - 1]
          BY <2>1, <4>1
        <4> HIDE DEF w
        <4> QED
          BY <1>3, <3>2, <4>1, <4>2
      <3> QED
        BY <3>1, <3>2
    <2>3. w = [i \in 0 .. Len(calls) |-> w[i]]
      OBVIOUS
    <2> HIDE DEF w
    <2>4. Trace(calls, ids, w)
      BY <2>2, <2>3 DEF Trace
    <2> QED
      BY <2>4
  <1> QED
    BY <1>4, ReplayIs, Zenon

\* Positions are counted from the left: there is one for every number, and a
\* larger number is a position further right.
LEMMA NthPlace ==
    ASSUME NEW len \in Nat, NEW places \in SUBSET (1 .. len)
    PROVE  /\ IsFiniteSet(places) /\ Cardinality(places) \in Nat
           /\ \A i \in 1 .. Cardinality(places) : Nth(places, i) \in places
           /\ \A i, j \in 1 .. Cardinality(places) : i < j => Nth(places, i) < Nth(places, j)
           /\ \A n \in places : \E i \in 1 .. Cardinality(places) : Nth(places, i) = n
  <1> DEFINE k == Cardinality(places)
             Rank(n) == Cardinality({m \in places : m < n})
  <1>1. IsFiniteSet(places) /\ k \in Nat
    <2>1. IsFiniteSet(1 .. len)
      BY FS_Interval
    <2>2. IsFiniteSet(places)
      BY <2>1, FS_Subset
    <2> QED
      BY <2>2, FS_CardinalityType
  <1>2. ASSUME NEW n \in places
        PROVE  Rank(n) \in 0 .. k - 1
    <2>1. IsFiniteSet(places \ {n}) /\ Cardinality(places \ {n}) = k - 1
      BY <1>1, FS_RemoveElement
    <2>2. {m \in places : m < n} \in SUBSET (places \ {n})
      OBVIOUS
    <2>3. IsFiniteSet({m \in places : m < n}) /\ Rank(n) <= k - 1
      BY <2>1, <2>2, FS_Subset
    <2>4. Rank(n) \in Nat
      BY <2>3, FS_CardinalityType
    <2> QED
      BY <2>3, <2>4, <1>1
  <1>3. ASSUME NEW m \in places, NEW n \in places, m < n
        PROVE  Rank(m) < Rank(n)
    <2> DEFINE L(x) == {y \in places : y < x}
    <2>1. IsFiniteSet(L(n))
      BY <1>1, FS_Subset
    <2>2. m \in L(n) /\ L(m) \in SUBSET (L(n) \ {m})
      <3>1. \A y \in places : y \in Int
        OBVIOUS
      <3>2. \A y \in places : y < m => y < n /\ y # m
        BY <3>1, <1>3
      <3> QED
        BY <3>2, <1>3
    <2>3. IsFiniteSet(L(n) \ {m}) /\ Cardinality(L(n) \ {m}) = Cardinality(L(n)) - 1
      BY <2>1, <2>2, FS_RemoveElement
    <2>4. Cardinality(L(m)) <= Cardinality(L(n) \ {m})
      BY <2>2, <2>3, FS_Subset
    <2>5. Rank(m) = Cardinality(L(m)) /\ Rank(n) = Cardinality(L(n))
      OBVIOUS
    <2>6. Rank(m) \in Int /\ Rank(n) \in Int
      BY <1>2
    <2> QED
      BY <2>3, <2>4, <2>5, <2>6
  <1> HIDE DEF Rank
  <1>4. ASSUME NEW m \in places, NEW n \in places, Rank(m) = Rank(n)
        PROVE  m = n
    <2>1. Rank(m) \in Int
      BY <1>2
    <2>2. m \in Int /\ n \in Int
      OBVIOUS
    <2>3. m < n \/ n < m \/ m = n
      BY <2>2
    <2> QED
      BY <2>1, <2>3, <1>3, <1>4
  <1>5. ASSUME NEW i \in 0 .. k - 1
        PROVE  \E n \in places : Rank(n) = i
    <2> SUFFICES ASSUME \A n \in places : Rank(n) # i PROVE FALSE
      OBVIOUS
    <2> DEFINE T == (0 .. k - 1) \ {i}
               f == [n \in places |-> Rank(n)]
    <2>1. IsFiniteSet(0 .. k - 1) /\ Cardinality(0 .. k - 1) = k
      <3>1. 0 \in Int /\ k - 1 \in Int
        BY <1>1
      <3> QED
        BY <3>1, <1>1, FS_Interval
    <2>2. IsFiniteSet(T) /\ Cardinality(T) = k - 1
      BY <2>1, FS_RemoveElement
    <2>3. f \in [places -> T]
      BY <1>2
    <2>4. Cardinality(T) < Cardinality(places)
      BY <2>2, <1>1
    <2> HIDE DEF T, f, k
    <2>5. \E x, y \in places : x # y /\ f[x] = f[y]
      BY <2>2, <2>3, <2>4, <1>1, FS_PigeonHole, Zenon
    <2> QED
      BY <2>5, <1>4 DEF f
  <1>6. ASSUME NEW i \in 1 .. k
        PROVE  Nth(places, i) \in places /\ Rank(Nth(places, i)) = i - 1
    <2>1. i - 1 \in 0 .. k - 1
      BY <1>1
    <2>2. \E n \in places : Rank(n) = i - 1
      BY <2>1, <1>5
    <2> QED
      BY <2>2, Zenon DEF Nth, Rank
  <1>7. ASSUME NEW i \in 1 .. k, NEW j \in 1 .. k, i < j
        PROVE  Nth(places, i) < Nth(places, j)
    <2>1. PICK m : m = Nth(places, i)
      OBVIOUS
    <2>2. PICK n : n = Nth(places, j)
      OBVIOUS
    <2>3. m \in places /\ n \in places /\ Rank(m) = i - 1 /\ Rank(n) = j - 1
      BY <2>1, <2>2, <1>6
    <2>4. m \in Int /\ n \in Int
      BY <2>3
    <2>5. ~(n < m)
      BY <2>3, <1>3, <1>7, <1>1
    <2>6. m # n
      BY <2>3, <1>7, <1>1
    <2> QED
      BY <2>1, <2>2, <2>4, <2>5, <2>6
  <1>8. ASSUME NEW n \in places
        PROVE  \E i \in 1 .. k : Nth(places, i) = n
    <2>1. Rank(n) + 1 \in 1 .. k /\ Rank(n) \in Int
      BY <1>1, <1>2
    <2>2. PICK m : m = Nth(places, Rank(n) + 1)
      OBVIOUS
    <2>3. m \in places /\ Rank(m) = (Rank(n) + 1) - 1
      BY <2>1, <2>2, <1>6
    <2>4. Rank(m) = Rank(n)
      BY <2>1, <2>3
    <2> QED
      BY <2>1, <2>2, <2>3, <2>4, <1>4
  <1> QED
    BY <1>1, <1>6, <1>7, <1>8

\* The executor at the end of a replay of all calls.
StateAfter(calls) == Replay(calls, DOMAIN calls)[Len(calls)]

\* One more call.
LEMMA ReplayAppend ==
    ASSUME NEW calls \in Seq(Calls), NEW call \in Calls
    PROVE  LET more == Append(calls, call)
               after == Replay(more, DOMAIN more)
           IN  /\ after[Len(calls)] = StateAfter(calls)
               /\ after[Len(calls) + 1] = Commit(StateAfter(calls), call)
  <1> DEFINE n == Len(calls)
             more == Append(calls, call)
             before == Replay(calls, DOMAIN calls)
             last == Commit(before[n], call)
             h == [i \in 0 .. n + 1 |-> IF i = n + 1 THEN last ELSE before[i]]
  <1>1. /\ n \in Nat /\ DOMAIN calls = 1 .. n
        /\ more \in Seq(Calls) /\ DOMAIN more = 1 .. n + 1 /\ Len(more) = n + 1
        /\ more[n + 1] = call /\ \A i \in 1 .. n : more[i] = calls[i]
    OBVIOUS
  <1>2. Trace(calls, DOMAIN calls, before)
    BY TraceExists
  <1>3. /\ before[0] = SetUp
        /\ \A i \in 1 .. n : before[i] = Commit(before[i - 1], calls[i])
    BY <1>1, <1>2, TraceSteps
  <1>4. StateAfter(calls) = before[n]
    BY DEF StateAfter
  <1> HIDE DEF before, last, more, n
  <1>5. h[n + 1] = last /\ \A i \in 0 .. n : h[i] = before[i]
    BY <1>1
  <1>6. h = [i \in 0 .. n + 1 |-> h[i]]
    OBVIOUS
  <1> HIDE DEF h
  <1>7. ASSUME NEW i \in 0 .. n + 1
        PROVE  h[i] = IF i = 0 THEN SetUp
                      ELSE IF i \in DOMAIN more THEN Commit(h[i - 1], more[i]) ELSE h[i - 1]
    <2>1. CASE i = 0
      BY <1>1, <1>3, <1>5, <2>1
    <2>2. CASE i \in 1 .. n
      <3>1. i \in 0 .. n /\ i - 1 \in 0 .. n /\ i # 0 /\ i \in DOMAIN more
        BY <1>1, <2>2
      <3>2. h[i] = before[i] /\ h[i - 1] = before[i - 1] /\ more[i] = calls[i]
        BY <1>1, <1>5, <2>2, <3>1
      <3> QED
        BY <1>3, <2>2, <3>1, <3>2
    <2>3. CASE i = n + 1
      <3>1. i # 0 /\ i \in DOMAIN more /\ i - 1 = n /\ n \in 0 .. n
        BY <1>1, <2>3
      <3>2. h[i] = last /\ h[i - 1] = before[n] /\ more[i] = call
        BY <1>1, <1>5, <2>3, <3>1
      <3> QED
        BY <3>1, <3>2 DEF last
    <2> QED
      BY <1>1, <2>1, <2>2, <2>3
  <1>8. Trace(more, DOMAIN more, h)
    BY <1>1, <1>6, <1>7 DEF Trace
  <1>9. Replay(more, DOMAIN more) = h
    BY <1>1, <1>8, TraceExists, TraceUnique
  <1>10. n \in 0 .. n
    BY <1>1
  <1> QED
    BY <1>4, <1>5, <1>9, <1>10 DEF n, more, last

\* Calls that are not replayed change nothing.
LEMMA Skipped ==
    ASSUME NEW calls \in Seq(Calls), NEW ids, NEW g, Trace(calls, ids, g),
           NEW a \in 0 .. Len(calls), NEW b \in 0 .. Len(calls), a <= b,
           \A i \in ids : ~(a < i /\ i <= b)
    PROVE  g[b] = g[a]
  <1>1. /\ Len(calls) \in Nat
        /\ \A i \in 1 .. Len(calls) :
              g[i] = IF i \in ids THEN Commit(g[i - 1], calls[i]) ELSE g[i - 1]
    BY TraceSteps
  <1> DEFINE bad == {i \in 0 .. Len(calls) : a <= i /\ i <= b /\ g[i] # g[a]}
  <1>2. bad = {}
    <2> SUFFICES ASSUME bad # {} PROVE FALSE
      OBVIOUS
    <2>0. bad \in SUBSET Nat
      BY <1>1
    <2>1. PICK n \in bad : \A m \in bad : ~(m < n)
      BY <2>0, LeastIndex, Zenon
    <2>2. n \in 0 .. Len(calls) /\ a <= n /\ n <= b /\ g[n] # g[a] /\ n # a
      OBVIOUS
    <2>3. /\ n \in 1 .. Len(calls) /\ n - 1 \in 0 .. Len(calls) /\ n - 1 < n
          /\ a <= n - 1 /\ n - 1 <= b /\ a < n
      BY <1>1, <2>2
    <2>4. n - 1 \notin bad
      BY <2>1, <2>3
    <2>5. g[n - 1] = g[a]
      BY <2>3, <2>4
    <2>6. n \notin ids
      BY <2>2, <2>3
    <2> QED
      BY <1>1, <2>2, <2>3, <2>5, <2>6
  <1>3. b \in 0 .. Len(calls) /\ a <= b /\ b <= b
    BY <1>1
  <1> QED
    BY <1>2, <1>3

\* The sequence that is left is replayed as the calls it was made of.
LEMMA KeptCheck ==
    ASSUME NEW calls \in Seq(Calls), NEW ids \in SUBSET DOMAIN calls
    PROVE  LET left == Kept(calls, ids)
           IN  /\ left \in Seq(Calls)
               /\ Len(left) <= Len(calls)
               /\ (CheckSequence(left, DOMAIN left) <=> CheckSequence(calls, ids))
  <1> DEFINE n == Len(calls)
             k == Cardinality(ids)
             left == Kept(calls, ids)
             g == Replay(calls, ids)
             At(j) == IF j = 0 THEN 0 ELSE Nth(ids, j)
             h == [j \in 0 .. k |-> g[At(j)]]
  <1>1. n \in Nat /\ DOMAIN calls = 1 .. n /\ ids \in SUBSET (1 .. n)
    OBVIOUS
  <1>2. /\ k \in Nat
        /\ \A i \in 1 .. k : Nth(ids, i) \in ids
        /\ \A i, j \in 1 .. k : i < j => Nth(ids, i) < Nth(ids, j)
        /\ \A m \in ids : \E i \in 1 .. k : Nth(ids, i) = m
    BY <1>1, NthPlace
  <1>3. k <= n
    <2>1. IsFiniteSet(1 .. n) /\ Cardinality(1 .. n) = n
      <3>1. 1 \in Int /\ n \in Int
        BY <1>1
      <3> HIDE DEF n
      <3> QED
        BY <1>1, <3>1, FS_Interval
    <2> QED
      BY <1>1, <2>1, FS_Subset
  <1> HIDE DEF k, n
  <1>4. left = [j \in 1 .. k |-> calls[Nth(ids, j)]]
    BY DEF Kept, k
  <1>5. \A m \in ids : calls[m] \in Calls
    BY <1>1
  <1>6. left \in [1 .. k -> Calls]
    BY <1>2, <1>4, <1>5
  <1>7. /\ left \in Seq(Calls) /\ Len(left) = k /\ DOMAIN left = 1 .. k
        /\ \A j \in 1 .. k : left[j] = calls[Nth(ids, j)]
    BY <1>2, <1>4, <1>6
  <1> HIDE DEF left
  <1>8. Trace(calls, ids, g)
    BY TraceExists
  <1> HIDE DEF g
  <1>9. g[0] = SetUp /\ \A i \in ids : g[i] = Commit(g[i - 1], calls[i])
    BY <1>1, <1>8, TraceSteps DEF n
  <1>10. ASSUME NEW j \in 0 .. k
         PROVE  At(j) \in 0 .. n
    <2>1. CASE j = 0
      BY <1>1, <2>1
    <2>2. CASE j # 0
      <3>1. Nth(ids, j) \in ids
        BY <1>2, <2>2
      <3> QED
        BY <1>1, <2>2, <3>1
    <2> QED
      BY <2>1, <2>2
  \* There is no index between one and the next.
  <1>11. ASSUME NEW j \in 1 .. k
         PROVE  /\ Nth(ids, j) \in ids /\ Nth(ids, j) - 1 \in 0 .. n
                /\ g[Nth(ids, j) - 1] = g[At(j - 1)]
    <2>1. PICK m \in ids : m = Nth(ids, j)
      BY <1>2
    <2>2. m \in 1 .. n /\ m - 1 \in 0 .. n
      BY <1>1
    <2>3. j - 1 \in 0 .. k
      BY <1>2
    <2>4. PICK a \in 0 .. n : a = At(j - 1)
      BY <1>10, <2>3
    <2>5. a <= m - 1
      <3>1. CASE j = 1
        BY <1>1, <2>2, <2>4, <3>1
      <3>2. CASE j # 1
        <4>1. j - 1 \in 1 .. k /\ j - 1 < j /\ j - 1 # 0
          BY <1>2, <3>2
        <4>2. Nth(ids, j - 1) < Nth(ids, j)
          BY <1>2, <4>1
        <4>3. a < m
          BY <2>1, <2>4, <4>1, <4>2
        <4> QED
          BY <1>1, <2>2, <4>3
      <3> QED
        BY <3>1, <3>2
    <2>6. ASSUME NEW i \in ids, a < i, i <= m - 1
          PROVE  FALSE
      <3>1. PICK l \in 1 .. k : Nth(ids, l) = i
        BY <1>2
      <3>2. i \in Int /\ i < m
        BY <1>1, <2>2, <2>6
      <3>3. l < j
        <4>1. l \in Int /\ j \in Int
          BY <1>2
        <4>2. l # j
          BY <2>1, <3>1, <3>2
        <4>3. ~(j < l)
          <5> SUFFICES ASSUME j < l PROVE FALSE
            OBVIOUS
          <5>1. m < i
            BY <1>2, <2>1, <3>1
          <5> QED
            BY <2>2, <3>2, <5>1
        <4> QED
          BY <4>1, <4>2, <4>3
      <3>4. j - 1 \in 1 .. k /\ j - 1 # 0 /\ (l = j - 1 \/ l < j - 1)
        BY <1>2, <3>3
      <3>5. a = Nth(ids, j - 1)
        BY <2>4, <3>4
      <3>6. i = a \/ i < a
        BY <1>2, <3>1, <3>4, <3>5
      <3> QED
        BY <1>1, <2>6, <3>2, <3>6
    <2>7. g[m - 1] = g[a]
      BY <1>8, <2>2, <2>5, <2>6, Skipped DEF n
    <2> QED
      BY <2>1, <2>2, <2>4, <2>7
  <1>12. h = [j \in 0 .. k |-> h[j]] /\ \A j \in 0 .. k : h[j] = g[At(j)]
    OBVIOUS
  <1> HIDE DEF h
  <1>13. ASSUME NEW j \in 0 .. k
         PROVE  h[j] = IF j = 0 THEN SetUp
                       ELSE IF j \in DOMAIN left THEN Commit(h[j - 1], left[j]) ELSE h[j - 1]
    <2>1. CASE j = 0
      BY <1>9, <1>12, <2>1
    <2>2. CASE j # 0
      <3>1. j \in 1 .. k /\ j - 1 \in 0 .. k
        BY <1>2, <2>2
      <3>2. g[Nth(ids, j)] = Commit(g[Nth(ids, j) - 1], calls[Nth(ids, j)])
        BY <1>2, <1>9, <3>1
      <3>3. h[j] = g[Nth(ids, j)] /\ h[j - 1] = g[At(j - 1)]
        BY <1>12, <2>2, <3>1
      <3>4. g[Nth(ids, j) - 1] = h[j - 1] /\ left[j] = calls[Nth(ids, j)]
        BY <1>7, <1>11, <3>1, <3>3
      <3> QED
        BY <1>7, <2>2, <3>1, <3>2, <3>3, <3>4
    <2> QED
      BY <2>1, <2>2
  <1>14. Trace(left, DOMAIN left, h)
    BY <1>7, <1>12, <1>13 DEF Trace
  <1>15. Replay(left, DOMAIN left) = h
    BY <1>7, <1>14, TraceExists, TraceUnique
  <1>16. h[k] = g[n]
    <2>1. k \in 0 .. k /\ n \in 0 .. n
      BY <1>1, <1>2
    <2>2. PICK a \in 0 .. n : a = At(k)
      BY <1>10, <2>1
    <2>3. ASSUME NEW i \in ids, a < i, i <= n
          PROVE  FALSE
      <3>1. PICK l \in 1 .. k : Nth(ids, l) = i
        BY <1>2
      <3>2. k # 0 /\ k \in 1 .. k /\ (l = k \/ l < k)
        BY <1>2
      <3>3. a = Nth(ids, k)
        BY <2>2, <3>2
      <3>4. i = a \/ i < a
        BY <1>2, <3>1, <3>2, <3>3
      <3> QED
        BY <1>1, <2>3, <3>4
    <2>4. a <= n
      BY <1>1
    <2>5. g[n] = g[a]
      BY <1>8, <2>1, <2>3, <2>4, Skipped DEF n
    <2> QED
      BY <1>12, <2>1, <2>2, <2>5
  <1>17. (\A i \in ids : Outcome(g[i - 1], calls[i]) # "revert")
            <=> (\A j \in DOMAIN left : Outcome(h[j - 1], left[j]) # "revert")
    <2>1. ASSUME NEW j \in 1 .. k
          PROVE  h[j - 1] = g[Nth(ids, j) - 1] /\ left[j] = calls[Nth(ids, j)] /\ Nth(ids, j) \in ids
      <3>1. j - 1 \in 0 .. k
        BY <1>2
      <3> QED
        BY <1>7, <1>11, <1>12, <3>1
    <2>2. \A j \in 1 .. k : Outcome(h[j - 1], left[j]) = Outcome(g[Nth(ids, j) - 1], calls[Nth(ids, j)])
      BY <2>1
    <2>3. ASSUME \A i \in ids : Outcome(g[i - 1], calls[i]) # "revert"
          PROVE  \A j \in 1 .. k : Outcome(h[j - 1], left[j]) # "revert"
      BY <2>1, <2>2, <2>3
    <2>4. ASSUME \A j \in 1 .. k : Outcome(h[j - 1], left[j]) # "revert", NEW i \in ids
          PROVE  Outcome(g[i - 1], calls[i]) # "revert"
      <3>1. PICK j \in 1 .. k : Nth(ids, j) = i
        BY <1>2
      <3>2. Outcome(h[j - 1], left[j]) = Outcome(g[i - 1], calls[i])
        BY <2>2, <3>1
      <3> QED
        BY <2>4, <3>2
    <2> QED
      BY <1>7, <2>3, <2>4
  <1>18. (CheckSequence(left, DOMAIN left) <=> CheckSequence(calls, ids))
    <2>1. CheckSequence(left, DOMAIN left) <=>
            (/\ contract.fail_on_revert => \A j \in DOMAIN left : Outcome(h[j - 1], left[j]) # "revert"
             /\ InvariantHolds(h[k])
             /\ contract.call_after_invariant => AfterInvariantHolds(h[k]))
      BY <1>7, <1>15 DEF CheckSequence
    <2>2. CheckSequence(calls, ids) <=>
            (/\ contract.fail_on_revert => \A i \in ids : Outcome(g[i - 1], calls[i]) # "revert"
             /\ InvariantHolds(g[n])
             /\ contract.call_after_invariant => AfterInvariantHolds(g[n]))
      BY DEF CheckSequence, g, n
    <2> QED
      BY <1>16, <1>17, <2>1, <2>2
  <1> QED
    BY <1>3, <1>7, <1>18 DEF left, n

-----------------------------------------------------------------------------
(* The reported sequence fails                                             *)

\* Errors whose calls are replayed to show them; that of afterInvariant has a
\* call that was not made.
Genuine == failures.error.kind \in {"broken", "revert"}

InCampaign == phase \in {"idle", "run", "report", "shrink", "replay"}

\* What was found fails when it is replayed.
FoundInv ==
    InCampaign =>
        /\ InvariantHolds(SetUp)
        /\ Genuine => DOMAIN Case \in Failing /\ Len(Case) <= Depth

\* The inputs before the one under way lead to the state of the run: those
\* that reverted or were discarded are not among them.
RunInv == phase = "run" => run.executor = StateAfter(Front(run.inputs))

\* The shrinker has a failing sequence to go back to.
StillFailing ==
    Genuine => /\ phase = "shrink" => LastFailing \in Failing
               /\ phase = "replay" => shrinker.included \in Failing

\* afterInvariant does not fail without any call.
AfterSafe == contract.call_after_invariant => AfterInvariantHolds(SetUp)

\* What was reported fails, and is in the file, until the contract changes.
ToldInv ==
    /\ verdict.kind \in {"broken", "revert"}
    /\ phase = "done" \/ (phase = "start" /\ contract.broken # {})
    => /\ verdict.calls \in Seq(Calls) /\ Len(verdict.calls) <= Depth
       /\ ~CheckSequence(verdict.calls, DOMAIN verdict.calls)
       /\ AfterSafe => file = verdict.calls /\ file # <<>>

ReproInv == FoundInv /\ RunInv /\ StillFailing /\ ToldInv

LEMMA SameAfter ==
    ASSUME NEW calls, contract' = contract
    PROVE  StateAfter(calls)' = StateAfter(calls)
  BY DEF StateAfter, Replay, Commit, LeftBehind, Outcome

LEMMA SameHolds ==
    ASSUME contract' = contract
    PROVE  /\ InvariantHolds(SetUp)' = InvariantHolds(SetUp)
           /\ AfterSafe' = AfterSafe
  BY DEF InvariantHolds, AfterSafe, AfterInvariantHolds

LEMMA FrontAppend ==
    ASSUME NEW s \in Seq(Calls), NEW next
    PROVE  Front(Append(s, next)) = s
  <1>1. Len(s) \in Nat /\ Len(Append(s, next)) = Len(s) + 1
    OBVIOUS
  <1>2. Front(Append(s, next)) = SubSeq(Append(s, next), 1, Len(s))
    BY <1>1 DEF Front
  <1> QED
    BY <1>1, <1>2

LEMMA FrontLast ==
    ASSUME NEW s \in Seq(Calls), Len(s) >= 1
    PROVE  /\ Front(s) \in Seq(Calls) /\ Last(s) \in Calls
           /\ Len(Front(s)) = Len(s) - 1
           /\ s = Append(Front(s), Last(s))
  <1>1. Len(s) \in Nat /\ DOMAIN s = 1 .. Len(s) /\ Len(s) \in 1 .. Len(s)
    OBVIOUS
  <1>2. Front(s) \in Seq(Calls) /\ Len(Front(s)) = Len(s) - 1
    BY <1>1 DEF Front
  <1>3. Last(s) = s[Len(s)] /\ Last(s) \in Calls
    BY <1>1 DEF Last
  <1>4. \A i \in 1 .. Len(s) - 1 : Front(s)[i] = s[i]
    BY <1>1 DEF Front
  <1>5. PICK t : t = Append(Front(s), Last(s))
    OBVIOUS
  <1>6. t \in Seq(Calls) /\ Len(t) = Len(s)
    <2>1. PICK f \in Seq(Calls) : f = Front(s)
      BY <1>2
    <2>2. PICK l \in Calls : l = Last(s)
      BY <1>3
    <2>3. t = Append(f, l)
      BY <1>5, <2>1, <2>2
    <2>4. t \in Seq(Calls) /\ Len(t) = Len(f) + 1
      BY <2>3
    <2>5. Len(f) = Len(s) - 1
      BY <1>2, <2>1
    <2> QED
      BY <1>1, <2>4, <2>5
  <1>7. \A i \in 1 .. Len(s) : t[i] = s[i]
    BY <1>1, <1>2, <1>3, <1>4, <1>5
  <1>8. t = s
    BY <1>6, <1>7
  <1> QED
    BY <1>2, <1>3, <1>5, <1>8

\* The call under way.
LEMMA UnderWay ==
    ASSUME CInv, ReproInv, Running
    PROVE  /\ run.inputs \in Seq(Calls) /\ Len(run.inputs) \in 1 .. Depth
           /\ Front(run.inputs) \in Seq(Calls)
           /\ run.executor = StateAfter(Front(run.inputs))
           /\ StateAfter(run.inputs) = Commit(run.executor, Tx)
           /\ ~InvariantHolds(Commit(run.executor, Tx))
                => ~CheckSequence(run.inputs, DOMAIN run.inputs)
           /\ contract.fail_on_revert /\ Outcome(run.executor, Tx) = "revert"
                => ~CheckSequence(run.inputs, DOMAIN run.inputs)
  <1>1. PICK all : all = run.inputs
    OBVIOUS
  <1>2. all \in Seq(Calls) /\ Len(all) \in 1 .. Depth
    <2>1. /\ run.inputs \in Seq(Calls)
          /\ run.depth \in 0 .. Depth /\ run.depth < Depth
          /\ Len(run.inputs) \in 1 .. run.depth + 1
      BY DEF CInv, Inputs, Running
    <2> QED
      BY <1>1, <2>1, CampaignAssumption
  <1>3. PICK done, tx : done = Front(all) /\ tx = Last(all)
    OBVIOUS
  <1>4. /\ done \in Seq(Calls) /\ tx \in Calls /\ Len(all) >= 1
        /\ Len(done) \in Nat /\ Len(all) = Len(done) + 1 /\ all = Append(done, tx)
    BY <1>2, <1>3, FrontLast
  <1>5. run.executor = StateAfter(done) /\ Tx = tx
    BY <1>1, <1>3 DEF ReproInv, RunInv, Running, Tx
  <1>6. PICK after : after = Replay(all, DOMAIN all)
    OBVIOUS
  <1>7. after[Len(done)] = run.executor /\ after[Len(done) + 1] = Commit(run.executor, tx)
    BY <1>4, <1>5, <1>6, ReplayAppend
  <1>8. StateAfter(all) = Commit(run.executor, tx)
    BY <1>4, <1>6, <1>7 DEF StateAfter
  <1>9. all[Len(all)] = tx /\ Len(all) \in DOMAIN all /\ Len(all) - 1 = Len(done)
    BY <1>4
  <1>10. ~InvariantHolds(Commit(run.executor, tx)) => ~CheckSequence(all, DOMAIN all)
    BY <1>4, <1>6, <1>7 DEF CheckSequence
  <1>11. contract.fail_on_revert /\ Outcome(run.executor, tx) = "revert"
           => ~CheckSequence(all, DOMAIN all)
    <2>1. after[Len(all) - 1] = run.executor
      BY <1>7, <1>9
    <2> QED
      BY <1>6, <1>9, <2>1 DEF CheckSequence
  <1> QED
    BY <1>1, <1>2, <1>3, <1>4, <1>5, <1>8, <1>10, <1>11

LEMMA InitRepro == Init => ReproInv
  BY DEF Init, ReproInv, FoundInv, RunInv, StillFailing, ToldInv, InCampaign, Verdict

\* The campaign ends with an error.
LEMMA FailRepro ==
    ASSUME CInv, ReproInv, Running, contract' = contract,
           NEW kind \in {"rejects", "revert", "broken"}, NEW reverts, Fail(kind, reverts),
           kind # "rejects" => ~CheckSequence(run.inputs, DOMAIN run.inputs)
    PROVE  ReproInv'
  <1>1. PICK all : all = run.inputs
    OBVIOUS
  <1>2. /\ phase' = "report" /\ phase = "run"
        /\ failures'.error.kind = kind /\ failures'.error.calls = all
    BY <1>1 DEF Fail, Running
  <1>3. Case' = all /\ Len(all) <= Depth
    BY <1>1, <1>2, UnderWay, CampaignAssumption DEF Case
  <1>4. CheckSequence(all, DOMAIN all)' = CheckSequence(all, DOMAIN all)
    BY SameCheck
  <1>5. Genuine' => DOMAIN Case' \in Failing'
    BY <1>1, <1>2, <1>3, <1>4 DEF Genuine, Failing
  <1>6. InvariantHolds(SetUp)'
    BY <1>2, SameHolds DEF ReproInv, FoundInv, InCampaign
  <1>7. FoundInv'
    BY <1>3, <1>5, <1>6 DEF FoundInv
  <1> QED
    BY <1>2, <1>7 DEF ReproInv, RunInv, StillFailing, ToldInv

\* The campaign goes on with the same error, if there is one.
LEMMA GoOnRepro ==
    ASSUME ReproInv, InCampaign, contract' = contract, failures'.error = failures.error,
           phase' \in {"idle", "run", "report"},
           phase' = "run" => run'.executor = StateAfter(Front(run.inputs))'
    PROVE  ReproInv'
  <1>1. Case' = Case /\ Genuine' = Genuine
    BY DEF Case, Genuine
  <1>2. Failing' = Failing
    <2>1. PICK c : c = Case
      OBVIOUS
    <2>2. \A ids : CheckSequence(c, ids)' = CheckSequence(c, ids)
      BY SameCheck
    <2>3. Failing = {ids \in SUBSET DOMAIN c : ~CheckSequence(c, ids)}
      BY <2>1 DEF Failing
    <2>4. Failing' = {ids \in SUBSET DOMAIN c : ~CheckSequence(c, ids)'}
      BY <1>1, <2>1 DEF Failing
    <2> QED
      BY <2>2, <2>3, <2>4
  <1>3. FoundInv'
    BY <1>1, <1>2, SameHolds DEF ReproInv, FoundInv
  <1> QED
    BY <1>3 DEF ReproInv, RunInv, StillFailing, ToldInv

LEMMA DiscardRepro == ASSUME CInv, ReproInv, Discard PROVE ReproInv'
  <1>1. Running /\ contract' = contract /\ InCampaign
    BY DEF Discard, Running, InCampaign
  <1>2. CASE Counted(run.rejects) > MaxAssumeRejects
    <2>1. Fail("rejects", failures.reverts)
      BY <1>2 DEF Discard
    <2> QED
      BY <1>1, <2>1, FailRepro
  <1>3. CASE ~(Counted(run.rejects) > MaxAssumeRejects)
    <2>1. PICK next \in Calls :
             run' = [inputs |-> Append(Front(run.inputs), next), executor |-> run.executor,
                     depth |-> run.depth, rejects |-> Counted(run.rejects)]
      BY <1>3 DEF Discard
    <2>2. PICK done \in Seq(Calls) : done = Front(run.inputs)
      BY <1>1, UnderWay
    <2>3. run'.executor = run.executor /\ run'.inputs = Append(done, next)
      BY <2>1, <2>2
    <2>4. Front(run'.inputs) = done
      BY <2>3, FrontAppend
    <2>5. run.executor = StateAfter(done)
      BY <1>1, <2>2, UnderWay
    <2>6. StateAfter(done)' = StateAfter(done)
      BY <1>1, SameAfter
    <2>7. phase' = "run" /\ failures'.error = failures.error
      BY <1>1, <1>3 DEF Discard, Running
    <2> QED
      BY <1>1, <2>3, <2>4, <2>5, <2>6, <2>7, GoOnRepro
  <1> QED
    BY <1>2, <1>3

LEMMA RevertedRepro == ASSUME CInv, NothingLost, ReproInv, RevertedCall PROVE ReproInv'
  <1>1. Running /\ contract' = contract /\ InCampaign
    BY DEF RevertedCall, Running, InCampaign
  <1>2. PICK executor : executor = Commit(run.executor, Tx)
    OBVIOUS
  <1>3. PICK outcome : outcome = Outcome(run.executor, Tx)
    OBVIOUS
  <1>4. outcome = "revert" \/ executor.failed
    BY <1>2, <1>3 DEF RevertedCall
  <1>5. CASE contract.fail_on_revert
    <2>1. Fail("revert", failures.reverts + 1)
      BY <1>5 DEF RevertedCall
    <2>2. ~CheckSequence(run.inputs, DOMAIN run.inputs)
      <3>1. executor.failed => ~InvariantHolds(executor)
        BY DEF InvariantHolds
      <3> QED
        BY <1>1, <1>2, <1>3, <1>4, <1>5, <3>1, UnderWay
    <2> QED
      BY <1>1, <2>1, <2>2, FailRepro
  <1>6. CASE ~contract.fail_on_revert
    <2>1. PICK next \in Calls :
             run' = [inputs |-> Append(PopReverted(run.inputs, outcome = "revert"), next),
                     executor |-> executor, depth |-> run.depth + 1, rejects |-> run.rejects]
      BY <1>2, <1>3, <1>6 DEF RevertedCall
    <2>2. phase' = "run" /\ failures'.error = failures.error
      <3>1. failures' = [failures EXCEPT !.reverts = failures.reverts + 1] /\ phase' = "run"
        BY <1>1, <1>6 DEF RevertedCall, Running
      <3>2. failures \in [reverts : Nat, error : [kind : Kinds, calls : Seq(Calls)]]
        BY DEF CInv, ErrorShown
      <3> QED
        BY <3>1, <3>2
    <2>3. PICK made \in Seq(Calls) : made = PopReverted(run.inputs, outcome = "revert")
      BY <1>1, UnderWay DEF PopReverted
    <2>4. StateAfter(made) = executor
      <3>1. CASE outcome = "revert"
        <4>1. made = Front(run.inputs)
          BY <2>3, <3>1 DEF PopReverted
        <4>2. executor = run.executor
          <5>1. <<Tx, run.executor.at>> \notin DOMAIN contract.left
            BY <1>3, <1>6, <3>1 DEF NothingLost, Outcome
          <5> QED
            BY <1>2, <1>3, <3>1, <5>1 DEF Commit, LeftBehind
        <4> QED
          BY <1>1, <4>1, <4>2, UnderWay
      <3>2. CASE outcome # "revert"
        <4>1. made = run.inputs
          BY <2>3, <3>2 DEF PopReverted
        <4> QED
          BY <1>1, <1>2, <4>1, UnderWay
      <3> QED
        BY <3>1, <3>2
    <2>5. run'.inputs = Append(made, next) /\ run'.executor = executor
      BY <2>1, <2>3
    <2>6. Front(run'.inputs) = made
      BY <2>5, FrontAppend
    <2>7. StateAfter(made)' = StateAfter(made)
      BY <1>1, SameAfter
    <2> QED
      BY <1>1, <2>2, <2>4, <2>5, <2>6, <2>7, GoOnRepro
  <1> QED
    BY <1>5, <1>6

LEMMA AssertRepro == ASSUME CInv, ReproInv, AssertInvariants PROVE ReproInv'
  <1>1. Running /\ contract' = contract /\ InCampaign
    BY DEF AssertInvariants, Running, InCampaign
  <1>2. PICK executor : executor = Commit(run.executor, Tx)
    OBVIOUS
  <1>3. CASE Broken(executor) /\ failures.error = NoError
    <2>1. Fail("broken", failures.reverts)
      BY <1>2, <1>3 DEF AssertInvariants
    <2>2. ~CheckSequence(run.inputs, DOMAIN run.inputs)
      BY <1>1, <1>2, <1>3, UnderWay DEF Broken
    <2> QED
      BY <1>1, <2>1, <2>2, FailRepro
  <1>4. CASE ~(Broken(executor) /\ failures.error = NoError)
    <2>1. /\ \E next \in Calls :
                run' = [inputs |-> Append(run.inputs, next), executor |-> executor,
                        depth |-> run.depth + 1, rejects |-> run.rejects]
          /\ UNCHANGED <<failures, phase>>
      BY <1>2, <1>4 DEF AssertInvariants
    <2>2. PICK next \in Calls :
             run' = [inputs |-> Append(run.inputs, next), executor |-> executor,
                     depth |-> run.depth + 1, rejects |-> run.rejects]
      BY <2>1
    <2>3. PICK made \in Seq(Calls) : made = run.inputs
      BY <1>1, UnderWay
    <2>4. StateAfter(made) = executor
      BY <1>1, <1>2, <2>3, UnderWay
    <2>5. run'.inputs = Append(made, next) /\ run'.executor = executor
      BY <2>2, <2>3
    <2>6. Front(run'.inputs) = made
      BY <2>5, FrontAppend
    <2>7. StateAfter(made)' = StateAfter(made)
      BY <1>1, SameAfter
    <2>8. phase' = "run" /\ failures'.error = failures.error
      BY <1>1, <2>1 DEF Running
    <2> QED
      BY <1>1, <2>4, <2>5, <2>6, <2>7, <2>8, GoOnRepro
  <1> QED
    BY <1>3, <1>4

LEMMA ShrinkRepro == ASSUME CInv, ShrinkInv, ReproInv, Shrink PROVE ReproInv'
  <1>1. /\ phase = "shrink" /\ InCampaign
        /\ Shrinking
        /\ UNCHANGED <<contract, failures, verdict>>
    BY DEF Shrink, ShrinkInv, InCampaign
  <1>2. UNCHANGED <<Case, Failing>> /\ Genuine' = Genuine
    BY <1>1, SameFailing DEF Genuine
  <1>3. PICK s : s = shrinker
    OBVIOUS
  <1>4. PICK success : success = CheckSequence(Case, s.included)
    OBVIOUS
  <1>5. PICK counted : counted = [included |-> s.included, index |-> s.index, prev |-> s.prev,
                                  tries |-> s.tries + 1]
    OBVIOUS
  <1>6. [s EXCEPT !.tries = s.tries + 1] = counted
    BY <1>1, <1>3, <1>5 DEF Shrinking
  <1>7. /\ shrinker' = IF ~success THEN Simplify(counted, Case)
                       ELSE IF s.prev = 0 THEN counted
                       ELSE Complicate(counted, Case)
        /\ phase' = IF Exhausted(s, Case, success) THEN "replay" ELSE "shrink"
    BY <1>3, <1>4, <1>6 DEF Shrink, Case
  <1>8. /\ s.included \in SUBSET DOMAIN Case
        /\ s.index \in 1 .. Len(Case) + 1
        /\ s.prev = s.index - 1
        /\ \A i \in DOMAIN Case : i >= s.index => i \in s.included
        /\ Len(Case) \in Nat
        /\ DOMAIN Case = 1 .. Len(Case)
    BY <1>1, <1>3, CaseType DEF Shrinking
  <1>9. (s.included \in Failing) = ~success
    BY <1>4, <1>8 DEF Failing
  <1>10. FoundInv' /\ RunInv' /\ ToldInv'
    <2>1. phase' \in {"replay", "shrink"}
      BY <1>7
    <2>2. FoundInv'
      BY <1>1, <1>2, SameHolds DEF ReproInv, FoundInv
    <2> QED
      BY <2>1, <2>2 DEF RunInv, ToldInv
  <1>11. ASSUME Genuine, NEW failing, failing \in Failing,
                s.index <= Len(Case) => s.index \in failing,
                s.index > Len(Case) => phase' = "replay" /\ shrinker'.included = failing,
                s.index <= Len(Case) =>
                   /\ phase' = "shrink"
                   /\ shrinker'.included = failing \ {s.index} /\ shrinker'.prev = s.index
         PROVE  StillFailing'
    <2>1. CASE s.index > Len(Case)
      BY <1>2, <1>11, <2>1 DEF StillFailing
    <2>2. CASE ~(s.index > Len(Case))
      <3>1. s.index <= Len(Case) /\ s.index \in DOMAIN Case
        BY <1>8, <2>2
      <3>2. LastFailing' = failing
        BY <1>2, <1>11, <3>1 DEF LastFailing
      <3> QED
        BY <1>2, <1>11, <3>1, <3>2 DEF StillFailing
    <2> QED
      BY <2>1, <2>2
  <1>12. ASSUME Genuine PROVE StillFailing'
    <2>1. LastFailing \in Failing
      BY <1>1, <1>12 DEF ReproInv, StillFailing
    <2>2. s.index <= Len(Case) => s.index \in s.included
      BY <1>8
    <2>3. CASE ~success
      <3>1. s.index > Len(Case) => phase' = "replay" /\ shrinker'.included = s.included
        BY <1>5, <1>7, <2>3 DEF Simplify, Exhausted
      <3>2. s.index <= Len(Case) =>
              /\ phase' = "shrink"
              /\ shrinker'.included = s.included \ {s.index} /\ shrinker'.prev = s.index
        <4> SUFFICES ASSUME s.index <= Len(Case)
                     PROVE  /\ phase' = "shrink"
                            /\ shrinker'.included = s.included \ {s.index}
                            /\ shrinker'.prev = s.index
          OBVIOUS
        <4>1. ~(s.index > Len(Case))
          BY <1>8
        <4> QED
          BY <1>5, <1>7, <2>3, <4>1 DEF Simplify, Exhausted
      <3>3. s.included \in Failing
        BY <1>9, <2>3
      <3> QED
        BY <1>11, <1>12, <2>2, <3>1, <3>2, <3>3
    <2>4. CASE success
      <3>1. s.prev # 0
        <4> SUFFICES ASSUME s.prev = 0 PROVE FALSE
          OBVIOUS
        <4>1. LastFailing = s.included
          BY <1>3, <1>8 DEF LastFailing
        <4> QED
          BY <1>9, <2>1, <2>4, <4>1
      <3>2. LastFailing = s.included \cup {s.prev}
        BY <1>3, <1>8, <3>1 DEF LastFailing
      <3>3. PICK failing : failing = LastFailing
        OBVIOUS
      <3>4. s.index > Len(Case) => phase' = "replay" /\ shrinker'.included = failing
        BY <1>5, <1>7, <2>4, <3>1, <3>2, <3>3 DEF Simplify, Complicate, Restored, Exhausted
      <3>5. s.index <= Len(Case) =>
              /\ phase' = "shrink"
              /\ shrinker'.included = failing \ {s.index} /\ shrinker'.prev = s.index
        <4> SUFFICES ASSUME s.index <= Len(Case)
                     PROVE  /\ phase' = "shrink"
                            /\ shrinker'.included = failing \ {s.index}
                            /\ shrinker'.prev = s.index
          OBVIOUS
        <4>1. ~(s.index > Len(Case))
          BY <1>8
        <4> QED
          BY <1>5, <1>7, <2>4, <3>1, <3>2, <3>3, <4>1
             DEF Simplify, Complicate, Restored, Exhausted
      <3> QED
        BY <1>11, <1>12, <2>1, <2>2, <3>2, <3>3, <3>4, <3>5
    <2> QED
      BY <1>9, <2>3, <2>4
  <1>13. StillFailing'
    BY <1>2, <1>12 DEF StillFailing
  <1> QED
    BY <1>10, <1>13 DEF ReproInv

\* With a turn for every call the limit is not reached before the end.
LEMMA LimitRepro ==
    ASSUME CInv, ShrinkInv, ReproInv, ShrinkLimitReached, ShrinkRunLimit >= Depth + 1
    PROVE  ReproInv'
  <1>1. /\ phase = "shrink" /\ InCampaign
        /\ Shrinking
        /\ shrinker.tries = ShrinkRunLimit
        /\ phase' = "replay"
        /\ UNCHANGED <<contract, failures>>
    BY DEF ShrinkLimitReached, ShrinkInv, InCampaign
  <1>2. UNCHANGED <<Case, Failing>> /\ Genuine' = Genuine
    BY <1>1, SameFailing DEF Genuine
  <1>3. FoundInv'
    BY <1>1, <1>2, SameHolds DEF ReproInv, FoundInv
  <1>4. ~Genuine
    <2> SUFFICES ASSUME Genuine PROVE FALSE
      OBVIOUS
    <2>1. Len(Case) <= Depth
      BY <1>1 DEF ReproInv, FoundInv
    <2>2. /\ shrinker.tries = shrinker.index - 1
          /\ shrinker.index \in 1 .. Len(Case) + 1
          /\ Len(Case) \in Nat
      BY <1>1, CaseType DEF Shrinking
    <2> QED
      BY <1>1, <2>1, <2>2, CampaignAssumption
  <1> QED
    BY <1>1, <1>2, <1>3, <1>4 DEF ReproInv, RunInv, StillFailing, ToldInv

LEMMA ReportRepro == ASSUME CInv, ReproInv, Report PROVE ReproInv'
  <1>1. phase = "report" /\ InCampaign /\ UNCHANGED <<contract, failures>>
    BY DEF Report, InCampaign
  <1>2. UNCHANGED <<Case, Failing>> /\ Genuine' = Genuine
    BY <1>1, SameFailing DEF Genuine
  <1>3. FoundInv'
    BY <1>1, <1>2, SameHolds DEF ReproInv, FoundInv
  <1>4. CASE failures.error.kind \in {"none", "rejects"}
    <2>1. phase' = "done" /\ verdict' \in {Verdict("pass", <<>>), Verdict("rejects", <<>>)}
      BY <1>4 DEF Report
    <2> QED
      BY <1>3, <2>1 DEF ReproInv, RunInv, StillFailing, ToldInv, Verdict
  <1>5. CASE failures.error.kind \notin {"none", "rejects"}
    <2>1. /\ phase' = "shrink"
          /\ shrinker' = [NoShrinker EXCEPT !.included = DOMAIN Case]
      BY <1>5 DEF Report, Case
    <2>2. shrinker'.included = DOMAIN Case /\ shrinker'.prev = 0
      BY <2>1 DEF NoShrinker
    <2>3. DOMAIN Case = 1 .. Len(Case) /\ Len(Case) \in Nat
      BY CaseType
    <2>4. LastFailing' = DOMAIN Case
      BY <1>2, <2>2, <2>3 DEF LastFailing
    <2>5. Genuine => DOMAIN Case \in Failing
      BY <1>1 DEF ReproInv, FoundInv
    <2> QED
      BY <1>2, <1>3, <2>1, <2>4, <2>5 DEF ReproInv, RunInv, StillFailing, ToldInv
  <1> QED
    BY <1>4, <1>5

\* No call at all cannot fail.
LEMMA EmptyPasses ==
    ASSUME InvariantHolds(SetUp), AfterSafe
    PROVE  CheckSequence(<<>>, {})
  <1>1. <<>> \in Seq(Calls) /\ Len(<<>>) = 0
    OBVIOUS
  <1>2. PICK none \in Seq(Calls) : none = <<>> /\ Len(none) = 0
    BY <1>1, Zenon
  <1>3. Replay(none, {})[0] = SetUp
    BY TraceExists, TraceSteps
  <1>4. CheckSequence(none, {})
    BY <1>2, <1>3 DEF CheckSequence, AfterSafe
  <1> QED
    BY <1>2, <1>4

LEMMA PersistRepro ==
    ASSUME CInv, ShrinkInv, ReproInv, PersistAndReport PROVE ReproInv'
  <1>1. PICK left : left = Kept(Case, shrinker.included)
    OBVIOUS
  <1>2. /\ phase = "replay" /\ phase' = "done" /\ InCampaign
        /\ verdict' = Verdict(failures.error.kind, left)
        /\ file' = IF left = <<>> THEN file ELSE left
        /\ contract' = contract
    BY <1>1 DEF PersistAndReport, Case, InCampaign
  <1>3. verdict'.kind = failures.error.kind /\ verdict'.calls = left
    BY <1>2 DEF Verdict
  <1>4. Case \in Seq(Calls) /\ shrinker.included \in SUBSET DOMAIN Case
    BY <1>2 DEF CInv, ErrorShown, Case, ShrinkInv
  <1>5. /\ left \in Seq(Calls) /\ Len(left) <= Len(Case)
        /\ CheckSequence(left, DOMAIN left) <=> CheckSequence(Case, shrinker.included)
    BY <1>1, <1>4, KeptCheck
  <1>6. ASSUME Genuine
        PROVE  /\ verdict'.calls \in Seq(Calls) /\ Len(verdict'.calls) <= Depth
               /\ ~CheckSequence(verdict.calls, DOMAIN verdict.calls)'
               /\ AfterSafe' => file' = verdict'.calls /\ file' # <<>>
    <2>1. shrinker.included \in Failing /\ Len(Case) <= Depth
      BY <1>2, <1>6 DEF ReproInv, StillFailing, FoundInv
    <2>2. ~CheckSequence(left, DOMAIN left)
      BY <1>5, <2>1 DEF Failing
    <2>3. ~CheckSequence(left, DOMAIN left)'
      BY <1>2, <2>2, SameCheck
    <2>4. ASSUME AfterSafe' PROVE left # <<>>
      <3> SUFFICES ASSUME left = <<>> PROVE FALSE
        OBVIOUS
      <3>1. AfterSafe /\ InvariantHolds(SetUp)
        BY <1>2, <2>4, SameHolds DEF ReproInv, FoundInv
      <3>2. DOMAIN left = {}
        OBVIOUS
      <3> QED
        BY <2>2, <3>1, <3>2, EmptyPasses
    <2>5. Len(left) \in Nat /\ Len(Case) \in Nat
      BY <1>4, <1>5
    <2>6. Len(left) <= Depth
      BY <1>5, <2>1, <2>5, CampaignAssumption
    <2> QED
      BY <1>2, <1>3, <1>5, <2>3, <2>4, <2>6
  <1>7. ToldInv'
    BY <1>3, <1>6 DEF ToldInv, Genuine
  <1> QED
    BY <1>2, <1>7 DEF ReproInv, FoundInv, RunInv, StillFailing, InCampaign

LEMMA StartTestRepro == ASSUME CInv, ReproInv, StartTest PROVE ReproInv'
  <1>1. /\ failures'.error.kind = "none" /\ contract' = contract
        /\ \/ phase' = "done" /\ verdict' = Verdict("replayed", file)
           \/ phase' = "done" /\ verdict' = Verdict("setup", <<>>)
           \/ phase' = "idle" /\ InvariantHolds(SetUp)
    BY DEF StartTest, NoError
  <1>2. ~Genuine'
    BY <1>1 DEF Genuine
  <1>3. FoundInv'
    BY <1>1, <1>2, SameHolds DEF FoundInv, InCampaign
  <1> QED
    BY <1>1, <1>2, <1>3 DEF ReproInv, RunInv, StillFailing, ToldInv, Verdict

\* The fields of a contract.
IsContract ==
    DOMAIN contract = {"step", "left", "broken", "broken_after", "fails",
                       "fail_on_revert", "call_after_invariant"}

LEMMA AgainRepro == ASSUME IsContract, ReproInv, Again PROVE ReproInv'
  <1>1. /\ phase = "done" /\ phase' = "start" /\ UNCHANGED <<verdict, file>>
        /\ contract' = contract \/ contract' = [contract EXCEPT !.broken = {}]
    BY DEF Again
  <1>2. CASE contract' = contract
    <2>1. PICK calls : calls = verdict.calls
      OBVIOUS
    <2>2. CheckSequence(calls, DOMAIN calls)' = CheckSequence(calls, DOMAIN calls)
      BY <1>2, SameCheck
    <2>3. ToldInv'
      BY <1>1, <1>2, <2>1, <2>2, SameHolds DEF ReproInv, ToldInv
    <2> QED
      BY <1>1, <2>3 DEF ReproInv, FoundInv, RunInv, StillFailing, InCampaign
  <1>3. CASE contract' = [contract EXCEPT !.broken = {}]
    <2>1. contract'.broken = {}
      BY <1>3 DEF IsContract
    <2> QED
      BY <1>1, <2>1 DEF ReproInv, FoundInv, RunInv, StillFailing, ToldInv, InCampaign
  <1> QED
    BY <1>1, <1>2, <1>3

LEMMA SameRepro == ASSUME ReproInv, UNCHANGED vars PROVE ReproInv'
  <1>1. /\ UNCHANGED <<contract, file, phase, run, failures, shrinker, verdict>>
    BY DEF vars
  <1>2. UNCHANGED <<Case, Failing>> /\ Genuine' = Genuine
    BY <1>1, SameFailing DEF Genuine
  <1>3. PICK done, calls : done = Front(run.inputs) /\ calls = verdict.calls
    OBVIOUS
  <1>4. /\ StateAfter(done)' = StateAfter(done)
        /\ CheckSequence(calls, DOMAIN calls)' = CheckSequence(calls, DOMAIN calls)
    BY <1>1, SameAfter, SameCheck
  <1>5. FoundInv'
    BY <1>1, <1>2, SameHolds DEF ReproInv, FoundInv, InCampaign
  <1>6. RunInv'
    BY <1>1, <1>3, <1>4 DEF ReproInv, RunInv
  <1>7. StillFailing'
    BY <1>1, <1>2 DEF ReproInv, StillFailing, LastFailing
  <1>8. ToldInv'
    BY <1>1, <1>3, <1>4, SameHolds DEF ReproInv, ToldInv
  <1> QED
    BY <1>5, <1>6, <1>7, <1>8 DEF ReproInv

LEMMA NextRepro ==
    ASSUME CInv, ShrinkInv, IsContract, NothingLost, ReproInv, [Next]_vars,
           ShrinkRunLimit >= Depth + 1
    PROVE  ReproInv'
  <1>1. CASE StartRun
    <2>1. PICK first \in Calls :
             run' = [inputs |-> <<first>>, executor |-> SetUp, depth |-> 0, rejects |-> 0]
      BY <1>1 DEF StartRun
    <2>0. <<>> \in Seq(Calls)
      OBVIOUS
    <2>2. PICK none \in Seq(Calls) : none = <<>>
      BY <2>0, Zenon
    <2>3. run'.executor = SetUp /\ run'.inputs = Append(none, first)
      BY <2>1, <2>2
    <2>4. Front(run'.inputs) = none
      BY <2>2, <2>3, FrontAppend
    <2>5. StateAfter(none) = SetUp
      <3>1. Len(none) = 0
        BY <2>2
      <3>2. Replay(none, DOMAIN none)[0] = SetUp
        BY <2>2, TraceExists, TraceSteps
      <3> QED
        BY <3>1, <3>2 DEF StateAfter
    <2>6. StateAfter(none)' = StateAfter(none)
      BY <1>1, SameAfter DEF StartRun
    <2>7. InCampaign /\ contract' = contract /\ failures'.error = failures.error /\ phase' = "run"
      BY <1>1 DEF StartRun, InCampaign
    <2> QED
      BY <2>3, <2>4, <2>5, <2>6, <2>7, GoOnRepro
  <1>2. CASE EndRun
    <2>1. /\ InCampaign /\ contract' = contract /\ phase' = "idle"
          /\ \/ failures' = failures
             \/ failures' = [failures EXCEPT !.error = [kind |-> "after", calls |-> run.inputs]]
      BY <1>2 DEF EndRun, InCampaign
    <2>2. CASE failures' = failures
      BY <2>1, <2>2, GoOnRepro
    <2>3. CASE failures' = [failures EXCEPT !.error = [kind |-> "after", calls |-> run.inputs]]
      <3>1. failures \in [reverts : Nat, error : [kind : Kinds, calls : Seq(Calls)]]
        BY DEF CInv, ErrorShown
      <3>2. failures'.error.kind = "after"
        BY <2>3, <3>1
      <3>3. ~Genuine'
        BY <3>2 DEF Genuine
      <3>4. FoundInv'
        BY <2>1, <3>3, SameHolds DEF ReproInv, FoundInv
      <3> QED
        BY <2>1, <3>3, <3>4 DEF ReproInv, RunInv, StillFailing, ToldInv
    <2> QED
      BY <2>1, <2>2, <2>3
  <1>3. CASE EndCampaign \/ TimedOut
    <2>1. InCampaign /\ contract' = contract /\ failures'.error = failures.error /\ phase' = "report"
      BY <1>3 DEF EndCampaign, TimedOut, Running, InCampaign
    <2> QED
      BY <2>1, GoOnRepro
  <1> QED
    BY <1>1, <1>2, <1>3, DiscardRepro, RevertedRepro, AssertRepro, ShrinkRepro, LimitRepro,
       ReportRepro, PersistRepro, StartTestRepro, AgainRepro, SameRepro DEF Next, Step

LEMMA NextContract == IsContract /\ [Next]_vars => IsContract'
  BY DEF IsContract, Next, Step, vars, StartRun, Discard, RevertedCall, AssertInvariants, EndRun,
         EndCampaign, Report, Shrink, ShrinkLimitReached, PersistAndReport, StartTest, TimedOut, Again

\* What a reverted call leaves behind is the same after the fix of an invariant.
LEMMA SameLoss ==
    ASSUME IsContract, [Next]_vars PROVE NothingLost' = NothingLost
  <1>1. contract' = contract \/ contract' = [contract EXCEPT !.broken = {}]
    BY DEF Next, Step, vars, StartRun, Discard, RevertedCall, AssertInvariants, EndRun,
           EndCampaign, Report, Shrink, ShrinkLimitReached, PersistAndReport, StartTest,
           TimedOut, Again
  <1>2. /\ contract'.fail_on_revert = contract.fail_on_revert
        /\ contract'.left = contract.left /\ contract'.step = contract.step
    BY <1>1 DEF IsContract
  <1> QED
    BY <1>2 DEF NothingLost

(* The sequence a failed test reports fails when it is replayed from the   *)
(* state after setUp: reverted and discarded inputs may be left out of it  *)
(* (result.rs, can_continue) if no reverted call leaves an environment or  *)
(* cheatcodes behind, which Executor::commit persists, and the shrinker    *)
(* never ends on a sequence that passes (shrink.rs), if shrink_run_limit   *)
(* leaves it a turn for every call.                                        *)
THEOREM ReportsFail ==
    ASSUME ShrinkRunLimit >= Depth + 1
    PROVE  Spec => []ReportedFails
  <1>1. Init => CInv /\ ShrinkInv /\ IsContract /\ (NothingLost => ReproInv)
    BY InitCInv, InitRepro, CampaignAssumption DEF Init, ShrinkInv, IsContract
  <1>2. CInv /\ ShrinkInv /\ IsContract /\ (NothingLost => ReproInv) /\ [Next]_vars
          => (CInv /\ ShrinkInv /\ IsContract /\ (NothingLost => ReproInv))'
    BY NextCInv, NextShrinks, NextContract, NextRepro, SameLoss
  <1>3. (NothingLost => ReproInv) => ReportedFails
    BY DEF ReproInv, ToldInv, ReportedFails
  <1> QED
    BY <1>1, <1>2, <1>3, PTL DEF Spec

(* A failure that was found stays found: the next forge test replays the   *)
(* persisted calls and fails (forge/src/runner.rs), as long as the         *)
(* contract is the same and no reverted call of it leaves anything behind. *)
(* If afterInvariant fails without any call the shrinker may leave none,   *)
(* and then nothing is persisted.                                          *)
THEOREM FailureReplayed ==
    ASSUME ShrinkRunLimit >= Depth + 1,
           \A c \in Contracts : c.call_after_invariant => SetUp.at \notin c.broken_after
    PROVE  Spec => FailsAgain
  <1> DEFINE Safe == contract.call_after_invariant => SetUp.at \notin contract.broken_after
             Inv == CInv /\ ShrinkInv /\ IsContract /\ (NothingLost => ReproInv) /\ Safe
  <1>1. Init => Inv
    BY InitCInv, InitRepro, CampaignAssumption DEF Init, ShrinkInv, IsContract
  <1>2. IsContract /\ Safe /\ [Next]_vars => Safe'
    <2> SUFFICES ASSUME IsContract, Safe, [Next]_vars PROVE Safe'
      OBVIOUS
    <2>1. contract' = contract \/ contract' = [contract EXCEPT !.broken = {}]
      BY DEF Next, Step, vars, StartRun, Discard, RevertedCall, AssertInvariants, EndRun,
             EndCampaign, Report, Shrink, ShrinkLimitReached, PersistAndReport, StartTest,
             TimedOut, Again
    <2>2. /\ contract'.call_after_invariant = contract.call_after_invariant
          /\ contract'.broken_after = contract.broken_after
      BY <2>1 DEF IsContract
    <2> QED
      BY <2>2
  <1>3. Inv /\ [Next]_vars => Inv'
    BY <1>2, NextCInv, NextShrinks, NextContract, NextRepro, SameLoss
  <1>4. Inv /\ [Next]_vars =>
          [phase = "start" /\ phase' # "start" /\ verdict.kind \in {"broken", "revert"}
           /\ contract.broken # {} /\ NothingLost
           => phase' = "done" /\ verdict'.kind = "replayed"]_vars
    <2> SUFFICES ASSUME Inv, [Next]_vars, phase = "start", phase' # "start",
                        verdict.kind \in {"broken", "revert"}, contract.broken # {},
                        NothingLost
                 PROVE  phase' = "done" /\ verdict'.kind = "replayed"
      OBVIOUS
    <2>1. StartTest
      BY DEF Next, Step, vars, StartRun, Discard, RevertedCall, AssertInvariants, EndRun,
             EndCampaign, Report, Shrink, ShrinkLimitReached, PersistAndReport, TimedOut, Again,
             Running
    <2>2. AfterSafe
      BY DEF AfterSafe, AfterInvariantHolds, SetUp, NoRun
    <2>3. /\ file \in Seq(Calls) /\ Len(file) <= Depth /\ file # <<>>
          /\ ~CheckSequence(file, DOMAIN file)
      BY <2>2 DEF ReproInv, ToldInv
    <2>4. DOMAIN file \cap 1 .. Depth = DOMAIN file
      <3>1. DOMAIN file = 1 .. Len(file) /\ Len(file) \in Nat
        BY <2>3
      <3>2. Depth \in Nat
        BY CampaignAssumption
      <3> QED
        BY <2>3, <3>1, <3>2
    <2>5. StillFails
      BY <2>3, <2>4 DEF StillFails
    <2> QED
      BY <2>1, <2>5 DEF StartTest, Verdict
  <1> HIDE DEF Inv
  <1>5. Spec => [][phase = "start" /\ phase' # "start" /\ verdict.kind \in {"broken", "revert"}
                   /\ contract.broken # {} /\ NothingLost
                   => phase' = "done" /\ verdict'.kind = "replayed"]_vars
    BY <1>1, <1>3, <1>4, PTL DEF Spec
  <1> QED
    BY <1>5 DEF FailsAgain
=============================================================================
