------------------------ MODULE MCInvariantCampaign ------------------------
(* Instances of InvariantCampaign: every machine of three states for one    *)
(* call, which from the broken one leads back to the first or nowhere, a    *)
(* few for the other.                                                       *)
EXTENDS InvariantCampaign

States == {"s0", "s1", "s2"}
Outcomes == States \cup {"revert", "assume"}

Others == {[s \in States |-> IF s = "s1" THEN "s2" ELSE "revert"],
           [s \in States |-> IF s = "s2" THEN "assume" ELSE "s1"]}

\* Nothing is left behind, or the first call warps before it reverts or is
\* discarded in the first state.
Lefts(f, fails) ==
    LET warps == f["s0"] \in {"revert", "assume"} /\ fails = {}
    IN  {[p \in {} |-> "s0"]} \cup
        IF warps THEN {[p \in {<<"a", "s0">>} |-> "s1"]} ELSE {}

Machines ==
    UNION {{[step |-> [a |-> f, b |-> g], left |-> left, broken |-> {"s2"},
             broken_after |-> after, fails |-> fails, fail_on_revert |-> strict,
             call_after_invariant |-> after # {}] :
                left \in Lefts(f, fails), g \in Others, after \in {{}, {"s1"}}, strict \in BOOLEAN} :
        f \in {h \in [States -> Outcomes] : h["s2"] \notin {"s1", "s2"}}, fails \in {{}, {"s1"}}}
=============================================================================
