------------------------- MODULE MCScriptBroadcast -------------------------
(* Four transactions of one sender, or of two; three with a signed one of   *)
(* another sender, or of the same, in batches or one after the other.       *)
EXTENDS ScriptBroadcast

Script(from, signed, slow) == [from |-> from, signed |-> signed, slow |-> slow]

OneOrTwoSenders == {Script(<<"a", "a", "a", "a">>, {}, FALSE),
                    Script(<<"a", "b", "a", "b">>, {}, FALSE),
                    Script(<<"a", "b", "a">>, {2}, FALSE),
                    Script(<<"a", "b", "a">>, {2}, TRUE),
                    Script(<<"a", "a", "a">>, {2}, FALSE)}
=============================================================================
