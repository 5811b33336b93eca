---------------------------- MODULE MCCheatcodes ----------------------------
(* The test, a contract and a mocked one; the runner and another account.   *)
EXTENDS Cheatcodes
=============================================================================
