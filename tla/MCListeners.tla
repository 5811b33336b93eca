---------------------------- MODULE MCListeners ----------------------------
(* The listeners do not affect each other or the node, so each kind of     *)
(* listener has a node to itself.                                           *)
EXTENDS Listeners

OneKind == {{"filters"}, {"socket"}, {"fees"}}
=============================================================================
