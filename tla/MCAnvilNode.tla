---------------------------- MODULE MCAnvilNode -----------------------------
(* A sender whose second transaction can be outbid; three nonces in all.    *)
EXTENDS AnvilNode

tx(from, nonce, price) ==
    [from |-> from, nonce |-> nonce, price |-> price, gas |-> 1]

\* A transaction and its successor.
Successor == {tx("a", 0, 1), tx("a", 1, 1)}

TwoNonces == {tx("a", 0, 1), tx("a", 1, 1), tx("a", 1, 2)}

\* Sender b's transaction leaves no room for a's first, but for a's second.
TightBlock == {[tx("a", 0, 1) EXCEPT !.gas = 2], tx("a", 1, 1),
               [tx("b", 0, 2) EXCEPT !.gas = 2]}

ThreeNonces == TwoNonces \cup {tx("a", 2, 3)}
=============================================================================
