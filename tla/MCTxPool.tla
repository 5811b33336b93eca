------------------------------ MODULE MCTxPool ------------------------------
(* One sender with a replaceable second transaction, three nonces.          *)
EXTENDS TxPool

tx(from, nonce, price) ==
    [from |-> from, nonce |-> nonce, price |-> price, gas |-> 1]

MCTxs == {tx("a", 0, 1), tx("a", 1, 1), tx("a", 1, 2), tx("a", 2, 1)}
=============================================================================
