------------------------------ MODULE ForkIds ------------------------------
(***************************************************************************)
(* The identifiers of forks and the requests made with them                *)
(* (crates/evm/core/src/fork/multi.rs).  A ForkId is a string: the url,    *)
(* the block number, and the numbers inc_senders has appended to it.  Here *)
(* it is the record of these parts.                                        *)
(***************************************************************************)
EXTENDS Naturals, Sequences

CONSTANTS
    Clients,    \* the threads that hold a MultiFork
    Urls,       \* remote endpoints
    Blocks      \* the block numbers the endpoints may reach

ASSUME BlocksAssumption == Blocks \subseteq Nat \ {0}

\* fork_block_number None.
Latest == 0

\* ForkId::new(url, number)
ForkId(url, number) == [url |-> url, number |-> number, senders |-> <<>>]

\* Adding "-{n}" to an id.
WithSender(id, n) == [id EXCEPT !.senders = Append(id.senders, n)]

Ids == [url : Urls, number : Blocks, senders : Seq(Nat)]

(* CreateFork, RollFork, or one of GetFork, GetEnv and GetForkUrl ("get"), *)
(* which differ only in the part of the fork they return.                  *)
Request(kind, id, number) == [kind |-> kind, id |-> id, number |-> number]

Creations == {Request("create", ForkId(url, Latest), number) :
                  url \in Urls, number \in Blocks \cup {Latest}}

Rolls(ids) == {Request("roll", id, number) : id \in ids, number \in Blocks}

Lookups(ids) == {Request("get", id, Latest) : id \in ids}

\* What a client waits for, and what it was answered last.
Idle == [at |-> "idle"]

Asked(req) == [at |-> "asked", req |-> req]

Got(id) == [at |-> "got", id |-> id]

Refused == [at |-> "refused"]
============================================================================
