----------------------------- MODULE MultiFork -----------------------------
(***************************************************************************)
(* The multi fork handler (crates/evm/core/src/fork/multi.rs): clients,    *)
(* one per test contract or script, send requests over one channel and     *)
(* block until they are answered; the handler, a thread of its own, drives *)
(* the creations and keeps every fork it has created.                      *)
(*                                                                         *)
(* try_send never fails: every call sends through a clone of the Sender,   *)
(* and a new clone always has a slot of its own.  A SharedBackend is named *)
(* by the creation that made it; fork.opts.env by the client that changed  *)
(* it last with UpdateBlock.                                               *)
(***************************************************************************)
EXTENDS ForkIds, FiniteSets

CONSTANTS
    Nobody,     \* the env is the one of the block
    MaxCalls    \* bound on the requests of all clients

ASSUME MultiForkAssumption ==
    /\ Nobody \notin Clients
    /\ MaxCalls \in Nat

VARIABLES
    call,           \* client -> what it waits for, or was answered last
    made,           \* requests made
    env,            \* client -> the env it was given with its last fork
    incoming,       \* the channel
    pending_tasks,  \* requested ForkId -> clients waiting, latest at its start
    forks,          \* ForkId -> its backend and env
    num_senders,    \* backend -> its counter, shared by the ids of the fork
    handlers,       \* the backends whose handler is driven
    insert,         \* insert_new_fork at work, or the errors being sent
    latest          \* url -> the last block of the endpoint

clientVars == <<call, made, env>>
handlerVars == <<pending_tasks, forks, num_senders, handlers, insert>>
vars == <<clientVars, incoming, handlerVars, latest>>

First == CHOOSE n \in Blocks : \A m \in Blocks : n <= m

With(f, x, v) == [y \in DOMAIN f \cup {x} |-> IF y = x THEN v ELSE f[y]]

Without(f, x) == [y \in DOMAIN f \ {x} |-> f[y]]

NoTask == [clients |-> <<>>]

Init ==
    /\ call = [c \in Clients |-> Idle]
    /\ made = 0
    /\ env = [c \in Clients |-> Nobody]
    /\ incoming = <<>>
    /\ pending_tasks = [id \in {} |-> NoTask]
    /\ forks = [id \in {} |-> Nobody]
    /\ num_senders = <<>>
    /\ handlers = {}
    /\ insert = NoTask
    /\ latest = [url \in Urls |-> First]

-----------------------------------------------------------------------------
(* The clients                                                             *)

Send(c, req) ==
    /\ call[c].at \notin {"asked", "closed"}
    /\ made < MaxCalls
    /\ made' = made + 1
    /\ incoming' = Append(incoming, [client |-> c, req |-> req])
    /\ UNCHANGED <<env, handlerVars, latest>>

\* The identifiers a client may know: those in use, and those a fork that
\* does not exist yet would have.
Known == DOMAIN forks \cup {ForkId(url, number) : url \in Urls, number \in Blocks}

\* create_fork, roll_fork, get_fork, get_env, get_fork_url: the client blocks
\* in rx.recv().
Ask(c, req) ==
    /\ Send(c, req)
    /\ call' = [call EXCEPT ![c] = Asked(req)]

\* update_block does not wait.
UpdateBlock(c, id) ==
    /\ Send(c, Request("update", id, Latest))
    /\ UNCHANGED call

\* The client's MultiFork is dropped.  With the last one ShutDownMultiFork is,
\* which sends ShutDown and waits.
DropMultiFork(c) ==
    /\ call[c].at \notin {"asked", "closed"}
    /\ call' = [call EXCEPT ![c] = [at |-> "closed"]]
    /\ incoming' = IF \A d \in Clients \ {c} : call[d].at = "closed"
                   THEN Append(incoming, [client |-> c, req |-> [kind |-> "shutdown"]])
                   ELSE incoming
    /\ UNCHANGED <<made, env, handlerVars, latest>>

-----------------------------------------------------------------------------
(* The handler                                                             *)

\* Waiting in poll for a request or a task.
Polling == insert = NoTask

Request1 == Head(incoming)

Receive(kind) ==
    /\ Polling
    /\ incoming # <<>>
    /\ Request1.req.kind = kind
    /\ incoming' = Tail(incoming)

\* Slip: the senders of a task in progress are replaced.
JoinedAlone(clients, c) == <<c>>

Joined(clients, c) == Append(clients, c)

(* create_fork: joins the task in progress for the same ForkId, if any.    *)
CreateFork(c, url, number) ==
    LET key == ForkId(url, number)
        task == IF key \in DOMAIN pending_tasks THEN pending_tasks[key]
                ELSE [clients |-> <<>>, since |-> latest[url]]
    IN  pending_tasks' = With(pending_tasks, key,
                              [clients |-> Joined(task.clients, c), since |-> task.since])

OnCreateFork ==
    /\ Receive("create")
    /\ CreateFork(Request1.client, Request1.req.id.url, Request1.req.number)
    /\ UNCHANGED <<clientVars, forks, num_senders, handlers, insert, latest>>

(* RollFork takes the url of the fork; an unknown fork is an error.        *)
OnRollFork ==
    /\ Receive("roll")
    /\ IF Request1.req.id \in DOMAIN forks
       THEN /\ CreateFork(Request1.client, Request1.req.id.url, Request1.req.number)
            /\ UNCHANGED call
       ELSE /\ call' = [call EXCEPT ![Request1.client] = Refused]
            /\ UNCHANGED pending_tasks
    /\ UNCHANGED <<made, env, forks, num_senders, handlers, insert, latest>>

OnGet ==
    /\ Receive("get")
    /\ call' = [call EXCEPT ![Request1.client] =
                    IF Request1.req.id \in DOMAIN forks THEN Got(Request1.req.id) ELSE Refused]
    /\ UNCHANGED <<made, env, handlerVars, latest>>

OnUpdateBlock ==
    /\ Receive("update")
    /\ forks' = [id \in DOMAIN forks |->
                    IF id = Request1.req.id THEN [forks[id] EXCEPT !.env = Request1.client]
                    ELSE forks[id]]
    /\ UNCHANGED <<clientVars, pending_tasks, num_senders, handlers, insert, latest>>

OnShutDown ==
    /\ Receive("shutdown")
    /\ forks' = [id \in {} |-> Nobody]
    /\ handlers' = {}
    /\ UNCHANGED <<clientVars, pending_tasks, num_senders, insert, latest>>

(* The number of the block the endpoint gives for a task: the one asked    *)
(* for if it exists, or one that was the last since the task started.      *)
Resolves(key, number) ==
    /\ number <= latest[key.url]
    /\ IF key.number = Latest THEN number >= pending_tasks[key].since
       ELSE number = key.number

\* Slip: the fork just created is used although its handler is dropped.
BackendOfTask(existing, new) == new

\* pin.forks.get(&fork_id).cloned()
BackendOf(existing, new) == existing

(* The task for `key' is done: a fork of that block exists already, and    *)
(* its first id with a number appended is the next one, or it is new.      *)
TaskReady(key, number) ==
    /\ Polling
    /\ Resolves(key, number)
    /\ LET id == ForkId(key.url, number)
           new == Len(num_senders) + 1
       IN  IF id \in DOMAIN forks
           THEN LET fork == forks[id]
                IN  /\ insert' = [clients |-> pending_tasks[key].clients,
                                  ok |-> TRUE,
                                  id |-> WithSender(id, num_senders[fork.backend]),
                                  fork |-> [fork EXCEPT !.backend =
                                              BackendOf(fork.backend, new)],
                                  first |-> TRUE]
                    /\ num_senders' = Append([num_senders EXCEPT ![fork.backend] = @ + 1], 1)
                    /\ UNCHANGED handlers
           ELSE /\ insert' = [clients |-> pending_tasks[key].clients,
                              ok |-> TRUE,
                              id |-> id,
                              fork |-> [backend |-> new, env |-> Nobody],
                              first |-> TRUE]
                /\ num_senders' = Append(num_senders, 1)
                /\ handlers' = handlers \cup {new}
    /\ pending_tasks' = Without(pending_tasks, key)
    /\ UNCHANGED <<clientVars, incoming, forks, latest>>

\* The endpoint fails, or has no such block.
TaskFails(key) ==
    /\ Polling
    /\ insert' = [clients |-> pending_tasks[key].clients, ok |-> FALSE]
    /\ pending_tasks' = Without(pending_tasks, key)
    /\ UNCHANGED <<clientVars, incoming, forks, num_senders, handlers, latest>>

(* insert_new_fork: the sender gets the id, every additional one an id of  *)
(* its own, all of them the same backend and env.                          *)
InsertNewFork ==
    /\ insert # NoTask
    /\ insert.ok
    /\ LET c == Head(insert.clients)
           n == num_senders[insert.fork.backend]
           id == IF insert.first THEN insert.id ELSE WithSender(insert.id, n)
       IN  /\ forks' = With(forks, id, insert.fork)
           /\ call' = [call EXCEPT ![c] = Got(id)]
           /\ env' = [env EXCEPT ![c] = insert.fork.env]
           /\ num_senders' = IF insert.first THEN num_senders
                             ELSE [num_senders EXCEPT ![insert.fork.backend] = @ + 1]
    /\ insert' = IF Tail(insert.clients) = <<>> THEN NoTask
                 ELSE [clients |-> Tail(insert.clients), ok |-> TRUE, id |-> insert.id,
                       fork |-> insert.fork, first |-> FALSE]
    /\ UNCHANGED <<made, incoming, pending_tasks, handlers, latest>>

SendError ==
    /\ insert # NoTask
    /\ ~insert.ok
    /\ call' = [call EXCEPT ![Head(insert.clients)] = Refused]
    /\ insert' = IF Tail(insert.clients) = <<>> THEN NoTask
                 ELSE [clients |-> Tail(insert.clients), ok |-> FALSE]
    /\ UNCHANGED <<made, env, incoming, pending_tasks, forks, num_senders, handlers, latest>>

(* A block is mined at the endpoint.                                       *)
RemoteBlock(url) ==
    /\ latest[url] + 1 \in Blocks
    /\ latest' = [latest EXCEPT ![url] = @ + 1]
    /\ UNCHANGED <<clientVars, incoming, handlerVars>>

OnRequest == OnCreateFork \/ OnRollFork \/ OnGet \/ OnUpdateBlock \/ OnShutDown

Answering == InsertNewFork \/ SendError

\* A task ends, whatever the endpoint does: its provider has timeouts.
TaskEnds(key) ==
    /\ key \in DOMAIN pending_tasks
    /\ \/ \E number \in Blocks : TaskReady(key, number)
       \/ TaskFails(key)

ClientStep(c) ==
    \/ \E req \in Creations \cup Rolls(Known) \cup Lookups(Known) : Ask(c, req)
    \/ \E id \in DOMAIN forks : UpdateBlock(c, id)
    \/ DropMultiFork(c)

Keys == {ForkId(url, number) : url \in Urls, number \in Blocks \cup {Latest}}

Next ==
    \/ \E c \in Clients : ClientStep(c)
    \/ OnRequest
    \/ \E key \in Keys : TaskEnds(key)
    \/ Answering
    \/ \E url \in Urls : RemoteBlock(url)

Spec == Init /\ [][Next]_vars

(* The handler's thread polls as long as there is something to do.         *)
Fairness ==
    /\ WF_vars(OnRequest)
    /\ WF_vars(Answering)
    /\ \A key \in Keys : SF_vars(TaskEnds(key))

FairSpec == Spec /\ Fairness

-----------------------------------------------------------------------------
Registry == INSTANCE ForkRegistry WITH issued <- DOMAIN forks

(* The handler keeps the promise of ForkRegistry: whatever requests arrive *)
(* while forks are being created, for the same block by number and by      *)
(* `latest', an id is never given twice, belongs to the block asked for,   *)
(* and every client that waits is answered.                                *)
KeepsPromise == Registry!Spec

(* A SharedBackend works only while its handler is driven: every fork a    *)
(* client can use has its handler, and forks of the same block share it.   *)
BackendsDriven ==
    /\ \A id \in DOMAIN forks : forks[id].backend \in handlers
    /\ \A a, b \in DOMAIN forks :
         a.url = b.url /\ a.number = b.number => forks[a].backend = forks[b].backend

(* Not kept by the code (README, Divergences).                             *)
(* "each contract uses its own encapsulated evm state"                     *)
(* (backend/mod.rs:389): the env a client is given with a fork was not     *)
(* changed by another client.                                              *)
OwnEnv == \A c \in Clients : env[c] \in {Nobody, c}
=============================================================================
