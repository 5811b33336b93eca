--------------------------- MODULE MultiForkProofs ---------------------------
(***************************************************************************)
(* Theorems about MultiFork, for any number of clients, endpoints, blocks  *)
(* and requests: the handler implements the safety part of ForkRegistry,   *)
(* and every fork has its backend driven.                                  *)
(***************************************************************************)
EXTENDS MultiFork, TLAPS

Elems(s) == {s[n] : n \in DOMAIN s}

Distinct(s) == \A m, n \in DOMAIN s : s[m] = s[n] => m = n

-----------------------------------------------------------------------------
(* Types                                                                   *)

Waits(req) == req.kind \in {"create", "roll", "get"}

Requests ==
    Creations \cup Rolls(Ids) \cup Lookups(Ids)
        \cup {Request("update", id, Latest) : id \in Ids} \cup {[kind |-> "shutdown"]}

Message == [client : Clients, req : Requests]

Calls == {Idle, Refused, [at |-> "closed"]} \cup {Asked(req) : req \in Requests}
             \cup {Got(id) : id \in Ids}

Fork == [backend : Nat, env : Clients \cup {Nobody}]

\* A list of clients that all wait for a task; it is never empty.
Waiters == Seq(Clients) \ {<<>>}

MTypeOK ==
    /\ call \in [Clients -> Calls]
    /\ env \in [Clients -> Clients \cup {Nobody}]
    /\ incoming \in Seq(Message)
    /\ DOMAIN pending_tasks \subseteq Keys
    /\ \A key \in DOMAIN pending_tasks : pending_tasks[key].clients \in Waiters
    /\ DOMAIN forks \subseteq Ids
    /\ \A id \in DOMAIN forks : forks[id] \in Fork
    /\ num_senders \in Seq(Nat)
    /\ \/ insert = NoTask
       \/ insert \in [clients : Waiters, ok : {FALSE}]
       \/ insert \in [clients : Waiters, ok : {TRUE}, id : Ids, fork : Fork, first : BOOLEAN]

-----------------------------------------------------------------------------
(* The clients: each waits in one place only                               *)

Queued == {m.client : m \in {m \in Elems(incoming) : Waits(m.req)}}

Joiners(key) == Elems(pending_tasks[key].clients)

Answerees == Elems(insert.clients)

\* No client has two requests to wait for in the channel.
Once(q) ==
    \A m, n \in DOMAIN q :
        Waits(q[m].req) /\ Waits(q[n].req) /\ q[m].client = q[n].client => m = n

Apart ==
    /\ Once(incoming)
    /\ \A key \in DOMAIN pending_tasks :
         /\ Distinct(pending_tasks[key].clients)
         /\ Joiners(key) \cap Queued = {}
         /\ Joiners(key) \cap Answerees = {}
         /\ \A other \in DOMAIN pending_tasks \ {key} : Joiners(key) \cap Joiners(other) = {}
    /\ Distinct(insert.clients)
    /\ Answerees \cap Queued = {}

\* c waits for a fork of the url.
WantsFork(c, url) ==
    /\ call[c].at = "asked"
    /\ call[c].req.kind \in {"create", "roll"}
    /\ call[c].req.id.url = url

(* What is in the channel, in the tasks and about to be answered is what   *)
(* the clients have asked for.  The handler is shut down when every client *)
(* has dropped its handle.                                                 *)
Asking ==
    /\ \A m \in Elems(incoming) :
         /\ Waits(m.req) => call[m.client] = Asked(m.req)
         /\ m.req.kind = "shutdown" => \A c \in Clients : call[c].at = "closed"
    /\ \A key \in DOMAIN pending_tasks : \A c \in Joiners(key) :
         WantsFork(c, key.url) /\ call[c].req.number = key.number
    /\ \A c \in Answerees :
         /\ call[c].at = "asked" /\ call[c].req.kind \in {"create", "roll"}
         /\ insert.ok => /\ WantsFork(c, insert.id.url)
                         /\ call[c].req.number \in {Latest, insert.id.number}

-----------------------------------------------------------------------------
(* The forks: one backend per block, whose counter is above every number   *)
(* in the ids                                                              *)

\* The first id of the forks of a block.
Base(id) == ForkId(id.url, id.number)

Below(id, backend) == \A n \in Elems(id.senders) : n < num_senders[backend]

ForksShare ==
    \A id \in DOMAIN forks :
        /\ forks[id].backend \in handlers
        /\ forks[id].backend \in DOMAIN num_senders
        /\ Base(id) \in DOMAIN forks
        /\ forks[id].backend = forks[Base(id)].backend
        /\ Below(id, forks[id].backend)

InsertReady ==
    insert # NoTask /\ insert.ok =>
        /\ insert.fork.backend \in handlers
        /\ insert.fork.backend \in DOMAIN num_senders
        /\ Below(insert.id, insert.fork.backend)
        /\ insert.first => insert.id \notin DOMAIN forks
        /\ IF Base(insert.id) \in DOMAIN forks
           THEN insert.fork.backend = forks[Base(insert.id)].backend
           ELSE insert.first /\ insert.id = Base(insert.id)

MInv ==
    /\ MTypeOK
    /\ Apart
    /\ Asking
    /\ ForksShare
    /\ InsertReady

-----------------------------------------------------------------------------
(* Sequences                                                               *)

LEMMA ElemsAppend ==
    ASSUME NEW S, NEW s \in Seq(S), NEW e
    PROVE  /\ Elems(Append(s, e)) = Elems(s) \cup {e}
           /\ Distinct(s) /\ e \notin Elems(s) => Distinct(Append(s, e))
  <1>1. /\ DOMAIN Append(s, e) = DOMAIN s \cup {Len(s) + 1}
        /\ \A n \in DOMAIN s : Append(s, e)[n] = s[n]
        /\ Append(s, e)[Len(s) + 1] = e
    OBVIOUS
  <1>2. Elems(Append(s, e)) = Elems(s) \cup {e}
    BY <1>1 DEF Elems
  <1>3. ASSUME Distinct(s), e \notin Elems(s) PROVE Distinct(Append(s, e))
    BY <1>1, <1>3 DEF Distinct, Elems
  <1> QED
    BY <1>2, <1>3

LEMMA TailFacts ==
    ASSUME NEW S, NEW s \in Seq(S), s # <<>>
    PROVE  /\ Head(s) = s[1] /\ 1 \in DOMAIN s
           /\ Head(s) \in S
           /\ Tail(s) \in Seq(S)
           /\ \A n \in DOMAIN Tail(s) : n \in Nat /\ n >= 1 /\ n + 1 \in DOMAIN s /\ Tail(s)[n] = s[n + 1]
           /\ \A n \in DOMAIN s : n \in Nat /\ (n = 1 \/ (n - 1 \in DOMAIN Tail(s) /\ s[n] = Tail(s)[n - 1]))
  <1>1. /\ Tail(s) \in Seq(S)
        /\ DOMAIN Tail(s) = 1 .. Len(s) - 1
        /\ DOMAIN s = 1 .. Len(s)
        /\ Len(s) \in Nat
        /\ Head(s) = s[1] /\ 1 \in DOMAIN s
        /\ Head(s) \in S
    OBVIOUS
  <1>2. \A n \in 1 .. Len(s) - 1 : Tail(s)[n] = s[n + 1]
    OBVIOUS
  <1> QED
    BY <1>1, <1>2

LEMMA ElemsTail ==
    ASSUME NEW S, NEW s \in Seq(S), s # <<>>
    PROVE  /\ Elems(s) = {Head(s)} \cup Elems(Tail(s))
           /\ Distinct(s) => Distinct(Tail(s)) /\ Head(s) \notin Elems(Tail(s))
  <1>1. /\ Head(s) = s[1] /\ 1 \in DOMAIN s
        /\ \A n \in DOMAIN Tail(s) : n \in Nat /\ n >= 1 /\ n + 1 \in DOMAIN s /\ Tail(s)[n] = s[n + 1]
        /\ \A n \in DOMAIN s : n \in Nat /\ (n = 1 \/ (n - 1 \in DOMAIN Tail(s) /\ s[n] = Tail(s)[n - 1]))
    BY TailFacts
  <1>2. Elems(s) \subseteq {Head(s)} \cup Elems(Tail(s))
    BY <1>1 DEF Elems
  <1>3. Elems(Tail(s)) \subseteq Elems(s) /\ Head(s) \in Elems(s)
    BY <1>1 DEF Elems
  <1>4. ASSUME Distinct(s) PROVE Distinct(Tail(s))
    BY <1>1, <1>4 DEF Distinct
  <1>5. ASSUME Distinct(s) PROVE Head(s) \notin Elems(Tail(s))
    <2> SUFFICES ASSUME NEW n \in DOMAIN Tail(s), Tail(s)[n] = Head(s) PROVE FALSE
      BY DEF Elems
    <2>1. n + 1 \in DOMAIN s /\ s[n + 1] = s[1] /\ n + 1 # 1
      BY <1>1
    <2> QED
      BY <1>1, <1>5, <2>1 DEF Distinct
  <1> QED
    BY <1>2, <1>3, <1>4, <1>5

LEMMA OnceTail ==
    ASSUME NEW q \in Seq(Message), q # <<>>, Once(q)
    PROVE  /\ Once(Tail(q))
           /\ \A m \in Elems(Tail(q)) : Waits(m.req) /\ Waits(Head(q).req) => m.client # Head(q).client
  <1>1. /\ Head(q) = q[1] /\ 1 \in DOMAIN q
        /\ \A n \in DOMAIN Tail(q) : n \in Nat /\ n >= 1 /\ n + 1 \in DOMAIN q /\ Tail(q)[n] = q[n + 1]
    BY TailFacts
  <1>2. Once(Tail(q))
    BY <1>1 DEF Once
  <1>3. ASSUME NEW n \in DOMAIN Tail(q), Waits(Tail(q)[n].req), Waits(Head(q).req)
        PROVE  Tail(q)[n].client # Head(q).client
    <2>1. n + 1 \in DOMAIN q /\ n + 1 # 1
      BY <1>1
    <2> QED
      BY <1>1, <1>3, <2>1 DEF Once
  <1> QED
    BY <1>2, <1>3 DEF Elems

LEMMA OnceAppend ==
    ASSUME NEW q \in Seq(Message), NEW m \in Message, Once(q),
           Waits(m.req) => \A e \in Elems(q) : Waits(e.req) => e.client # m.client
    PROVE  Once(Append(q, m))
  <1>1. /\ DOMAIN Append(q, m) = DOMAIN q \cup {Len(q) + 1}
        /\ \A n \in DOMAIN q : Append(q, m)[n] = q[n] /\ q[n] \in Elems(q)
        /\ Append(q, m)[Len(q) + 1] = m
    BY DEF Elems
  <1> QED
    BY <1>1 DEF Once

LEMMA ExceptSenders ==
    ASSUME NEW s \in Seq(Nat), NEW b \in DOMAIN s, NEW v \in Nat
    PROVE  /\ [s EXCEPT ![b] = v] \in Seq(Nat)
           /\ Len([s EXCEPT ![b] = v]) = Len(s)
           /\ DOMAIN [s EXCEPT ![b] = v] = DOMAIN s
           /\ [s EXCEPT ![b] = v][b] = v
           /\ \A n \in DOMAIN s \ {b} : [s EXCEPT ![b] = v][n] = s[n]
  OBVIOUS

LEMMA AppendSenders ==
    ASSUME NEW s \in Seq(Nat), NEW v \in Nat
    PROVE  /\ Append(s, v) \in Seq(Nat)
           /\ DOMAIN Append(s, v) = DOMAIN s \cup {Len(s) + 1}
           /\ \A n \in DOMAIN s : Append(s, v)[n] = s[n]
  OBVIOUS

-----------------------------------------------------------------------------
(* Requests and ids                                                        *)

LEMMA RequestTypes ==
    ASSUME NEW req \in Requests
    PROVE  /\ req.kind = "create" => req.id.url \in Urls /\ req.number \in Blocks \cup {Latest}
           /\ req.kind = "roll" => req.id.url \in Urls /\ req.number \in Blocks
           /\ req.kind = "get" => req.id \in Ids
           /\ req.kind = "update" => req.id \in Ids
           /\ req.kind \in {"create", "roll", "get", "update", "shutdown"}
  <1>1. CASE req \in Creations
    BY <1>1 DEF Creations, Request, ForkId
  <1>2. CASE req \in Rolls(Ids)
    BY <1>2 DEF Rolls, Request, Ids
  <1>3. CASE req \in Lookups(Ids)
    BY <1>3 DEF Lookups, Request
  <1>4. CASE req \in {Request("update", id, Latest) : id \in Ids}
    BY <1>4 DEF Request
  <1>5. CASE req = [kind |-> "shutdown"]
    BY <1>5
  <1> QED
    BY <1>1, <1>2, <1>3, <1>4, <1>5 DEF Requests

LEMMA BaseId ==
    ASSUME NEW url \in Urls, NEW number \in Blocks
    PROVE  /\ ForkId(url, number) \in Ids
           /\ Base(ForkId(url, number)) = ForkId(url, number)
           /\ ForkId(url, number).url = url
           /\ ForkId(url, number).number = number
           /\ Elems(ForkId(url, number).senders) = {}
  BY DEF ForkId, Ids, Base, Elems

LEMMA SenderId ==
    ASSUME NEW id \in Ids, NEW n \in Nat
    PROVE  /\ WithSender(id, n) \in Ids
           /\ WithSender(id, n).url = id.url
           /\ WithSender(id, n).number = id.number
           /\ Base(WithSender(id, n)) = Base(id)
           /\ Elems(WithSender(id, n).senders) = Elems(id.senders) \cup {n}
  <1>1. id.senders \in Seq(Nat) /\ Append(id.senders, n) \in Seq(Nat)
    BY DEF Ids
  <1>2. /\ WithSender(id, n) \in Ids
        /\ WithSender(id, n).url = id.url
        /\ WithSender(id, n).number = id.number
        /\ WithSender(id, n).senders = Append(id.senders, n)
    BY <1>1 DEF WithSender, Ids
  <1> QED
    BY <1>1, <1>2, ElemsAppend DEF Base

LEMMA AskedIs == \A req : Asked(req).at = "asked" /\ Asked(req).req = req
  BY DEF Asked

LEMMA MessageTypes ==
    ASSUME MTypeOK
    PROVE  \A m \in Elems(incoming) : m.client \in Clients /\ m.req \in Requests
  <1>1. incoming \in Seq(Message)
    BY DEF MTypeOK
  <1>2. \A n \in DOMAIN incoming : incoming[n] \in Message
    BY <1>1
  <1> QED
    BY <1>2 DEF Elems, Message

-----------------------------------------------------------------------------
(* The invariant holds                                                     *)

LEMMA InitMInv == Init => MInv
  <1> SUFFICES ASSUME Init PROVE MInv
    OBVIOUS
  <1>1. /\ call = [c \in Clients |-> Idle]
        /\ env = [c \in Clients |-> Nobody]
        /\ incoming = <<>>
        /\ DOMAIN pending_tasks = {}
        /\ DOMAIN forks = {}
        /\ num_senders = <<>>
        /\ insert = NoTask
    BY DEF Init
  <1>2. MTypeOK
    <2>1. call \in [Clients -> Calls]
      BY <1>1 DEF Calls
    <2>2. incoming \in Seq(Message) /\ num_senders \in Seq(Nat)
      BY <1>1
    <2> QED
      BY <1>1, <2>1, <2>2 DEF MTypeOK
  <1>3. Elems(incoming) = {} /\ Answerees = {} /\ DOMAIN incoming = {} /\ DOMAIN insert.clients = {}
    BY <1>1 DEF Elems, Answerees, NoTask
  <1>4. Apart
    BY <1>1, <1>3 DEF Apart, Once, Distinct
  <1>5. Asking
    BY <1>1, <1>3 DEF Asking
  <1>6. ForksShare /\ InsertReady
    BY <1>1 DEF ForksShare, InsertReady
  <1> QED
    BY <1>2, <1>4, <1>5, <1>6 DEF MInv

\* A client that does not wait is not waited for anywhere.
LEMMA NotWaiting ==
    ASSUME MInv, NEW c, call[c].at # "asked"
    PROVE  /\ c \notin Queued
           /\ \A key \in DOMAIN pending_tasks : c \notin Joiners(key)
           /\ c \notin Answerees
  <1>1. \A m \in Elems(incoming) : Waits(m.req) => call[m.client].at = "asked"
    BY AskedIs DEF MInv, Asking
  <1>2. c \notin Queued
    BY <1>1 DEF Queued
  <1> QED
    BY <1>2 DEF MInv, Asking, WantsFork

LEMMA CallChange ==
    ASSUME MTypeOK, NEW c \in Clients, NEW v \in Calls, call' = [call EXCEPT ![c] = v]
    PROVE  /\ call' \in [Clients -> Calls]
           /\ call'[c] = v
           /\ \A d \in Clients \ {c} : call'[d] = call[d]
           /\ \A d : d # c => call'[d] = call[d]
  BY DEF MTypeOK

LEMMA ForksSame ==
    ASSUME MInv, UNCHANGED <<forks, num_senders, handlers, insert>>
    PROVE  ForksShare' /\ InsertReady'
  BY DEF MInv, ForksShare, InsertReady, Below

\* A client sends a request and waits, sends and does not wait, or goes.
LEMMA ClientMInv ==
    ASSUME MInv, NEW c \in Clients, call[c].at \notin {"asked", "closed"},
           NEW v \in Calls, call' = [call EXCEPT ![c] = v],
           NEW m \in Message, m.client = c,
           incoming' \in {incoming, Append(incoming, m)},
           Waits(m.req) => v = Asked(m.req),
           incoming' # incoming /\ m.req.kind = "shutdown" => \A d \in Clients : call'[d].at = "closed",
           UNCHANGED <<env, pending_tasks, forks, num_senders, handlers, insert>>
    PROVE  MInv'
  <1>1. MTypeOK /\ Apart /\ Asking
    BY DEF MInv
  <1>2. /\ c \notin Queued
        /\ \A key \in DOMAIN pending_tasks : c \notin Joiners(key)
        /\ c \notin Answerees
    BY NotWaiting
  <1>3. incoming \in Seq(Message)
    BY <1>1 DEF MTypeOK
  <1>4. Elems(incoming') \in {Elems(incoming), Elems(incoming) \cup {m}}
    BY <1>3, ElemsAppend
  <1>5. Elems(incoming') # Elems(incoming) => incoming' # incoming
    OBVIOUS
  <1>6. /\ call' \in [Clients -> Calls]
        /\ call'[c] = v
        /\ \A d : d # c => call'[d] = call[d]
    BY <1>1, CallChange
  <1>7. MTypeOK'
    <2>1. incoming' \in Seq(Message)
      BY <1>3
    <2> QED
      BY <1>1, <1>6, <2>1 DEF MTypeOK
  <1>8. Queued' \subseteq Queued \cup {c}
    BY <1>4 DEF Queued
  <1>9. Answerees' = Answerees /\ \A key : Joiners(key)' = Joiners(key)
    BY DEF Answerees, Joiners
  <1>10. Once(incoming')
    <2>1. \A e \in Elems(incoming) : Waits(e.req) => e.client # c
      BY <1>2 DEF Queued
    <2>2. Once(Append(incoming, m))
      BY <1>1, <1>3, <2>1, OnceAppend DEF Apart
    <2> QED
      BY <1>1, <2>2 DEF Apart
  <1>11. Apart'
    BY <1>1, <1>2, <1>8, <1>9, <1>10 DEF Apart
  <1>12. Asking'
    <2>1. ASSUME NEW e \in Elems(incoming')
          PROVE  /\ Waits(e.req) => call'[e.client] = Asked(e.req)
                 /\ e.req.kind = "shutdown" => \A d \in Clients : call'[d].at = "closed"
      <3>1. CASE e \in Elems(incoming)
        <4>1. Waits(e.req) => call[e.client] = Asked(e.req) /\ e.client # c
          BY <1>1, <1>2, <3>1 DEF Asking, Queued
        <4>2. e.req.kind # "shutdown"
          BY <1>1, <3>1 DEF Asking
        <4> QED
          BY <1>6, <4>1, <4>2
      <3>2. CASE e \notin Elems(incoming)
        <4>1. e = m /\ incoming' # incoming
          BY <1>4, <1>5, <2>1, <3>2
        <4> QED
          BY <1>6, <4>1
      <3> QED
        BY <3>1, <3>2
    <2>2. \A d : d # c => (\A url : WantsFork(d, url)' = WantsFork(d, url))
      BY <1>6 DEF WantsFork
    <2>3. ASSUME NEW key \in DOMAIN pending_tasks, NEW d \in Joiners(key)
          PROVE  WantsFork(d, key.url)' /\ call'[d].req.number = key.number
      BY <1>1, <1>2, <1>6, <2>2, <2>3 DEF Asking
    <2>4. ASSUME NEW d \in Answerees
          PROVE  /\ call'[d].at = "asked" /\ call'[d].req.kind \in {"create", "roll"}
                 /\ insert.ok => /\ WantsFork(d, insert.id.url)'
                                 /\ call'[d].req.number \in {Latest, insert.id.number}
      <3>1. d # c /\ call'[d] = call[d]
        BY <1>2, <1>6, <2>4
      <3>2. insert.ok => WantsFork(d, insert.id.url)'
        BY <1>1, <3>1, <2>4 DEF Asking, WantsFork
      <3> QED
        BY <1>1, <3>1, <3>2, <2>4 DEF Asking
    <2> QED
      BY <1>9, <2>1, <2>3, <2>4 DEF Asking, WantsFork
  <1> QED
    BY <1>7, <1>11, <1>12, ForksSame DEF MInv

\* The handler takes a request out of the channel.
LEMMA Received ==
    ASSUME MInv, NEW kind, Receive(kind)
    PROVE  /\ Request1 \in Elems(incoming)
           /\ Request1.client \in Clients
           /\ Request1.req \in Requests
           /\ Request1.req.kind = kind
           /\ insert = NoTask
           /\ Answerees = {}
           /\ incoming' \in Seq(Message)
           /\ Once(incoming')
           /\ Elems(incoming') \subseteq Elems(incoming)
           /\ Queued' \subseteq Queued
           /\ Waits(Request1.req) => /\ Request1.client \in Queued
                                    /\ Request1.client \notin Queued'
                                    /\ call[Request1.client] = Asked(Request1.req)
  <1>1. MTypeOK /\ Apart /\ Asking
    BY DEF MInv
  <1>2. /\ incoming \in Seq(Message)
        /\ incoming # <<>>
        /\ incoming' = Tail(incoming)
        /\ insert = NoTask
        /\ Request1.req.kind = kind
        /\ Request1 = Head(incoming)
    BY <1>1 DEF MTypeOK, Receive, Polling, Request1
  <1>3. /\ Elems(incoming) = {Request1} \cup Elems(incoming')
        /\ incoming' \in Seq(Message)
    BY <1>2, ElemsTail, TailFacts
  <1>4. /\ Once(incoming')
        /\ \A m \in Elems(incoming') : Waits(m.req) /\ Waits(Request1.req) => m.client # Request1.client
    BY <1>1, <1>2, OnceTail DEF Apart
  <1>5. Queued' \subseteq Queued
    BY <1>3 DEF Queued
  <1>6. Waits(Request1.req) => Request1.client \in Queued /\ Request1.client \notin Queued'
    BY <1>3, <1>4 DEF Queued
  <1>7. Waits(Request1.req) => call[Request1.client] = Asked(Request1.req)
    BY <1>1, <1>3 DEF Asking
  <1>8. Answerees = {}
    BY <1>2 DEF Answerees, NoTask, Elems
  <1>9. Request1.client \in Clients /\ Request1.req \in Requests
    BY <1>1, <1>3, MessageTypes
  <1> QED
    BY <1>2, <1>3, <1>4, <1>5, <1>6, <1>7, <1>8, <1>9

\* A creation joins the task for its ForkId or starts it.
LEMMA JoinMInv ==
    ASSUME MInv, Receive("create") \/ Receive("roll"),
           CreateFork(Request1.client, Request1.req.id.url, Request1.req.number),
           UNCHANGED <<call, env, forks, num_senders, handlers, insert>>
    PROVE  MInv'
  <1>0. PICK c, url, number, key, old :
            /\ c = Request1.client
            /\ url = Request1.req.id.url
            /\ number = Request1.req.number
            /\ key = ForkId(url, number)
            /\ old = IF key \in DOMAIN pending_tasks THEN pending_tasks[key].clients ELSE <<>>
    OBVIOUS
  <1>1. MTypeOK /\ Apart /\ Asking
    BY DEF MInv
  <1>2. /\ c \in Clients
        /\ Request1.req \in Requests
        /\ Request1.req.kind \in {"create", "roll"}
        /\ Answerees = {}
        /\ insert = NoTask
        /\ incoming' \in Seq(Message)
        /\ Once(incoming')
        /\ Elems(incoming') \subseteq Elems(incoming)
        /\ Queued' \subseteq Queued
        /\ c \in Queued
        /\ c \notin Queued'
        /\ call[c] = Asked(Request1.req)
    BY <1>0, Received DEF Waits
  <1>3. url \in Urls /\ number \in Blocks \cup {Latest}
    BY <1>0, <1>2, RequestTypes
  <1>4. /\ key \in Keys
        /\ key.url = url
        /\ key.number = number
    <2>1. key \in Keys
      BY <1>0, <1>3 DEF Keys
    <2> QED
      BY <1>0, <2>1 DEF ForkId
  <1>5. WantsFork(c, key.url) /\ call[c].req.number = key.number
    BY <1>0, <1>2, <1>4, AskedIs DEF WantsFork
  <1>6. \A k \in DOMAIN pending_tasks : c \notin Joiners(k)
    BY <1>1, <1>2 DEF Apart
  <1>7. /\ DOMAIN pending_tasks' = DOMAIN pending_tasks \cup {key}
        /\ pending_tasks'[key].clients = Append(old, c)
        /\ \A k \in DOMAIN pending_tasks \ {key} : pending_tasks'[k] = pending_tasks[k]
    BY <1>0 DEF CreateFork, Joined, With
  <1>8. /\ old \in Seq(Clients)
        /\ Distinct(old)
        /\ \A d \in Elems(old) : key \in DOMAIN pending_tasks /\ d \in Joiners(key)
    BY <1>0, <1>1 DEF MTypeOK, Waiters, Apart, Distinct, Elems, Joiners
  <1>9. c \notin Elems(old)
    BY <1>6, <1>8
  <1>10. /\ Append(old, c) \in Waiters
         /\ Distinct(Append(old, c))
         /\ Elems(Append(old, c)) = Elems(old) \cup {c}
    <2>1. Append(old, c) \in Seq(Clients) /\ Append(old, c) # <<>>
      BY <1>2, <1>8
    <2> QED
      BY <1>8, <1>9, <2>1, ElemsAppend DEF Waiters
  <1>11. /\ Joiners(key)' = Elems(old) \cup {c}
         /\ \A k \in DOMAIN pending_tasks \ {key} : Joiners(k)' = Joiners(k)
         /\ Answerees' = {}
    BY <1>2, <1>7, <1>10 DEF Joiners, Answerees
  <1>12. MTypeOK'
    <2>1. \A k \in DOMAIN pending_tasks' : pending_tasks'[k].clients \in Waiters
      BY <1>1, <1>7, <1>10 DEF MTypeOK
    <2>2. DOMAIN pending_tasks' \subseteq Keys
      BY <1>1, <1>4, <1>7 DEF MTypeOK
    <2> QED
      BY <1>1, <1>2, <2>1, <2>2 DEF MTypeOK
  <1>13. Apart'
    <2>1. ASSUME NEW k \in DOMAIN pending_tasks'
          PROVE  /\ Distinct(pending_tasks'[k].clients)
                 /\ Joiners(k)' \cap Queued' = {}
                 /\ \A other \in DOMAIN pending_tasks' \ {k} : Joiners(k)' \cap Joiners(other)' = {}
      <3>1. CASE k = key
        <4>1. Distinct(pending_tasks'[k].clients)
          BY <1>7, <1>10, <3>1
        <4>2. \A d \in Elems(old) : d \notin Queued'
          BY <1>1, <1>2, <1>8 DEF Apart
        <4>3. \A other \in DOMAIN pending_tasks \ {key} : Elems(old) \cap Joiners(other) = {}
          BY <1>1, <1>8 DEF Apart
        <4>4. Joiners(k)' \cap Queued' = {}
          BY <1>2, <1>11, <3>1, <4>2
        <4>5. \A other \in DOMAIN pending_tasks' \ {k} : Joiners(k)' \cap Joiners(other)' = {}
          BY <1>6, <1>7, <1>11, <3>1, <4>3
        <4> QED
          BY <4>1, <4>4, <4>5
      <3>2. CASE k # key
        <4>1. k \in DOMAIN pending_tasks /\ Joiners(k)' = Joiners(k) /\ pending_tasks'[k] = pending_tasks[k]
          BY <1>7, <1>11, <2>1, <3>2
        <4>2. Distinct(pending_tasks'[k].clients) /\ Joiners(k)' \cap Queued' = {}
          BY <1>1, <1>2, <4>1 DEF Apart
        <4>3. Joiners(k) \cap Joiners(key)' = {}
          BY <1>1, <1>6, <1>8, <1>11, <3>2, <4>1 DEF Apart
        <4>4. \A other \in DOMAIN pending_tasks \ {k} : Joiners(k) \cap Joiners(other) = {}
          BY <1>1, <4>1 DEF Apart
        <4> QED
          BY <1>7, <1>11, <4>1, <4>2, <4>3, <4>4
      <3> QED
        BY <3>1, <3>2
    <2> QED
      BY <1>1, <1>2, <1>11, <2>1 DEF Apart
  <1>14. Asking'
    <2>1. \A d, u : WantsFork(d, u)' = WantsFork(d, u)
      BY DEF WantsFork
    <2>2. ASSUME NEW k \in DOMAIN pending_tasks', NEW d \in Joiners(k)'
          PROVE  WantsFork(d, k.url) /\ call[d].req.number = k.number
      BY <1>1, <1>5, <1>7, <1>8, <1>11, <2>2 DEF Asking
    <2>3. \A m \in Elems(incoming') :
            /\ Waits(m.req) => call'[m.client] = Asked(m.req)
            /\ m.req.kind = "shutdown" => \A d \in Clients : call'[d].at = "closed"
      BY <1>1, <1>2 DEF Asking
    <2> QED
      BY <1>11, <2>1, <2>2, <2>3 DEF Asking
  <1> QED
    BY <1>12, <1>13, <1>14, ForksSame DEF MInv

\* The client whose request is taken out is answered at once.
LEMMA ReplyMInv ==
    ASSUME MInv, Receive("roll") \/ Receive("get"),
           NEW v \in Calls, call' = [call EXCEPT ![Request1.client] = v],
           UNCHANGED <<env, pending_tasks, forks, num_senders, handlers, insert>>
    PROVE  MInv'
  <1>0. PICK c : c = Request1.client
    OBVIOUS
  <1>1. MTypeOK /\ Apart /\ Asking
    BY DEF MInv
  <1>2. /\ c \in Clients
        /\ Answerees = {}
        /\ insert = NoTask
        /\ incoming' \in Seq(Message)
        /\ Once(incoming')
        /\ Elems(incoming') \subseteq Elems(incoming)
        /\ Queued' \subseteq Queued
        /\ c \in Queued
        /\ c \notin Queued'
        /\ call[c].at = "asked"
    BY <1>0, Received, AskedIs DEF Waits
  <1>3. /\ call' \in [Clients -> Calls]
        /\ \A d : d # c => call'[d] = call[d]
    BY <1>0, <1>1, <1>2, CallChange
  <1>4. MTypeOK'
    BY <1>1, <1>2, <1>3 DEF MTypeOK
  <1>5. Answerees' = {} /\ \A key : Joiners(key)' = Joiners(key)
    BY <1>2 DEF Answerees, Joiners
  <1>6. Apart'
    BY <1>1, <1>2, <1>5 DEF Apart
  <1>7. Asking'
    <2>1. ASSUME NEW m \in Elems(incoming')
          PROVE  /\ Waits(m.req) => call'[m.client] = Asked(m.req)
                 /\ m.req.kind # "shutdown"
      <3>1. Waits(m.req) => m.client \in Queued'
        BY <2>1 DEF Queued
      <3>2. Waits(m.req) => call[m.client] = Asked(m.req) /\ m.client # c
        BY <1>1, <1>2, <2>1, <3>1 DEF Asking
      <3>3. m.req.kind # "shutdown"
        BY <1>1, <1>2, <2>1 DEF Asking
      <3> QED
        BY <1>3, <3>2, <3>3
    <2>2. ASSUME NEW key \in DOMAIN pending_tasks, NEW d \in Joiners(key)
          PROVE  WantsFork(d, key.url)' /\ call'[d].req.number = key.number
      <3>1. d # c /\ call'[d] = call[d]
        BY <1>1, <1>2, <1>3, <2>2 DEF Apart
      <3> QED
        BY <1>1, <2>2, <3>1 DEF Asking, WantsFork
    <2> QED
      BY <1>5, <2>1, <2>2 DEF Asking
  <1> QED
    BY <1>4, <1>6, <1>7, ForksSame DEF MInv

\* Requests nobody waits for.
LEMMA NoReply ==
    ASSUME MInv, Receive("update") \/ Receive("shutdown"), UNCHANGED <<call, pending_tasks, insert>>
    PROVE  /\ incoming' \in Seq(Message)
           /\ Apart'
           /\ Asking'
  <1>1. Apart /\ Asking
    BY DEF MInv
  <1>2. /\ incoming' \in Seq(Message)
        /\ Once(incoming')
        /\ Elems(incoming') \subseteq Elems(incoming)
        /\ Queued' \subseteq Queued
    BY Received
  <1>3. Answerees' = Answerees /\ \A key : Joiners(key)' = Joiners(key)
    BY DEF Answerees, Joiners
  <1>4. Apart'
    BY <1>1, <1>2, <1>3 DEF Apart
  <1>5. Asking'
    BY <1>1, <1>2, <1>3 DEF Asking, WantsFork
  <1> QED
    BY <1>2, <1>4, <1>5

LEMMA UpdateBlockMInv == ASSUME MInv, OnUpdateBlock PROVE MInv'
  <1>1. MTypeOK /\ ForksShare /\ InsertReady
    BY DEF MInv
  <1>2. /\ Receive("update")
        /\ UNCHANGED <<call, env, pending_tasks, num_senders, handlers, insert>>
    BY DEF OnUpdateBlock, clientVars
  <1>3. Request1.client \in Clients
    BY <1>2, Received
  <1>4. /\ DOMAIN forks' = DOMAIN forks
        /\ \A id \in DOMAIN forks : forks'[id] \in Fork /\ forks'[id].backend = forks[id].backend
    <2>1. forks' = [id \in DOMAIN forks |->
                       IF id = Request1.req.id THEN [forks[id] EXCEPT !.env = Request1.client]
                       ELSE forks[id]]
      BY DEF OnUpdateBlock
    <2>2. \A id \in DOMAIN forks : forks[id] \in Fork
      BY <1>1 DEF MTypeOK
    <2> QED
      BY <1>3, <2>1, <2>2 DEF Fork
  <1>5. incoming' \in Seq(Message) /\ Apart' /\ Asking'
    BY <1>2, NoReply
  <1>6. MTypeOK'
    BY <1>1, <1>2, <1>4, <1>5 DEF MTypeOK
  <1>7. ForksShare'
    BY <1>1, <1>2, <1>4 DEF ForksShare, Below
  <1>8. InsertReady'
    BY <1>1, <1>2, <1>4 DEF InsertReady, Below
  <1> QED
    BY <1>5, <1>6, <1>7, <1>8 DEF MInv

LEMMA ShutDownMInv == ASSUME MInv, OnShutDown PROVE MInv'
  <1>1. MTypeOK
    BY DEF MInv
  <1>2. /\ Receive("shutdown")
        /\ DOMAIN forks' = {}
        /\ UNCHANGED <<call, env, pending_tasks, num_senders, insert>>
    BY DEF OnShutDown, clientVars
  <1>3. incoming' \in Seq(Message) /\ Apart' /\ Asking'
    BY <1>2, NoReply
  <1>4. MTypeOK'
    BY <1>1, <1>2, <1>3 DEF MTypeOK
  <1>5. insert' = NoTask
    BY <1>2, Received
  <1>6. ForksShare' /\ InsertReady'
    BY <1>2, <1>5 DEF ForksShare, InsertReady
  <1> QED
    BY <1>3, <1>4, <1>6 DEF MInv

\* The clients of a task that ended are the next ones to be answered.
LEMMA TaskClients ==
    ASSUME MInv, NEW key \in DOMAIN pending_tasks, insert = NoTask,
           insert'.clients = pending_tasks[key].clients,
           insert'.ok => insert'.id.url = key.url /\ key.number \in {Latest, insert'.id.number},
           pending_tasks' = Without(pending_tasks, key),
           UNCHANGED <<call, incoming>>
    PROVE  /\ DOMAIN pending_tasks' \subseteq Keys
           /\ \A k \in DOMAIN pending_tasks' : pending_tasks'[k].clients \in Waiters
           /\ Apart'
           /\ Asking'
  <1>1. MTypeOK /\ Apart /\ Asking
    BY DEF MInv
  <1>2. /\ DOMAIN pending_tasks' = DOMAIN pending_tasks \ {key}
        /\ \A k \in DOMAIN pending_tasks' : pending_tasks'[k] = pending_tasks[k]
    BY DEF Without
  <1>3. /\ Queued' = Queued
        /\ Answerees' = Joiners(key)
        /\ \A k \in DOMAIN pending_tasks' : Joiners(k)' = Joiners(k)
    BY <1>2 DEF Queued, Answerees, Joiners
  <1>4. Apart'
    BY <1>1, <1>2, <1>3 DEF Apart
  <1>5. \A d, url : WantsFork(d, url)' = WantsFork(d, url)
    BY DEF WantsFork
  <1>6. Asking'
    <2>1. ASSUME NEW d \in Joiners(key)
          PROVE  /\ call[d].at = "asked" /\ call[d].req.kind \in {"create", "roll"}
                 /\ insert'.ok => /\ WantsFork(d, insert'.id.url)
                                  /\ call[d].req.number \in {Latest, insert'.id.number}
      BY <1>1, <2>1 DEF Asking, WantsFork
    <2>2. \A d \in Answerees' : insert'.ok => WantsFork(d, insert.id.url)'
      BY <1>3, <2>1 DEF WantsFork
    <2>3. \A k \in DOMAIN pending_tasks' : \A d \in Joiners(k)' :
            WantsFork(d, k.url)' /\ call'[d].req.number = k.number
      BY <1>1, <1>2, <1>3, <1>5 DEF Asking
    <2>4. \A d \in Answerees' :
            /\ call'[d].at = "asked" /\ call'[d].req.kind \in {"create", "roll"}
            /\ insert'.ok => call'[d].req.number \in {Latest, insert'.id.number}
      BY <1>3, <2>1
    <2>5. \A m \in Elems(incoming') :
            /\ Waits(m.req) => call'[m.client] = Asked(m.req)
            /\ m.req.kind = "shutdown" => \A d \in Clients : call'[d].at = "closed"
      BY <1>1 DEF Asking
    <2> QED
      BY <2>2, <2>3, <2>4, <2>5 DEF Asking
  <1> QED
    BY <1>1, <1>2, <1>4, <1>6 DEF MTypeOK

LEMMA TaskFailsMInv ==
    ASSUME MInv, NEW key \in DOMAIN pending_tasks, TaskFails(key) PROVE MInv'
  <1>1. MTypeOK /\ ForksShare
    BY DEF MInv
  <1>2. /\ insert = NoTask
        /\ insert' = [clients |-> pending_tasks[key].clients, ok |-> FALSE]
        /\ pending_tasks' = Without(pending_tasks, key)
        /\ UNCHANGED <<call, env, incoming, forks, num_senders, handlers>>
    BY DEF TaskFails, Polling, clientVars
  <1>3. insert'.clients = pending_tasks[key].clients /\ insert'.ok = FALSE
    BY <1>2
  <1>4. /\ DOMAIN pending_tasks' \subseteq Keys
        /\ \A k \in DOMAIN pending_tasks' : pending_tasks'[k].clients \in Waiters
        /\ Apart'
        /\ Asking'
    BY <1>2, <1>3, TaskClients
  <1>5. insert' \in [clients : Waiters, ok : {FALSE}]
    BY <1>1, <1>2 DEF MTypeOK
  <1>6. MTypeOK'
    BY <1>1, <1>2, <1>4, <1>5 DEF MTypeOK
  <1>7. ForksShare' /\ InsertReady'
    BY <1>1, <1>2, <1>3 DEF ForksShare, InsertReady, Below
  <1> QED
    BY <1>4, <1>6, <1>7 DEF MInv

\* A number of the counter is in no id of its backend yet.
LEMMA NewSuffix ==
    ASSUME MInv, NEW id \in Ids, Base(id) \in DOMAIN forks,
           NEW n \in Nat, n = num_senders[forks[Base(id)].backend]
    PROVE  WithSender(id, n) \notin DOMAIN forks
  <1> SUFFICES ASSUME WithSender(id, n) \in DOMAIN forks PROVE FALSE
    OBVIOUS
  <1>1. ForksShare
    BY DEF MInv
  <1>2. Base(WithSender(id, n)) = Base(id) /\ n \in Elems(WithSender(id, n).senders)
    BY SenderId
  <1>3. n < num_senders[forks[Base(id)].backend]
    BY <1>1, <1>2 DEF ForksShare, Below
  <1> QED
    BY <1>3

\* The block has a fork: its backend is used, and its handler.
LEMMA TaskReadyOld ==
    ASSUME MInv, NEW key \in DOMAIN pending_tasks, NEW number \in Blocks,
           TaskReady(key, number), ForkId(key.url, number) \in DOMAIN forks
    PROVE  MInv'
  <1>0. PICK id, b, n : /\ id = ForkId(key.url, number)
                        /\ b = forks[id].backend
                        /\ n = num_senders[b]
    OBVIOUS
  <1>1. MTypeOK /\ ForksShare
    BY DEF MInv
  <1>2. key.url \in Urls
    BY <1>1 DEF MTypeOK, Keys, ForkId
  <1>3. /\ id \in Ids /\ id \in DOMAIN forks
        /\ Base(id) = id
        /\ id.url = key.url
        /\ id.number = number
        /\ Elems(id.senders) = {}
    BY <1>0, <1>2, BaseId
  <1>4. forks[id] \in Fork /\ b \in handlers /\ b \in DOMAIN num_senders
    BY <1>0, <1>1, <1>3 DEF MTypeOK, ForksShare
  <1>5. num_senders \in Seq(Nat) /\ n \in Nat
    BY <1>0, <1>1, <1>4 DEF MTypeOK
  <1>6. [forks[id] EXCEPT !.backend = b] = forks[id]
    BY <1>0, <1>4 DEF Fork
  <1>7. /\ insert = NoTask
        /\ Resolves(key, number)
        /\ insert' = [clients |-> pending_tasks[key].clients, ok |-> TRUE,
                      id |-> WithSender(id, n), fork |-> forks[id], first |-> TRUE]
        /\ num_senders' = Append([num_senders EXCEPT ![b] = n + 1], 1)
        /\ pending_tasks' = Without(pending_tasks, key)
        /\ UNCHANGED <<call, env, incoming, forks, handlers>>
    BY <1>0, <1>6 DEF TaskReady, Polling, BackendOf, clientVars
  <1>8. /\ WithSender(id, n) \in Ids
        /\ WithSender(id, n).url = key.url
        /\ WithSender(id, n).number = number
        /\ Base(WithSender(id, n)) = id
        /\ Elems(WithSender(id, n).senders) = {n}
    BY <1>3, <1>5, SenderId
  <1>9. /\ insert'.clients = pending_tasks[key].clients
        /\ insert'.ok = TRUE
        /\ insert'.id = WithSender(id, n)
        /\ insert'.fork = forks[id]
        /\ insert'.first = TRUE
    BY <1>7
  <1>10. /\ num_senders' \in Seq(Nat)
         /\ DOMAIN num_senders \subseteq DOMAIN num_senders'
         /\ num_senders'[b] = n + 1
         /\ \A m \in DOMAIN num_senders \ {b} : num_senders'[m] = num_senders[m]
    <2>1. PICK s : s = [num_senders EXCEPT ![b] = n + 1]
      OBVIOUS
    <2>2. /\ s \in Seq(Nat)
          /\ DOMAIN s = DOMAIN num_senders
          /\ s[b] = n + 1
          /\ \A m \in DOMAIN num_senders \ {b} : s[m] = num_senders[m]
      BY <1>4, <1>5, <2>1, ExceptSenders
    <2>3. /\ Append(s, 1) \in Seq(Nat)
          /\ DOMAIN Append(s, 1) = DOMAIN s \cup {Len(s) + 1}
          /\ \A m \in DOMAIN s : Append(s, 1)[m] = s[m]
      BY <2>2, AppendSenders
    <2> QED
      BY <1>4, <1>7, <2>1, <2>2, <2>3
  <1>11. key.number \in {Latest, number}
    BY <1>7 DEF Resolves
  <1>12. /\ DOMAIN pending_tasks' \subseteq Keys
         /\ \A k \in DOMAIN pending_tasks' : pending_tasks'[k].clients \in Waiters
         /\ Apart'
         /\ Asking'
    BY <1>7, <1>8, <1>9, <1>11, TaskClients
  <1>13. MTypeOK'
    <2>1. insert' \in [clients : Waiters, ok : {TRUE}, id : Ids, fork : Fork, first : BOOLEAN]
      BY <1>1, <1>4, <1>7, <1>8 DEF MTypeOK
    <2> QED
      BY <1>1, <1>7, <1>10, <1>12, <2>1 DEF MTypeOK
  <1>14. ForksShare'
    <2> SUFFICES ASSUME NEW i \in DOMAIN forks
                 PROVE  /\ forks[i].backend \in handlers
                        /\ forks[i].backend \in DOMAIN num_senders'
                        /\ Base(i) \in DOMAIN forks
                        /\ forks[i].backend = forks[Base(i)].backend
                        /\ \A m \in Elems(i.senders) : m < num_senders'[forks[i].backend]
      BY <1>7 DEF ForksShare, Below
    <2>1. /\ forks[i].backend \in handlers
          /\ forks[i].backend \in DOMAIN num_senders
          /\ Base(i) \in DOMAIN forks
          /\ forks[i].backend = forks[Base(i)].backend
          /\ \A m \in Elems(i.senders) : m < num_senders[forks[i].backend]
      BY <1>1 DEF ForksShare, Below
    <2>2. \A m \in Elems(i.senders) : m \in Nat
      BY <1>1 DEF MTypeOK, Ids, Elems
    <2>3. \A m \in Elems(i.senders) : m < num_senders'[forks[i].backend]
      <3>1. CASE forks[i].backend = b
        BY <1>0, <1>5, <1>10, <2>1, <2>2, <3>1
      <3>2. CASE forks[i].backend # b
        BY <1>10, <2>1, <3>2
      <3> QED
        BY <3>1, <3>2
    <2> QED
      BY <1>10, <2>1, <2>3
  <1>15. InsertReady'
    <2>1. WithSender(id, n) \notin DOMAIN forks
      BY <1>0, <1>3, <1>5, NewSuffix
    <2>2. Below(insert.id, insert.fork.backend)'
      <3>1. insert'.fork.backend = b /\ Elems(insert'.id.senders) = {n}
        BY <1>0, <1>8, <1>9
      <3>2. n < num_senders'[b]
        BY <1>5, <1>10
      <3> QED
        BY <3>1, <3>2 DEF Below
    <2>3. Base(insert'.id) \in DOMAIN forks /\ forks[Base(insert'.id)].backend = b
      BY <1>0, <1>3, <1>8, <1>9
    <2>4. insert'.fork.backend = b
      BY <1>0, <1>9
    <2>5. Base(insert.id)' = Base(insert'.id)
      BY DEF Base
    <2> QED
      BY <1>4, <1>7, <1>9, <1>10, <2>1, <2>2, <2>3, <2>4, <2>5 DEF InsertReady
  <1> QED
    BY <1>12, <1>13, <1>14, <1>15 DEF MInv

\* The block has no fork yet: its backend is new, and its handler driven.
LEMMA TaskReadyNew ==
    ASSUME MInv, NEW key \in DOMAIN pending_tasks, NEW number \in Blocks,
           TaskReady(key, number), ForkId(key.url, number) \notin DOMAIN forks
    PROVE  MInv'
  <1>0. PICK id, b : id = ForkId(key.url, number) /\ b = Len(num_senders) + 1
    OBVIOUS
  <1>1. MTypeOK /\ ForksShare
    BY DEF MInv
  <1>2. key.url \in Urls
    BY <1>1 DEF MTypeOK, Keys, ForkId
  <1>3. /\ id \in Ids /\ id \notin DOMAIN forks
        /\ Base(id) = id
        /\ id.url = key.url
        /\ id.number = number
        /\ Elems(id.senders) = {}
    BY <1>0, <1>2, BaseId
  <1>4. num_senders \in Seq(Nat) /\ b \in Nat
    BY <1>0, <1>1 DEF MTypeOK
  <1>5. /\ insert = NoTask
        /\ Resolves(key, number)
        /\ insert' = [clients |-> pending_tasks[key].clients, ok |-> TRUE, id |-> id,
                      fork |-> [backend |-> b, env |-> Nobody], first |-> TRUE]
        /\ num_senders' = Append(num_senders, 1)
        /\ handlers' = handlers \cup {b}
        /\ pending_tasks' = Without(pending_tasks, key)
        /\ UNCHANGED <<call, env, incoming, forks>>
    BY <1>0 DEF TaskReady, Polling, clientVars
  <1>6. /\ insert'.clients = pending_tasks[key].clients
        /\ insert'.ok = TRUE
        /\ insert'.id = id
        /\ insert'.fork = [backend |-> b, env |-> Nobody]
        /\ insert'.fork.backend = b
        /\ insert'.first = TRUE
    BY <1>5
  <1>7. /\ num_senders' \in Seq(Nat)
        /\ DOMAIN num_senders' = DOMAIN num_senders \cup {b}
        /\ \A m \in DOMAIN num_senders : num_senders'[m] = num_senders[m]
    BY <1>0, <1>4, <1>5, AppendSenders
  <1>8. key.number \in {Latest, number}
    BY <1>5 DEF Resolves
  <1>9. /\ DOMAIN pending_tasks' \subseteq Keys
        /\ \A k \in DOMAIN pending_tasks' : pending_tasks'[k].clients \in Waiters
        /\ Apart'
        /\ Asking'
    BY <1>3, <1>5, <1>6, <1>8, TaskClients
  <1>10. MTypeOK'
    <2>1. [backend |-> b, env |-> Nobody] \in Fork
      BY <1>4 DEF Fork
    <2>2. insert' \in [clients : Waiters, ok : {TRUE}, id : Ids, fork : Fork, first : BOOLEAN]
      BY <1>1, <1>3, <1>5, <2>1 DEF MTypeOK
    <2> QED
      BY <1>1, <1>5, <1>7, <1>9, <2>2 DEF MTypeOK
  <1>11. ForksShare'
    BY <1>1, <1>5, <1>7 DEF ForksShare, Below
  <1>12. InsertReady'
    <2>1. Base(insert.id)' = id
      BY <1>3, <1>6 DEF Base
    <2>2. Below(insert.id, insert.fork.backend)'
      BY <1>3, <1>6 DEF Below
    <2> QED
      BY <1>3, <1>5, <1>6, <1>7, <2>1, <2>2 DEF InsertReady
  <1> QED
    BY <1>9, <1>10, <1>11, <1>12 DEF MInv

\* The first client of the list is answered, and its place taken by the next.
LEMMA AnswerClients ==
    ASSUME MInv, insert # NoTask,
           NEW c, c = Head(insert.clients),
           NEW v \in Calls, call' = [call EXCEPT ![c] = v],
           insert'.clients = Tail(insert.clients),
           Tail(insert.clients) # <<>> =>
               insert'.ok = insert.ok /\ (insert.ok => insert'.id = insert.id),
           UNCHANGED <<pending_tasks, incoming>>
    PROVE  /\ c \in Clients
           /\ call[c].at = "asked" /\ call[c].req.kind \in {"create", "roll"}
           /\ insert.ok => /\ WantsFork(c, insert.id.url)
                           /\ call[c].req.number \in {Latest, insert.id.number}
           /\ call' \in [Clients -> Calls]
           /\ Tail(insert.clients) # <<>> => Tail(insert.clients) \in Waiters
           /\ Apart'
           /\ Asking'
  <1>1. MTypeOK /\ Apart /\ Asking
    BY DEF MInv
  <1>2. insert.clients \in Seq(Clients) /\ insert.clients # <<>>
    BY <1>1 DEF MTypeOK, Waiters
  <1>3. /\ c \in Clients
        /\ Tail(insert.clients) \in Seq(Clients)
        /\ Answerees = {c} \cup Elems(Tail(insert.clients))
        /\ Distinct(Tail(insert.clients))
        /\ c \notin Elems(Tail(insert.clients))
    <2>1. Distinct(insert.clients)
      BY <1>1 DEF Apart
    <2>2. Head(insert.clients) \in Clients /\ Tail(insert.clients) \in Seq(Clients)
      BY <1>2, TailFacts
    <2> QED
      BY <1>2, <2>1, <2>2, ElemsTail DEF Answerees
  <1>4. /\ call[c].at = "asked" /\ call[c].req.kind \in {"create", "roll"}
        /\ insert.ok => /\ WantsFork(c, insert.id.url)
                        /\ call[c].req.number \in {Latest, insert.id.number}
    BY <1>1, <1>3 DEF Asking
  <1>5. /\ call' \in [Clients -> Calls]
        /\ \A d : d # c => call'[d] = call[d]
    BY <1>1, <1>3, CallChange
  <1>6. /\ Queued' = Queued
        /\ Answerees' = Answerees \ {c}
        /\ \A key : Joiners(key)' = Joiners(key)
    BY <1>3 DEF Queued, Answerees, Joiners
  <1>7. Apart'
    BY <1>1, <1>3, <1>6 DEF Apart
  <1>8. Asking'
    <2>1. ASSUME NEW m \in Elems(incoming)
          PROVE  /\ Waits(m.req) => call'[m.client] = Asked(m.req)
                 /\ m.req.kind # "shutdown"
      <3>1. Waits(m.req) => m.client \in Queued
        BY <2>1 DEF Queued
      <3>2. Waits(m.req) => call[m.client] = Asked(m.req) /\ m.client # c
        BY <1>1, <1>3, <2>1, <3>1 DEF Asking, Apart
      <3>3. m.req.kind # "shutdown"
        BY <1>1, <1>3, <1>4, <2>1 DEF Asking
      <3> QED
        BY <1>5, <3>2, <3>3
    <2>2. ASSUME NEW key \in DOMAIN pending_tasks, NEW d \in Joiners(key)
          PROVE  WantsFork(d, key.url)' /\ call'[d].req.number = key.number
      <3>1. d # c /\ call'[d] = call[d]
        BY <1>1, <1>3, <1>5, <2>2 DEF Apart
      <3> QED
        BY <1>1, <2>2, <3>1 DEF Asking, WantsFork
    <2>3. ASSUME NEW d \in Answerees'
          PROVE  /\ call'[d].at = "asked" /\ call'[d].req.kind \in {"create", "roll"}
                 /\ insert'.ok => /\ WantsFork(d, insert.id.url)'
                                  /\ call'[d].req.number \in {Latest, insert'.id.number}
      <3>1. d \in Answerees /\ call'[d] = call[d]
        BY <1>5, <1>6, <2>3
      <3>2. Tail(insert.clients) # <<>>
        BY <2>3 DEF Answerees, Elems
      <3>3. insert'.ok => insert.ok /\ insert'.id = insert.id
        BY <3>2
      <3> QED
        BY <1>1, <3>1, <3>3 DEF Asking, WantsFork
    <2> QED
      BY <1>6, <2>1, <2>2, <2>3 DEF Asking
  <1> QED
    BY <1>3, <1>4, <1>5, <1>7, <1>8 DEF Waiters

LEMMA CallTypes == Refused \in Calls /\ \A id \in Ids : Got(id) \in Calls
  BY DEF Calls

LEMMA SendErrorMInv == ASSUME MInv, SendError PROVE MInv'
  <1>0. PICK c : c = Head(insert.clients)
    OBVIOUS
  <1>1. MTypeOK /\ ForksShare
    BY DEF MInv
  <1>2. /\ insert # NoTask
        /\ ~insert.ok
        /\ call' = [call EXCEPT ![c] = Refused]
        /\ insert' = IF Tail(insert.clients) = <<>> THEN NoTask
                     ELSE [clients |-> Tail(insert.clients), ok |-> FALSE]
        /\ UNCHANGED <<env, incoming, pending_tasks, forks, num_senders, handlers>>
    BY <1>0 DEF SendError
  <1>3. /\ insert'.clients = Tail(insert.clients)
        /\ Tail(insert.clients) # <<>> => insert'.ok = FALSE
    BY <1>2 DEF NoTask
  <1>4. insert.ok \in BOOLEAN
    BY <1>1, <1>2 DEF MTypeOK
  <1>5. /\ call' \in [Clients -> Calls]
        /\ Tail(insert.clients) # <<>> => Tail(insert.clients) \in Waiters
        /\ Apart'
        /\ Asking'
    BY <1>0, <1>2, <1>3, <1>4, CallTypes, AnswerClients
  <1>6. insert' = NoTask \/ (insert' \in [clients : Waiters, ok : {FALSE}] /\ ~insert'.ok)
    BY <1>2, <1>3, <1>5
  <1>7. MTypeOK'
    BY <1>1, <1>2, <1>5, <1>6 DEF MTypeOK
  <1>8. ForksShare' /\ InsertReady'
    BY <1>1, <1>2, <1>6 DEF ForksShare, InsertReady, Below
  <1> QED
    BY <1>5, <1>7, <1>8 DEF MInv

\* The id the next client is given.
InsertId == IF insert.first THEN insert.id
            ELSE WithSender(insert.id, num_senders[insert.fork.backend])

LEMMA InsertFacts ==
    ASSUME MInv, insert # NoTask, insert.ok
    PROVE  /\ insert.id \in Ids /\ insert.fork \in Fork /\ insert.first \in BOOLEAN
           /\ insert.fork.backend \in handlers
           /\ insert.fork.backend \in DOMAIN num_senders
           /\ num_senders[insert.fork.backend] \in Nat
           /\ InsertId \in Ids
           /\ InsertId \notin DOMAIN forks
           /\ InsertId.url = insert.id.url
           /\ InsertId.number = insert.id.number
           /\ Base(InsertId) = Base(insert.id)
           /\ Elems(InsertId.senders) \subseteq
                 Elems(insert.id.senders) \cup
                     (IF insert.first THEN {} ELSE {num_senders[insert.fork.backend]})
  <1>1. MTypeOK /\ InsertReady
    BY DEF MInv
  <1>2. insert \in [clients : Waiters, ok : {TRUE}, id : Ids, fork : Fork, first : BOOLEAN]
    BY <1>1 DEF MTypeOK
  <1>3. insert.id \in Ids /\ insert.fork \in Fork /\ insert.first \in BOOLEAN
    BY <1>2
  <1>4. /\ insert.fork.backend \in handlers
        /\ insert.fork.backend \in DOMAIN num_senders
    BY <1>1 DEF InsertReady
  <1>5. num_senders[insert.fork.backend] \in Nat
    BY <1>1, <1>4 DEF MTypeOK
  <1>6. CASE insert.first
    BY <1>1, <1>3, <1>4, <1>5, <1>6 DEF InsertReady, InsertId
  <1>7. CASE ~insert.first
    <2>1. /\ Base(insert.id) \in DOMAIN forks
          /\ insert.fork.backend = forks[Base(insert.id)].backend
      BY <1>1, <1>7 DEF InsertReady
    <2>2. PICK n \in Nat : n = num_senders[insert.fork.backend]
      BY <1>5
    <2>3. InsertId = WithSender(insert.id, n)
      BY <1>7, <2>2 DEF InsertId
    <2>4. InsertId \notin DOMAIN forks
      BY <1>3, <2>1, <2>2, <2>3, NewSuffix
    <2>5. /\ InsertId \in Ids
          /\ InsertId.url = insert.id.url
          /\ InsertId.number = insert.id.number
          /\ Base(InsertId) = Base(insert.id)
          /\ Elems(InsertId.senders) = Elems(insert.id.senders) \cup {n}
      BY <1>3, <2>3, SenderId
    <2> QED
      BY <1>3, <1>4, <1>5, <1>7, <2>2, <2>4, <2>5
  <1> QED
    BY <1>6, <1>7

LEMMA InsertMInv == ASSUME MInv, InsertNewFork PROVE MInv'
  <1>0. PICK c, id, b, base : /\ c = Head(insert.clients)
                              /\ id = InsertId
                              /\ b = insert.fork.backend
                              /\ base = Base(insert.id)
    OBVIOUS
  <1>1. MTypeOK /\ ForksShare /\ InsertReady
    BY DEF MInv
  <1>2. /\ insert # NoTask
        /\ insert.ok
        /\ forks' = With(forks, id, insert.fork)
        /\ call' = [call EXCEPT ![c] = Got(id)]
        /\ env' = [env EXCEPT ![c] = insert.fork.env]
        /\ num_senders' = IF insert.first THEN num_senders
                          ELSE [num_senders EXCEPT ![b] = num_senders[b] + 1]
        /\ insert' = IF Tail(insert.clients) = <<>> THEN NoTask
                     ELSE [clients |-> Tail(insert.clients), ok |-> TRUE, id |-> insert.id,
                           fork |-> insert.fork, first |-> FALSE]
        /\ UNCHANGED <<incoming, pending_tasks, handlers>>
    BY <1>0 DEF InsertNewFork, InsertId
  <1>3. /\ insert.id \in Ids /\ insert.fork \in Fork /\ insert.first \in BOOLEAN
        /\ b \in handlers
        /\ b \in DOMAIN num_senders
        /\ num_senders[b] \in Nat
        /\ id \in Ids
        /\ id \notin DOMAIN forks
        /\ Base(id) = base
        /\ Elems(id.senders) \subseteq
              Elems(insert.id.senders) \cup (IF insert.first THEN {} ELSE {num_senders[b]})
    BY <1>0, <1>2, InsertFacts
  <1>4. /\ insert'.clients = Tail(insert.clients)
        /\ Tail(insert.clients) # <<>> =>
              /\ insert'.ok = TRUE
              /\ insert'.id = insert.id
              /\ insert'.fork = insert.fork
              /\ insert'.first = FALSE
    BY <1>2 DEF NoTask
  <1>5. Got(id) \in Calls
    BY <1>3, CallTypes
  <1>6. insert.ok = TRUE
    BY <1>1, <1>2 DEF MTypeOK
  <1>7. /\ c \in Clients
        /\ call' \in [Clients -> Calls]
        /\ Tail(insert.clients) # <<>> => Tail(insert.clients) \in Waiters
        /\ Apart'
        /\ Asking'
    BY <1>0, <1>2, <1>4, <1>5, <1>6, AnswerClients
  <1>8. /\ num_senders' \in Seq(Nat)
        /\ DOMAIN num_senders' = DOMAIN num_senders
        /\ \A m \in DOMAIN num_senders \ {b} : num_senders'[m] = num_senders[m]
        /\ num_senders'[b] = IF insert.first THEN num_senders[b] ELSE num_senders[b] + 1
    <2>1. num_senders \in Seq(Nat)
      BY <1>1 DEF MTypeOK
    <2>2. CASE insert.first
      BY <1>2, <2>1, <2>2
    <2>3. CASE ~insert.first
      <3>1. num_senders' = [num_senders EXCEPT ![b] = num_senders[b] + 1] /\ num_senders[b] + 1 \in Nat
        BY <1>2, <1>3, <2>3
      <3> QED
        BY <1>3, <2>1, <2>3, <3>1, ExceptSenders
    <2> QED
      BY <2>2, <2>3
  <1>9. /\ DOMAIN forks' = DOMAIN forks \cup {id}
        /\ forks'[id] = insert.fork
        /\ \A i \in DOMAIN forks : forks'[i] = forks[i]
    BY <1>2, <1>3 DEF With
  <1>10. MTypeOK'
    <2>1. env' \in [Clients -> Clients \cup {Nobody}]
      BY <1>1, <1>2, <1>3, <1>7 DEF MTypeOK, Fork
    <2>2. \/ insert' = NoTask
          \/ insert' \in [clients : Waiters, ok : {TRUE}, id : Ids, fork : Fork, first : BOOLEAN]
      BY <1>2, <1>3, <1>7
    <2>3. DOMAIN forks' \subseteq Ids /\ \A i \in DOMAIN forks' : forks'[i] \in Fork
      BY <1>1, <1>3, <1>9 DEF MTypeOK
    <2> QED
      BY <1>1, <1>2, <1>7, <1>8, <2>1, <2>2, <2>3 DEF MTypeOK
  <1>11. \A i \in Ids : \A m \in Elems(i.senders) : m \in Nat
    BY DEF Ids, Elems
  <1>12. \A i \in Ids, a \in DOMAIN num_senders : Below(i, a) => Below(i, a)'
    <2> SUFFICES ASSUME NEW i \in Ids, NEW a \in DOMAIN num_senders, Below(i, a),
                        NEW m \in Elems(i.senders)
                 PROVE  m < num_senders'[a]
      BY DEF Below
    <2>1. m \in Nat /\ m < num_senders[a]
      BY <1>11 DEF Below
    <2> QED
      BY <1>3, <1>8, <2>1, SMTT(30)
  <1>13. base \in DOMAIN forks'/\ forks'[base].backend = b
    <2>1. CASE base \in DOMAIN forks
      BY <1>0, <1>1, <1>2, <1>9, <2>1 DEF InsertReady
    <2>2. CASE base \notin DOMAIN forks
      <3>1. id = base
        BY <1>0, <1>1, <1>2, <2>2 DEF InsertReady, InsertId
      <3> QED
        BY <1>0, <1>9, <3>1
    <2> QED
      BY <2>1, <2>2
  <1>14. Below(id, b)'
    <2> SUFFICES ASSUME NEW m \in Elems(id.senders) PROVE m < num_senders'[b]
      BY DEF Below
    <2>1. m \in Nat
      BY <1>3, <1>11
    <2>2. CASE m \in Elems(insert.id.senders)
      <3>1. m < num_senders[b]
        BY <1>0, <1>1, <1>2, <2>2 DEF InsertReady, Below
      <3> QED
        BY <1>3, <1>8, <2>1, <3>1
    <2>3. CASE m \notin Elems(insert.id.senders)
      <3>1. ~insert.first /\ m = num_senders[b]
        BY <1>3, <2>3
      <3> QED
        BY <1>3, <1>8, <3>1
    <2> QED
      BY <2>2, <2>3
  <1>15. ForksShare'
    <2> SUFFICES ASSUME NEW i \in DOMAIN forks'
                 PROVE  /\ forks'[i].backend \in handlers
                        /\ forks'[i].backend \in DOMAIN num_senders
                        /\ Base(i) \in DOMAIN forks'
                        /\ forks'[i].backend = forks'[Base(i)].backend
                        /\ \A m \in Elems(i.senders) : m < num_senders'[forks'[i].backend]
      BY <1>2, <1>8 DEF ForksShare, Below
    <2>1. CASE i = id
      <3>1. forks'[i].backend = b
        BY <1>0, <1>9, <2>1
      <3> QED
        BY <1>3, <1>13, <1>14, <2>1, <3>1 DEF Below
    <2>2. CASE i # id
      <3>1. i \in DOMAIN forks /\ i \in Ids
        BY <1>1, <1>9, <2>2 DEF MTypeOK
      <3>2. /\ forks[i].backend \in handlers
            /\ forks[i].backend \in DOMAIN num_senders
            /\ Base(i) \in DOMAIN forks
            /\ forks[i].backend = forks[Base(i)].backend
            /\ Below(i, forks[i].backend)
        BY <1>1, <3>1 DEF ForksShare
      <3>3. PICK a : a = forks[i].backend
        OBVIOUS
      <3>4. Below(i, a)' /\ forks'[i].backend = a
        BY <1>9, <1>12, <3>1, <3>2, <3>3
      <3>5. \A m \in Elems(i.senders) : m < num_senders'[forks'[i].backend]
        BY <3>4 DEF Below
      <3> QED
        BY <1>9, <3>1, <3>2, <3>5
    <2> QED
      BY <2>1, <2>2
  <1>16. InsertReady'
    <2>1. CASE Tail(insert.clients) = <<>>
      BY <1>2, <2>1 DEF InsertReady
    <2>2. CASE Tail(insert.clients) # <<>>
      <3>1. Below(insert.id, b)
        BY <1>0, <1>1, <1>2 DEF InsertReady
      <3>2. PICK i : i = insert.id
        OBVIOUS
      <3>3. Below(i, b)'
        BY <1>3, <1>12, <3>1, <3>2
      <3>4. insert'.id = i /\ insert'.fork.backend = b /\ insert'.first = FALSE
        BY <1>0, <1>4, <2>2, <3>2
      <3>5. Below(insert.id, insert.fork.backend)'
        BY <3>3, <3>4 DEF Below
      <3>6. Base(insert.id)' = base
        BY <1>0, <3>2, <3>4 DEF Base
      <3> QED
        BY <1>2, <1>3, <1>8, <1>13, <3>4, <3>5, <3>6 DEF InsertReady
    <2> QED
      BY <2>1, <2>2
  <1> QED
    BY <1>7, <1>10, <1>15, <1>16 DEF MInv

\* Nothing the invariant is about changes.
LEMMA SameMInv ==
    ASSUME MInv, UNCHANGED <<call, env, incoming, handlerVars>> PROVE MInv'
  <1>1. UNCHANGED <<call, env, incoming, pending_tasks, forks, num_senders, handlers, insert>>
    BY DEF handlerVars
  <1>2. MTypeOK'
    BY <1>1 DEF MInv, MTypeOK
  <1>3. /\ Queued' = Queued
        /\ Answerees' = Answerees
        /\ \A key : Joiners(key)' = Joiners(key)
        /\ \A c, url : WantsFork(c, url)' = WantsFork(c, url)
    BY <1>1 DEF Queued, Answerees, Joiners, WantsFork
  <1>4. Apart' /\ Asking'
    BY <1>1, <1>3 DEF MInv, Apart, Asking, WantsFork
  <1> QED
    BY <1>1, <1>2, <1>4, ForksSame DEF MInv

LEMMA AskedRequests ==
    ASSUME MTypeOK, NEW req \in Creations \cup Rolls(Known) \cup Lookups(Known)
    PROVE  req \in Requests /\ Waits(req) /\ Asked(req) \in Calls
  <1>1. \A id \in Known : id \in Ids
    BY BaseId DEF MTypeOK, Known
  <1>2. Rolls(Known) \subseteq Rolls(Ids) /\ Lookups(Known) \subseteq Lookups(Ids)
    BY <1>1 DEF Rolls, Lookups
  <1>3. req \in Requests
    BY <1>2 DEF Requests
  <1>4. req.kind \in {"create", "roll", "get"}
    BY DEF Creations, Rolls, Lookups, Request
  <1> QED
    BY <1>3, <1>4 DEF Waits, Calls

LEMMA ClientStepMInv == ASSUME MInv, NEW c \in Clients, ClientStep(c) PROVE MInv'
  <1>1. MTypeOK
    BY DEF MInv
  <1>2. ASSUME NEW req \in Creations \cup Rolls(Known) \cup Lookups(Known), Ask(c, req)
        PROVE  MInv'
    <2>1. PICK m : m = [client |-> c, req |-> req]
      OBVIOUS
    <2>2. req \in Requests /\ Waits(req) /\ Asked(req) \in Calls
      BY <1>1, <1>2, AskedRequests
    <2>3. m \in Message /\ m.client = c /\ m.req = req
      BY <2>1, <2>2 DEF Message
    <2>4. /\ call[c].at \notin {"asked", "closed"}
          /\ call' = [call EXCEPT ![c] = Asked(req)]
          /\ incoming' = Append(incoming, m)
          /\ UNCHANGED <<env, pending_tasks, forks, num_senders, handlers, insert>>
      BY <1>2, <2>1 DEF Ask, Send, handlerVars
    <2>5. m.req.kind # "shutdown"
      BY <2>2, <2>3 DEF Waits
    <2> QED
      BY <2>2, <2>3, <2>4, <2>5, ClientMInv
  <1>3. ASSUME NEW id \in DOMAIN forks, UpdateBlock(c, id) PROVE MInv'
    <2>1. PICK m : m = [client |-> c, req |-> Request("update", id, Latest)]
      OBVIOUS
    <2>2. m \in Message /\ m.client = c /\ m.req.kind = "update"
      BY <1>1, <1>3, <2>1 DEF Message, MTypeOK, Requests, Request
    <2>3. /\ call[c].at \notin {"asked", "closed"}
          /\ UNCHANGED call
          /\ incoming' = Append(incoming, m)
          /\ UNCHANGED <<env, pending_tasks, forks, num_senders, handlers, insert>>
      BY <1>3, <2>1 DEF UpdateBlock, Send, handlerVars
    <2>4. call' = [call EXCEPT ![c] = call[c]] /\ call[c] \in Calls
      BY <1>1, <2>3 DEF MTypeOK
    <2> QED
      BY <2>2, <2>3, <2>4, ClientMInv DEF Waits
  <1>4. CASE DropMultiFork(c)
    <2>1. PICK m : m = [client |-> c, req |-> [kind |-> "shutdown"]]
      OBVIOUS
    <2>2. m \in Message /\ m.client = c /\ m.req.kind = "shutdown"
      BY <2>1 DEF Message, Requests
    <2>3. PICK v \in Calls : v = [at |-> "closed"]
      BY DEF Calls
    <2>4. /\ call[c].at \notin {"asked", "closed"}
          /\ call' = [call EXCEPT ![c] = v]
          /\ incoming' \in {incoming, Append(incoming, m)}
          /\ incoming' # incoming => \A d \in Clients \ {c} : call[d].at = "closed"
          /\ UNCHANGED <<env, pending_tasks, forks, num_senders, handlers, insert>>
      BY <1>4, <2>1, <2>3 DEF DropMultiFork, handlerVars
    <2>5. call'[c] = v /\ \A d : d # c => call'[d] = call[d]
      BY <1>1, <2>4, CallChange
    <2>6. incoming' # incoming => \A d \in Clients : call'[d].at = "closed"
      BY <2>3, <2>4, <2>5
    <2> QED
      BY <2>2, <2>4, <2>6, ClientMInv DEF Waits
  <1> QED
    BY <1>2, <1>3, <1>4 DEF ClientStep

LEMMA RequestMInv == ASSUME MInv, OnRequest PROVE MInv'
  <1>1. CASE OnCreateFork
    BY <1>1, JoinMInv DEF OnCreateFork, clientVars
  <1>2. CASE OnRollFork
    <2>1. Receive("roll") /\ UNCHANGED <<env, forks, num_senders, handlers, insert>>
      BY <1>2 DEF OnRollFork
    <2>2. CASE Request1.req.id \in DOMAIN forks
      BY <1>2, <2>1, <2>2, JoinMInv DEF OnRollFork
    <2>3. CASE Request1.req.id \notin DOMAIN forks
      BY <1>2, <2>1, <2>3, CallTypes, ReplyMInv DEF OnRollFork
    <2> QED
      BY <2>2, <2>3
  <1>3. CASE OnGet
    <2>1. PICK v : v = IF Request1.req.id \in DOMAIN forks THEN Got(Request1.req.id) ELSE Refused
      OBVIOUS
    <2>2. /\ Receive("get")
          /\ call' = [call EXCEPT ![Request1.client] = v]
          /\ UNCHANGED <<env, pending_tasks, forks, num_senders, handlers, insert>>
      BY <1>3, <2>1 DEF OnGet, handlerVars
    <2>3. v \in Calls
      BY <2>1, CallTypes DEF MInv, MTypeOK
    <2> QED
      BY <2>2, <2>3, ReplyMInv
  <1>4. CASE OnUpdateBlock
    BY <1>4, UpdateBlockMInv
  <1>5. CASE OnShutDown
    BY <1>5, ShutDownMInv
  <1> QED
    BY <1>1, <1>2, <1>3, <1>4, <1>5 DEF OnRequest

LEMMA NextMInv == ASSUME MInv, [Next]_vars PROVE MInv'
  <1>1. ASSUME NEW c \in Clients, ClientStep(c) PROVE MInv'
    BY <1>1, ClientStepMInv
  <1>2. CASE OnRequest
    BY <1>2, RequestMInv
  <1>3. ASSUME NEW key \in Keys, TaskEnds(key) PROVE MInv'
    BY <1>3, TaskFailsMInv, TaskReadyOld, TaskReadyNew DEF TaskEnds
  <1>4. CASE Answering
    BY <1>4, InsertMInv, SendErrorMInv DEF Answering
  <1>5. ASSUME NEW url \in Urls, RemoteBlock(url) PROVE MInv'
    BY <1>5, SameMInv DEF RemoteBlock, clientVars
  <1>6. CASE UNCHANGED vars
    BY <1>6, SameMInv DEF vars, clientVars
  <1> QED
    BY <1>1, <1>2, <1>3, <1>4, <1>5, <1>6 DEF Next

LEMMA AlwaysMInv == Spec => []MInv
  <1>1. Init => MInv
    BY InitMInv
  <1>2. MInv /\ [Next]_vars => MInv'
    BY NextMInv
  <1> QED
    BY <1>1, <1>2, PTL DEF Spec

-----------------------------------------------------------------------------
(* A fork a client can use has a backend whose handler the                 *)
(* MultiForkHandler drives, and all forks of a block have the same one,    *)
(* whatever requests for the block were on their way while it was created. *)
THEOREM AlwaysDriven == Spec => []BackendsDriven
  <1>1. MInv => BackendsDriven
    <2> SUFFICES ASSUME MInv PROVE BackendsDriven
      OBVIOUS
    <2>1. ForksShare
      BY DEF MInv
    <2>2. \A a, b : a.url = b.url /\ a.number = b.number => Base(a) = Base(b)
      BY DEF Base
    <2> QED
      BY <2>1, <2>2 DEF ForksShare, BackendsDriven
  <1> QED
    BY <1>1, AlwaysMInv, PTL

-----------------------------------------------------------------------------
(* The handler implements the registry                                     *)

LEMMA InitRefines == Init => Registry!Init
  <1> SUFFICES ASSUME Init PROVE Registry!Init
    OBVIOUS
  <1>1. call = [c \in Clients |-> Idle] /\ DOMAIN forks = {}
    BY DEF Init
  <1> QED
    BY <1>1 DEF Registry!Init, Idle, Registry!Idle

LEMMA ClientRefines ==
    ASSUME MInv, NEW c \in Clients, ClientStep(c)
    PROVE  [Registry!Next]_(Registry!vars)
  <1>1. MTypeOK
    BY DEF MInv
  <1>2. UNCHANGED forks
    BY DEF ClientStep, Ask, UpdateBlock, Send, DropMultiFork, handlerVars
  <1>3. CASE UNCHANGED call
    BY <1>2, <1>3 DEF Registry!vars
  <1>4. CASE call' # call
    <2>1. /\ call[c].at \notin {"asked", "closed"}
          /\ \/ call' = [call EXCEPT ![c] = [at |-> "closed"]]
             \/ \E req : call' = [call EXCEPT ![c] = Asked(req)]
      BY <1>4 DEF ClientStep, Ask, UpdateBlock, Send, DropMultiFork
    <2>2. call'[c].at \in {"asked", "closed"} /\ call' = [call EXCEPT ![c] = call'[c]]
      BY <1>1, <2>1, AskedIs DEF MTypeOK
    <2>3. Registry!Ask(c)
      BY <1>2, <2>1, <2>2 DEF Registry!Ask, Registry!Answer
    <2> QED
      BY <2>3 DEF Registry!Next
  <1> QED
    BY <1>3, <1>4

\* An answer sent as soon as the request is taken out.
LEMMA RequestRefines ==
    ASSUME MInv, OnRequest PROVE [Registry!Next]_(Registry!vars)
  <1>1. CASE OnCreateFork
    BY <1>1 DEF OnCreateFork, clientVars, Registry!vars
  <1>2. CASE OnRollFork
    <2>1. UNCHANGED forks /\ Receive("roll")
      BY <1>2 DEF OnRollFork
    <2>2. CASE Request1.req.id \in DOMAIN forks
      BY <1>2, <2>1, <2>2 DEF OnRollFork, Registry!vars
    <2>3. CASE Request1.req.id \notin DOMAIN forks
      <3>1. PICK c \in Clients : c = Request1.client
        BY <2>1, Received
      <3>2. call' = [call EXCEPT ![c] = Refused]
        BY <1>2, <2>3, <3>1 DEF OnRollFork
      <3>3. call[c].at = "asked" /\ call[c].req.kind = "roll"
        BY <2>1, <3>1, Received, AskedIs DEF Waits
      <3>4. Registry!Refuse(c)
        BY <2>1, <3>2, <3>3 DEF Registry!Refuse, Registry!Waiting, Registry!Answer, Refused, Registry!Refused
      <3> QED
        BY <3>4 DEF Registry!Next
    <2> QED
      BY <2>2, <2>3
  <1>3. CASE OnGet
    <2>1. UNCHANGED forks /\ Receive("get")
      BY <1>3 DEF OnGet, handlerVars
    <2>2. PICK c \in Clients : c = Request1.client
      BY <2>1, Received
    <2>3. call[c] = Asked(Request1.req) /\ Request1.req.kind = "get"
      BY <2>1, <2>2, Received DEF Waits
    <2>4. call[c].at = "asked" /\ call[c].req = Request1.req
      BY <2>3, AskedIs
    <2>5. call' = [call EXCEPT ![c] = IF call[c].req.id \in DOMAIN forks THEN Got(call[c].req.id)
                                      ELSE Refused]
      BY <1>3, <2>2, <2>4 DEF OnGet
    <2>6. Registry!Look(c)
      BY <2>1, <2>3, <2>4, <2>5
      DEF Registry!Look, Registry!Waiting, Registry!Answer, Got, Refused, Registry!Got, Registry!Refused
    <2> QED
      BY <2>6 DEF Registry!Next
  <1>4. CASE OnUpdateBlock
    <2>1. DOMAIN forks' = DOMAIN forks /\ UNCHANGED call
      BY <1>4 DEF OnUpdateBlock, clientVars
    <2> QED
      BY <2>1 DEF Registry!vars
  <1>5. CASE OnShutDown
    <2>1. /\ Receive("shutdown")
          /\ DOMAIN forks' = {}
          /\ UNCHANGED call
      BY <1>5 DEF OnShutDown, clientVars
    <2>2. \A c \in Clients : call[c].at = "closed"
      BY <2>1, Received DEF MInv, Asking
    <2>3. Registry!Close
      BY <2>1, <2>2 DEF Registry!Close
    <2> QED
      BY <2>3 DEF Registry!Next
  <1> QED
    BY <1>1, <1>2, <1>3, <1>4, <1>5 DEF OnRequest

LEMMA AnswerRefines ==
    ASSUME MInv, Answering PROVE [Registry!Next]_(Registry!vars)
  <1>1. MTypeOK /\ Asking
    BY DEF MInv
  <1>2. PICK c : c = Head(insert.clients)
    OBVIOUS
  <1>3. insert # NoTask
    BY DEF Answering, InsertNewFork, SendError
  <1>4. /\ c \in Clients
        /\ c \in Answerees
    <2>1. insert.clients \in Seq(Clients) /\ insert.clients # <<>>
      BY <1>1, <1>3 DEF MTypeOK, Waiters
    <2> QED
      BY <1>2, <2>1, ElemsTail, TailFacts DEF Answerees
  <1>5. /\ call[c].at = "asked" /\ call[c].req.kind \in {"create", "roll"}
        /\ insert.ok => /\ call[c].req.id.url = insert.id.url
                        /\ call[c].req.number \in {Latest, insert.id.number}
    BY <1>1, <1>4 DEF Asking, WantsFork
  <1>6. CASE SendError
    <2>1. call' = [call EXCEPT ![c] = Refused] /\ UNCHANGED forks
      BY <1>2, <1>6 DEF SendError
    <2>2. Registry!Refuse(c)
      BY <1>5, <2>1 DEF Registry!Refuse, Registry!Waiting, Registry!Answer, Refused, Registry!Refused
    <2> QED
      BY <1>4, <2>2 DEF Registry!Next
  <1>7. CASE InsertNewFork
    <2>1. PICK id : id = InsertId
      OBVIOUS
    <2>2. /\ insert.ok
          /\ call' = [call EXCEPT ![c] = Got(id)]
          /\ forks' = With(forks, id, insert.fork)
      BY <1>2, <1>7, <2>1 DEF InsertNewFork, InsertId
    <2>3. DOMAIN forks' = DOMAIN forks \cup {id}
      BY <2>2 DEF With
    <2>4. /\ id \notin DOMAIN forks
          /\ id.url = insert.id.url
          /\ id.number = insert.id.number
      BY <1>3, <2>1, <2>2, InsertFacts
    <2>5. call'[c] = Got(id) /\ call'[c].at = "got" /\ call'[c].id = id
      BY <1>1, <1>4, <2>2 DEF MTypeOK, Got
    <2>6. /\ id.url = call[c].req.id.url
          /\ call[c].req.number \in {Latest, id.number}
      BY <1>5, <2>2, <2>4
    <2>7. Registry!Give(c)
      BY <1>5, <2>2, <2>3, <2>4, <2>5, <2>6
      DEF Registry!Give, Registry!Waiting, Got, Registry!Got, Latest, Registry!Latest
    <2> QED
      BY <1>4, <2>7 DEF Registry!Next
  <1> QED
    BY <1>6, <1>7 DEF Answering

LEMMA NextRefines ==
    ASSUME MInv, [Next]_vars PROVE [Registry!Next]_(Registry!vars)
  <1>1. ASSUME NEW c \in Clients, ClientStep(c) PROVE [Registry!Next]_(Registry!vars)
    BY <1>1, ClientRefines
  <1>2. CASE OnRequest
    BY <1>2, RequestRefines
  <1>3. ASSUME NEW key \in Keys, TaskEnds(key) PROVE [Registry!Next]_(Registry!vars)
    <2>1. UNCHANGED <<call, forks>>
      BY <1>3 DEF TaskEnds, TaskReady, TaskFails, clientVars
    <2> QED
      BY <2>1 DEF Registry!vars
  <1>4. CASE Answering
    BY <1>4, AnswerRefines
  <1>5. ASSUME NEW url \in Urls, RemoteBlock(url) PROVE [Registry!Next]_(Registry!vars)
    BY <1>5 DEF RemoteBlock, clientVars, handlerVars, Registry!vars
  <1>6. CASE UNCHANGED vars
    BY <1>6 DEF vars, clientVars, handlerVars, Registry!vars
  <1> QED
    BY <1>1, <1>2, <1>3, <1>4, <1>5, <1>6 DEF Next

(* The handler does only what ForkRegistry allows: an id is never given to *)
(* two clients, it is of the url and block asked for, a lookup finds       *)
(* exactly the ids in use, and the forks go only after the last client.    *)
THEOREM RefinesRegistry == Spec => Registry!Safe
  <1>1. Init => Registry!Init
    BY InitRefines
  <1>2. MInv /\ [Next]_vars => [Registry!Next]_(Registry!vars)
    BY NextRefines
  <1> QED
    BY <1>1, <1>2, AlwaysMInv, PTL DEF Spec, Registry!Safe
=============================================================================
