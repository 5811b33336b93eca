---------------------------- MODULE ForkRegistry ----------------------------
(***************************************************************************)
(* What the multi fork handler promises its clients: every request is      *)
(* answered; a fork that is created or rolled to gets an identifier that   *)
(* is nobody else's, of the url and block asked for; a lookup finds a fork *)
(* iff its identifier was given out.                                       *)
(***************************************************************************)
EXTENDS ForkIds

VARIABLES
    call,       \* client -> what it waits for, or was answered last
    issued      \* the identifiers given out

vars == <<call, issued>>

Init ==
    /\ call = [c \in Clients |-> Idle]
    /\ issued = {}

Waiting(c, kinds) == call[c].at = "asked" /\ call[c].req.kind \in kinds

Answer(c, answer) ==
    /\ call' = [call EXCEPT ![c] = answer]
    /\ UNCHANGED issued

\* A client asks for something, or drops its handle.
Ask(c) ==
    /\ call[c].at \notin {"asked", "closed"}
    /\ call'[c].at \in {"asked", "closed"}
    /\ Answer(c, call'[c])

\* A new identifier, for the block asked for.
Give(c) ==
    /\ Waiting(c, {"create", "roll"})
    /\ call'[c].at = "got"
    /\ LET id == call'[c].id
       IN  /\ id \notin issued
           /\ id.url = call[c].req.id.url
           /\ call[c].req.number \in {Latest, id.number}
           /\ call' = [call EXCEPT ![c] = Got(id)]
           /\ issued' = issued \cup {id}

\* The endpoint failed, or there is no such block or fork.
Refuse(c) ==
    /\ Waiting(c, {"create", "roll"})
    /\ Answer(c, Refused)

Look(c) ==
    /\ Waiting(c, {"get"})
    /\ Answer(c, IF call[c].req.id \in issued THEN Got(call[c].req.id) ELSE Refused)

\* Once every handle is dropped the forks go.
Close ==
    /\ \A c \in Clients : call[c].at = "closed"
    /\ issued' = {}
    /\ UNCHANGED call

Next ==
    \/ \E c \in Clients : Ask(c) \/ Give(c) \/ Refuse(c) \/ Look(c)
    \/ Close

Safe == Init /\ [][Next]_vars

Answered(c) == call[c].at = "asked" ~> call[c].at # "asked"

Spec == Safe /\ \A c \in Clients : Answered(c)
============================================================================
