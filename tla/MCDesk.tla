------------------------------- MODULE MCDesk -------------------------------
(* Constants of the Desk runs. *)
EXTENDS Desk, TLC

CONSTANTS c1, c2, u1, u2, ag, op, rq

\* an operator of every queue with peer access, one of a queue, and a requester
HeldTeam ==
    (ag :> [r \in {"agent"} |-> [NoScope EXCEPT !.peer = TRUE, !.queues = {ScopeAll}]])
        @@ (op :> [r \in {"agent"} |-> [NoScope EXCEPT !.queues = {"it"}]])
        @@ (rq :> [r \in {"requester"} |-> [NoScope EXCEPT !.queues = {"it"}]])

Open(kind, queue) == [status |-> "open", kind |-> kind, queue |-> queue]

\* one conversation or none to begin with: an end user's request in a queue that
\* requeues, its assignment closed or queued; a peer conversation; nothing
OneSeed(row, members, asgs) ==
    [conv |-> [c \in Convs |-> IF c = c1 THEN row ELSE NoRow],
     members |-> [c \in Convs |-> IF c = c1 THEN members ELSE {}],
     asg |-> asgs]

SeedsDesk ==
    {OneSeed(Open("support", "it"), {u1}, <<[conv |-> c1, status |-> "closed", who |-> ag]>>),
     OneSeed(Open("support", "it"), {u1, u2}, <<[conv |-> c1, status |-> "queued", who |-> Key]>>),
     OneSeed(Open("peer", QueueSupport), {u1, u2}, <<>>),
     OneSeed(NoRow, {}, <<>>)}

Symmetry == Permutations(Reqs)
=============================================================================
