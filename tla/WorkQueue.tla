----------------------------- MODULE WorkQueue -----------------------------
(***************************************************************************)
(* What a delivery queue promises to whoever puts rows in it: a row is     *)
(* worked on by one worker at a time, only that worker decides its fate,    *)
(* and the fate is final. A row whose worker vanishes goes back to the     *)
(* others. There are no tokens, locks or clocks here: DeliveryQueue        *)
(* implements this specification with them.                                *)
(***************************************************************************)
EXTENDS Naturals

CONSTANTS Rows, Workers, NoWorker, MaxAttempts

VARIABLES
    status,    \* "none", "pending", "delivered" or "failed"
    attempts,  \* failed attempts of a row that counted
    worker     \* who works on the row

vars == <<status, attempts, worker>>

Init ==
    /\ status = [r \in Rows |-> "none"]
    /\ attempts = [r \in Rows |-> 0]
    /\ worker = [r \in Rows |-> NoWorker]

Busy(w) == \E r \in Rows : worker[r] = w

Put(r) ==
    /\ status[r] = "none"
    /\ status' = [status EXCEPT ![r] = "pending"]
    /\ UNCHANGED <<attempts, worker>>

Take(w, r) ==
    /\ status[r] = "pending" /\ worker[r] = NoWorker /\ ~Busy(w)
    /\ worker' = [worker EXCEPT ![r] = w]
    /\ UNCHANGED <<status, attempts>>

Drop(r) ==
    /\ worker[r] # NoWorker
    /\ worker' = [worker EXCEPT ![r] = NoWorker]
    /\ UNCHANGED <<status, attempts>>

Finish(r) ==
    /\ worker[r] # NoWorker
    /\ \E s \in {"delivered", "failed"} : status' = [status EXCEPT ![r] = s]
    /\ worker' = [worker EXCEPT ![r] = NoWorker]
    /\ UNCHANGED attempts

Postpone(r) ==
    /\ worker[r] # NoWorker /\ attempts[r] + 1 < MaxAttempts
    /\ attempts' = [attempts EXCEPT ![r] = @ + 1]
    /\ worker' = [worker EXCEPT ![r] = NoWorker]
    /\ UNCHANGED status

Next == \E r \in Rows : \/ Put(r) \/ Drop(r) \/ Finish(r) \/ Postpone(r)
                        \/ \E w \in Workers : Take(w, r)

Spec == Init /\ [][Next]_vars
=============================================================================
