---------------------------- MODULE WebhookRelay ----------------------------
(***************************************************************************)
(* The webhook relay (connector/webhook/relay.go) on top of the claim      *)
(* protocol of DeliveryQueue: for the row it has taken, a worker lists the *)
(* endpoints subscribed to the event, posts the event to each of them with *)
(* a look at the claim before each post, and marks the row delivered when  *)
(* all of them answered 2xx, or reschedules it.                            *)
(***************************************************************************)
EXTENDS DeliveryQueue

CONSTANTS
    Endpoints,
    Subscribed   \* the endpoints subscribed to the event of each row

ASSUME SubscribedAssumption == Subscribed \in [Rows -> SUBSET Endpoints]

VARIABLES
    job,     \* what deliver() is doing with the row of each worker
    acks,    \* history: the endpoints that answered 2xx for a row
    rounds   \* history: how often deliver() came to a verdict on a row

relayVars == <<job, acks, rounds>>
vars == <<queueVars, relayVars>>

Job == [stage : {"none", "list", "check", "post", "settle"},
        todo : SUBSET Endpoints,
        ok : BOOLEAN]

NoJob == [stage |-> "none", todo |-> {}, ok |-> TRUE]

(* The types of deliver()'s local variables and of the history variables,  *)
(* on top of the queue's.                                                  *)
RelayTypeOK ==
    /\ TypeOK
    /\ job \in [Workers -> Job]
    /\ acks \in [Rows -> SUBSET Endpoints]
    /\ rounds \in [Rows -> Nat]

Init ==
    /\ QueueInit
    /\ job = [w \in Workers |-> NoJob]
    /\ acks = [r \in Rows |-> {}]
    /\ rounds = [r \in Rows |-> 0]

\* the loop head passes the row to deliver()
Deliver(w) ==
    /\ TakeRow(w)
    /\ job' = [job EXCEPT ![w] = [NoJob EXCEPT !.stage = "list"]]
    /\ UNCHANGED <<acks, rounds>>

\* ListForEvent: the endpoints, or an error that sends the row back
ListForEvent(w) ==
    LET todo == Subscribed[row[w]] IN
    /\ job[w].stage = "list"
    /\ \/ job' = [job EXCEPT ![w].todo = todo,
                             ![w].stage = IF todo = {} THEN "settle" ELSE "check"]
       \/ job' = [job EXCEPT ![w].ok = FALSE, ![w].stage = "settle"]
    /\ UNCHANGED <<queueVars, acks, rounds>>

\* holds before a post: post, or leave the row alone
CheckClaim(w) ==
    /\ job[w].stage = "check"
    /\ \/ /\ Recheck(w)
          /\ job' = [job EXCEPT ![w].stage = "post"]
       \/ /\ ~Fresh(w) /\ NoVerdict(w)
          /\ job' = [job EXCEPT ![w] = NoJob]
    /\ UNCHANGED <<acks, rounds>>

\* post: TRUE for a 2xx answer within the client's timeout
Answers == BOOLEAN

\* mutant: the verdict is that of the last endpoint
PostKeepsLastVerdict(w) ==
    /\ job[w].stage = "post"
    /\ \E e \in job[w].todo, ok \in Answers :
         /\ acks' = [acks EXCEPT ![row[w]] = IF ok THEN @ \cup {e} ELSE @]
         /\ job' = [job EXCEPT ![w].todo = @ \ {e},
                               ![w].ok = ok,
                               ![w].stage = IF job[w].todo = {e} THEN "settle" ELSE "check"]
    /\ UNCHANGED <<queueVars, rounds>>

\* a post, and LogDelivery, whose error is ignored
Post(w) ==
    /\ job[w].stage = "post"
    /\ \E e \in job[w].todo, ok \in Answers :
         /\ acks' = [acks EXCEPT ![row[w]] = IF ok THEN @ \cup {e} ELSE @]
         /\ job' = [job EXCEPT ![w].todo = @ \ {e},
                               ![w].ok = @ /\ ok,
                               ![w].stage = IF job[w].todo = {e} THEN "settle" ELSE "check"]
    /\ UNCHANGED <<queueVars, rounds>>

\* MarkDelivered or reschedule; the error of the write is ignored
Settle(w) ==
    /\ job[w].stage = "settle"
    /\ \/ job[w].ok /\ MarkDelivered(w)
       \/ ~job[w].ok /\ Retry(w)
       \/ LeaveRow(w)
    /\ job' = [job EXCEPT ![w] = NoJob]
    /\ rounds' = [rounds EXCEPT ![row[w]] = @ + 1]
    /\ UNCHANGED acks

Die(w) ==
    /\ Crash(w)
    /\ job' = [job EXCEPT ![w] = NoJob]
    /\ UNCHANGED <<acks, rounds>>

\* the steps of ProcessOnce outside deliver()
Walk(w) ==
    /\ Claim(w) \/ StartPass(w) \/ SkipRow(w) \/ EndPass(w) \/ AbortPass(w)
    /\ UNCHANGED relayVars

Work(w) == Walk(w) \/ Deliver(w) \/ ListForEvent(w) \/ CheckClaim(w) \/ Post(w) \/ Settle(w)

Next ==
    \/ \E r \in Rows : Enqueue(r) /\ UNCHANGED relayVars
    \/ \E w \in Workers : Work(w) \/ Die(w)
    \/ Tick /\ UNCHANGED relayVars

Spec == Init /\ [][Next]_vars

(* The job's goroutine runs ProcessOnce every five seconds and nothing in  *)
(* it blocks for ever (every post has a timeout); time passes.             *)
Fairness == WF_vars(Tick /\ UNCHANGED relayVars) /\ \A w \in Workers : WF_vars(Work(w))

\* the relay without the promise that its workers are timely
FairStallingSpec == Init /\ [][Next \/ (Stall /\ UNCHANGED relayVars)]_vars /\ Fairness

-----------------------------------------------------------------------------
(* A row is marked delivered only when every subscribed endpoint has       *)
(* answered 2xx, whichever passes, retries and workers that took.          *)
DeliveredMeansAcknowledged ==
    \A r \in Rows : status[r] = "delivered" => Subscribed[r] \subseteq acks[r]

(* An event is attempted once per retry it is charged for, once for the    *)
(* verdict that settled it, and once more per crash or database failure:   *)
(* overlapping workers never spend attempts that are not accounted for.    *)
RoundsAccounted ==
    \A r \in Rows :
        rounds[r] <= attempts[r] + (IF status[r] \in Settled THEN 1 ELSE 0) + faults

(* The columns keep their types, the attempts staying within the schedule, *)
(* and every round of calls (relay.go, Deliver) is accounted for.          *)
RelayInv == RelayTypeOK /\ RoundsAccounted

(* The relay implements the claim protocol, and so has its properties. *)
ImplementsQueue == QueueSpec

(* Every event put in the outbox is settled, crashes, stalls and failed    *)
(* database calls notwithstanding: a lapsed lock frees the row of a worker *)
(* that died, and a pass that lost its rows moves on.                      *)
EventuallySettled ==
    \A r \in Rows : status[r] = "pending" ~> status[r] \in Settled
=============================================================================
