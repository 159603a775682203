--------------------------- MODULE DeliveryProofs ---------------------------
(***************************************************************************)
(* The relay and the fan-out are users of the claim protocol. A delivered  *)
(* event was acknowledged by every subscriber; a delivered nudge reached   *)
(* every device found, and none is dropped that could still be delivered:  *)
(* for any number of rows, workers, endpoints and devices.                 *)
(***************************************************************************)
EXTENDS WebhookRelay, PushFanOut, DeliveryQueueProofs

-----------------------------------------------------------------------------
(* The webhook relay.                                                      *)

(* Every step of the relay is a step of the protocol, or none.             *)

LEMMA RelayStep == [Next]_vars => [QueueNext]_queueVars
<1> SUFFICES ASSUME [Next]_vars PROVE [QueueNext]_queueVars
  OBVIOUS
<1>1. CASE UNCHANGED vars
  BY <1>1 DEF vars
<1>2. CASE \E r \in Rows : Enqueue(r) /\ UNCHANGED relayVars
  BY <1>2 DEF QueueNext
<1>3. CASE Tick /\ UNCHANGED relayVars
  BY <1>3 DEF QueueNext
<1>4. ASSUME NEW w \in Workers, Die(w) PROVE QueueNext
  BY <1>4 DEF Die, QueueNext
<1>5. ASSUME NEW w \in Workers, Walk(w) PROVE QueueNext
  BY <1>5 DEF Walk, QueueNext, PassStep
<1>6. ASSUME NEW w \in Workers, Deliver(w) PROVE QueueNext
  BY <1>6 DEF Deliver, QueueNext, PassStep
<1>7. ASSUME NEW w \in Workers, ListForEvent(w) PROVE UNCHANGED queueVars
  BY <1>7 DEF ListForEvent
<1>8. ASSUME NEW w \in Workers, CheckClaim(w) PROVE QueueNext
  BY <1>8 DEF CheckClaim, QueueNext, RowStep
<1>9. ASSUME NEW w \in Workers, Post(w) PROVE UNCHANGED queueVars
  BY <1>9 DEF Post
<1>10. ASSUME NEW w \in Workers, Settle(w) PROVE QueueNext
  <2>1. LeaveRow(w) => NoVerdict(w)
    BY DEF LeaveRow, NoVerdict, PutDown
  <2> QED BY <1>10, <2>1 DEF Settle, QueueNext, RowStep
<1> QED
  BY <1>1, <1>2, <1>3, <1>4, <1>5, <1>6, <1>7, <1>8, <1>9, <1>10 DEF Next, Work

(* The relay (relay.go) uses the queue as the claim protocol says, so what *)
(* is proved of the protocol holds of the relay.                           *)
THEOREM RelayImplementsQueue == Spec => ImplementsQueue
<1>1. Init => QueueInit
  BY DEF Init
<1> QED
  BY <1>1, RelayStep, PTL DEF Spec, ImplementsQueue, QueueSpec

-----------------------------------------------------------------------------
(* Delivered means acknowledged. The endpoints deliver() is through with   *)
(* have answered as long as the verdict is good, and nothing is left to do *)
(* when it comes to settle.                                                *)

RelayTypes ==
    /\ job \in [Workers -> Job]
    /\ acks \in [Rows -> SUBSET Endpoints]

JobOnRow == \A w \in Workers : job[w].stage # "none" => pc[w] = "work"

DoneAnswered ==
    \A w \in Workers :
        (job[w].stage \in {"check", "post", "settle"} /\ job[w].ok) =>
            /\ Subscribed[row[w]] \subseteq acks[row[w]] \cup job[w].todo
            /\ job[w].stage = "settle" => job[w].todo = {}

\* inductive on top of the queue's types
AckInv == TypeOK /\ RelayTypes /\ JobOnRow /\ DoneAnswered /\ DeliveredMeansAcknowledged

LEMMA AckInit == Init => AckInv
<1> SUFFICES ASSUME Init PROVE AckInv
  OBVIOUS
<1>1. TypeOK
  BY TypeInit DEF Init
<1>2. NoJob \in Job
  BY DEF NoJob, Job
<1>3. \A w \in Workers : job[w] = NoJob
  BY DEF Init
<1>4. RelayTypes
  BY <1>2 DEF Init, RelayTypes
<1>5. DeliveredMeansAcknowledged
  BY DEF Init, QueueInit, DeliveredMeansAcknowledged
<1> QED BY <1>1, <1>3, <1>4, <1>5 DEF AckInv, JobOnRow, DoneAnswered, NoJob

\* a step that touches the row of w at most: the jobs of the others go on
LEMMA OthersKeep ==
    ASSUME NEW w \in Workers, AckInv, TypeOK', RelayTypes',
           \A v \in Workers \ {w} : job'[v] = job[v] /\ pc'[v] = pc[v] /\ row'[v] = row[v],
           \A r \in Rows : acks[r] \subseteq acks'[r],
           job'[w].stage # "none" => pc'[w] = "work",
           (job'[w].stage \in {"check", "post", "settle"} /\ job'[w].ok) =>
               /\ Subscribed[row'[w]] \subseteq acks'[row'[w]] \cup job'[w].todo
               /\ job'[w].stage = "settle" => job'[w].todo = {},
           \A r \in Rows : status'[r] = "delivered" =>
               status[r] = "delivered" \/ Subscribed[r] \subseteq acks[r]
    PROVE  AckInv'
<1>1. JobOnRow'
  BY DEF AckInv, JobOnRow
<1>2. DoneAnswered'
  <2> SUFFICES ASSUME NEW v \in Workers,
                      job'[v].stage \in {"check", "post", "settle"}, job'[v].ok
               PROVE  /\ Subscribed[row'[v]] \subseteq acks'[row'[v]] \cup job'[v].todo
                      /\ job'[v].stage = "settle" => job'[v].todo = {}
    BY DEF DoneAnswered
  <2>1. CASE v = w
    BY <2>1
  <2>2. CASE v # w
    <3>1. job'[v] = job[v] /\ row'[v] = row[v]
      BY <2>2
    <3>2. pc[v] = "work" /\ row[v] \in Rows
      BY <3>1 DEF AckInv, JobOnRow, TypeOK, PassTypeOK
    <3>3. /\ Subscribed[row[v]] \subseteq acks[row[v]] \cup job[v].todo
          /\ job[v].stage = "settle" => job[v].todo = {}
      BY <3>1 DEF AckInv, DoneAnswered
    <3> QED BY <3>1, <3>2, <3>3
  <2> QED BY <2>1, <2>2
<1>3. DeliveredMeansAcknowledged'
  BY DEF AckInv, DeliveredMeansAcknowledged
<1> QED BY <1>1, <1>2, <1>3 DEF AckInv

LEMMA AckNext == AckInv /\ [Next]_vars => AckInv'
<1> SUFFICES ASSUME AckInv, [Next]_vars PROVE AckInv'
  OBVIOUS
<1>1. TypeOK'
  BY RelayStep, TypeNext DEF AckInv
<1>2. NoJob \in Job /\ NoJob.stage = "none"
  BY DEF NoJob, Job
<1>3. CASE UNCHANGED vars
  BY <1>1, <1>3 DEF vars, queueVars, relayVars, AckInv, RelayTypes, JobOnRow, DoneAnswered,
                    DeliveredMeansAcknowledged
<1>4. CASE \E r \in Rows : Enqueue(r) /\ UNCHANGED relayVars
  <2>1. \A r \in Rows : status'[r] = "delivered" => status[r] = "delivered"
    BY <1>4 DEF Enqueue, AckInv, TypeOK, RowTypeOK
  <2> QED BY <1>1, <1>4, <2>1 DEF Enqueue, passVars, relayVars, AckInv, RelayTypes, JobOnRow,
                                  DoneAnswered, DeliveredMeansAcknowledged
<1>5. CASE Tick /\ UNCHANGED relayVars
  BY <1>1, <1>5 DEF Tick, relayVars, AckInv, RelayTypes, JobOnRow, DoneAnswered,
                    DeliveredMeansAcknowledged
<1>6. ASSUME NEW w \in Workers, Die(w) PROVE AckInv'
  <2>1. RelayTypes' /\ job'[w] = NoJob
    BY <1>2, <1>6 DEF Die, AckInv, RelayTypes
  <2>2. UNCHANGED <<status, acks>>
    BY <1>6 DEF Die, Crash, rowVars
  <2>3. \A v \in Workers \ {w} : job'[v] = job[v] /\ pc'[v] = pc[v] /\ row'[v] = row[v]
    BY <1>6 DEF Die, Crash, Leave, AckInv, RelayTypes, TypeOK, PassTypeOK
  <2> QED BY <1>1, <1>2, <2>1, <2>2, <2>3, OthersKeep
<1>7. ASSUME NEW w \in Workers, Walk(w) PROVE AckInv'
  <2>1. RelayTypes' /\ UNCHANGED <<job, acks, status>>
    BY <1>7 DEF Walk, relayVars, Claim, StartPass, SkipRow, EndPass, AbortPass, rowVars,
                AckInv, RelayTypes
  <2>2. pc[w] # "work"
    BY <1>7 DEF Walk, Claim, StartPass, SkipRow, EndPass, AbortPass
  <2>3. job[w].stage = "none"
    BY <2>2 DEF AckInv, JobOnRow
  <2>4. \A v \in Workers \ {w} : pc'[v] = pc[v] /\ row'[v] = row[v]
    BY <1>7 DEF Walk, Claim, StartPass, SkipRow, EndPass, AbortPass, Leave, AckInv, TypeOK, PassTypeOK
  <2> QED BY <1>1, <2>1, <2>3, <2>4, OthersKeep
<1>8. ASSUME NEW w \in Workers, Deliver(w) PROVE AckInv'
  <2>1. /\ job' = [job EXCEPT ![w] = [NoJob EXCEPT !.stage = "list"]]
        /\ UNCHANGED <<acks, status>>
    BY <1>8 DEF Deliver, TakeRow
  <2>2. [NoJob EXCEPT !.stage = "list"] \in Job
    BY DEF NoJob, Job
  <2>3. RelayTypes' /\ job'[w].stage = "list"
    BY <2>1, <2>2 DEF AckInv, RelayTypes, NoJob
  <2>4. pc'[w] = "work"
    BY <1>8 DEF Deliver, TakeRow, AckInv, TypeOK, PassTypeOK
  <2>5. \A v \in Workers \ {w} : job'[v] = job[v] /\ pc'[v] = pc[v] /\ row'[v] = row[v]
    BY <1>8 DEF Deliver, TakeRow, AckInv, RelayTypes, TypeOK, PassTypeOK
  <2> QED BY <1>1, <2>1, <2>3, <2>4, <2>5, OthersKeep
<1>9. ASSUME NEW w \in Workers, ListForEvent(w) PROVE AckInv'
  <2> DEFINE todo == Subscribed[row[w]]
  <2>1. row[w] \in Rows /\ pc[w] = "work" /\ job[w].stage = "list"
    BY <1>9 DEF ListForEvent, AckInv, JobOnRow, TypeOK, PassTypeOK
  <2>2. todo \subseteq Endpoints /\ job[w] \in Job
    BY <2>1, SubscribedAssumption DEF AckInv, RelayTypes
  <2>3. UNCHANGED <<status, pc, row, acks>>
    BY <1>9 DEF ListForEvent, queueVars
  <2>4. PICK j \in Job : /\ job' = [job EXCEPT ![w] = j]
                         /\ j.stage \in {"check", "settle"}
                         /\ j.ok => j.todo = todo /\ (j.stage = "settle" => j.todo = {})
    <3>1. CASE job' = [job EXCEPT ![w].todo = todo,
                                  ![w].stage = IF todo = {} THEN "settle" ELSE "check"]
      <4> DEFINE j == [job[w] EXCEPT !.todo = todo,
                                     !.stage = IF todo = {} THEN "settle" ELSE "check"]
      <4>1. /\ j \in Job /\ j.stage \in {"check", "settle"}
            /\ j.todo = todo /\ (j.stage = "settle" => j.todo = {})
        BY <2>2 DEF Job
      <4> HIDE DEF j
      <4>2. job' = [job EXCEPT ![w] = j]
        BY <3>1 DEF j
      <4> QED BY <4>1, <4>2
    <3>2. CASE job' = [job EXCEPT ![w].ok = FALSE, ![w].stage = "settle"]
      <4> DEFINE j == [job[w] EXCEPT !.ok = FALSE, !.stage = "settle"]
      <4>1. j \in Job /\ j.stage = "settle" /\ ~j.ok
        BY <2>2 DEF Job
      <4> HIDE DEF j
      <4>2. job' = [job EXCEPT ![w] = j]
        BY <3>2 DEF j
      <4> QED BY <4>1, <4>2
    <3> QED BY <1>9, <3>1, <3>2 DEF ListForEvent
  <2>5. /\ RelayTypes' /\ job'[w] = j
        /\ \A v \in Workers \ {w} : job'[v] = job[v]
    BY <2>3, <2>4 DEF AckInv, RelayTypes
  <2> QED BY <1>1, <2>1, <2>3, <2>4, <2>5, OthersKeep
<1>10. ASSUME NEW w \in Workers, CheckClaim(w) PROVE AckInv'
  <2>1. row[w] \in Rows /\ pc[w] = "work" /\ job[w].stage = "check" /\ job[w] \in Job
    BY <1>10 DEF CheckClaim, AckInv, RelayTypes, JobOnRow, TypeOK, PassTypeOK
  <2>2. UNCHANGED <<status, acks>>
    BY <1>10 DEF CheckClaim, Recheck, NoVerdict, LoseRow, LeaveRow, PutDown, rowVars
  <2>3. \A v \in Workers \ {w} : pc'[v] = pc[v] /\ row'[v] = row[v]
    BY <1>10 DEF CheckClaim, Recheck, NoVerdict, LoseRow, LeaveRow, PutDown, BackToLoop,
                 AckInv, TypeOK, PassTypeOK
  <2>4. CASE Recheck(w) /\ job' = [job EXCEPT ![w].stage = "post"]
    <3> DEFINE j == [job[w] EXCEPT !.stage = "post"]
    <3>1. j \in Job /\ j.stage = "post" /\ j.ok = job[w].ok /\ j.todo = job[w].todo
      BY <2>1 DEF Job
    <3> HIDE DEF j
    <3>2. job' = [job EXCEPT ![w] = j]
      BY <2>4 DEF j
    <3>3. /\ RelayTypes' /\ job'[w] = j
          /\ \A v \in Workers \ {w} : job'[v] = job[v]
      BY <2>2, <3>1, <3>2 DEF AckInv, RelayTypes
    <3>4. UNCHANGED <<pc, row>>
      BY <2>4 DEF Recheck
    <3>5. job[w].ok => Subscribed[row[w]] \subseteq acks[row[w]] \cup job[w].todo
      BY <2>1 DEF AckInv, DoneAnswered
    <3> QED BY <1>1, <2>1, <2>2, <2>3, <3>1, <3>3, <3>4, <3>5, OthersKeep
  <2>5. CASE job' = [job EXCEPT ![w] = NoJob]
    <3>1. /\ RelayTypes' /\ job'[w] = NoJob
          /\ \A v \in Workers \ {w} : job'[v] = job[v]
      BY <1>2, <2>2, <2>5 DEF AckInv, RelayTypes
    <3> QED BY <1>1, <1>2, <2>2, <2>3, <3>1, OthersKeep
  <2> QED BY <1>10, <2>4, <2>5 DEF CheckClaim
<1>11. ASSUME NEW w \in Workers, Post(w) PROVE AckInv'
  <2>1. row[w] \in Rows /\ pc[w] = "work" /\ job[w].stage = "post" /\ job[w] \in Job
    BY <1>11 DEF Post, AckInv, RelayTypes, JobOnRow, TypeOK, PassTypeOK
  <2>2. PICK e \in job[w].todo, ok \in BOOLEAN :
            /\ acks' = [acks EXCEPT ![row[w]] = IF ok THEN @ \cup {e} ELSE @]
            /\ job' = [job EXCEPT ![w].todo = @ \ {e},
                                  ![w].ok = @ /\ ok,
                                  ![w].stage = IF job[w].todo = {e} THEN "settle" ELSE "check"]
    BY <1>11 DEF Post, Answers
  <2> DEFINE j == [job[w] EXCEPT !.todo = @ \ {e}, !.ok = @ /\ ok,
                                 !.stage = IF job[w].todo = {e} THEN "settle" ELSE "check"]
  <2>3. /\ j \in Job /\ j.stage \in {"check", "settle"}
        /\ j.todo = job[w].todo \ {e} /\ (j.stage = "settle" => j.todo = {})
    BY <2>1 DEF Job
  <2>4. j.ok => job[w].ok /\ ok
    BY <2>1, Zenon DEF Job
  <2> HIDE DEF j
  <2>5. job' = [job EXCEPT ![w] = j]
    BY <2>2 DEF j
  <2>6. acks[row[w]] \subseteq Endpoints /\ e \in Endpoints
    BY <2>1 DEF AckInv, RelayTypes, Job
  <2>7. /\ acks' \in [Rows -> SUBSET Endpoints]
        /\ \A r \in Rows : acks[r] \subseteq acks'[r]
        /\ ok => e \in acks'[row[w]]
    BY <2>1, <2>2, <2>6 DEF AckInv, RelayTypes
  <2>8. /\ RelayTypes' /\ job'[w] = j
        /\ \A v \in Workers \ {w} : job'[v] = job[v]
    BY <2>3, <2>5, <2>7 DEF AckInv, RelayTypes
  <2>9. job[w].ok => Subscribed[row[w]] \subseteq acks[row[w]] \cup job[w].todo
    BY <2>1 DEF AckInv, DoneAnswered
  <2>10. j.ok => Subscribed[row[w]] \subseteq acks'[row[w]] \cup j.todo
    BY <2>1, <2>3, <2>4, <2>7, <2>9
  <2>11. UNCHANGED <<status, pc, row>>
    BY <1>11 DEF Post, queueVars
  <2> QED BY <1>1, <2>1, <2>3, <2>7, <2>8, <2>10, <2>11, OthersKeep
<1>12. ASSUME NEW w \in Workers, Settle(w) PROVE AckInv'
  <2>1. row[w] \in Rows /\ job[w].stage = "settle"
    BY <1>12 DEF Settle, AckInv, JobOnRow, TypeOK, PassTypeOK
  <2>2. /\ RelayTypes' /\ job'[w] = NoJob /\ UNCHANGED acks
        /\ \A v \in Workers \ {w} : job'[v] = job[v]
    BY <1>2, <1>12 DEF Settle, AckInv, RelayTypes
  <2>3. \A v \in Workers \ {w} : pc'[v] = pc[v] /\ row'[v] = row[v]
    BY <1>12 DEF Settle, MarkDelivered, Retry, LeaveRow, PutDown, BackToLoop,
                 AckInv, TypeOK, PassTypeOK
  <2>4. job[w].ok => Subscribed[row[w]] \subseteq acks[row[w]]
    BY <2>1 DEF AckInv, DoneAnswered
  <2>5. \A r \in Rows : status'[r] = "delivered" =>
            status[r] = "delivered" \/ (r = row[w] /\ job[w].ok)
    BY <1>12, <2>1 DEF Settle, MarkDelivered, Retry, LeaveRow, PutDown, rowVars, settle,
                       reschedule, AckInv, TypeOK, RowTypeOK
  <2> QED BY <1>1, <1>2, <2>2, <2>3, <2>4, <2>5, OthersKeep
<1> QED
  BY <1>3, <1>4, <1>5, <1>6, <1>7, <1>8, <1>9, <1>10, <1>11, <1>12 DEF Next, Work

(* An event is marked delivered (relay.go, deliver) only when every        *)
(* subscribed endpoint has answered 2xx, for any number of rows, relays    *)
(* and endpoints; it takes no promise that the workers are timely.         *)
THEOREM AcknowledgedHolds == Spec => []DeliveredMeansAcknowledged
<1>1. AckInv => DeliveredMeansAcknowledged
  BY DEF AckInv
<1> QED
  BY <1>1, AckInit, AckNext, PTL DEF Spec

-----------------------------------------------------------------------------
(* Every round is accounted for: with timely workers the verdict of a      *)
(* round lands on a row that is pending and whose count is the one the     *)
(* pass has read, so it settles the row or charges it one attempt.         *)

RoundInv == QueueInv /\ AckInv /\ rounds \in [Rows -> Nat] /\ RoundsAccounted

LEMMA FaultsUp ==
    ASSUME TypeOK, [QueueNext]_queueVars
    PROVE  faults \in Nat /\ faults' \in {faults, faults + 1}
<1>1. faults \in Nat
  BY QueueConstants DEF TypeOK
<1>2. ASSUME NEW w \in Workers, PassStep(w) PROVE faults' \in {faults, faults + 1}
  BY <1>2 DEF PassStep, Claim, StartPass, TakeRow, SkipRow, EndPass, AbortPass, Fault
<1>3. ASSUME NEW w \in Workers, RowStep(w) PROVE faults' \in {faults, faults + 1}
  BY <1>3 DEF RowStep, Recheck, NoVerdict, LoseRow, LeaveRow, MarkDelivered, MarkFailed, Retry, Fault
<1>4. ASSUME NEW w \in Workers, Crash(w) PROVE faults' \in {faults, faults + 1}
  BY <1>4 DEF Crash, Fault
<1>5. ASSUME NEW r \in Rows, Enqueue(r) PROVE faults' = faults
  BY <1>5 DEF Enqueue
<1>6. Tick \/ UNCHANGED queueVars => faults' = faults
  BY DEF Tick, queueVars
<1> QED BY <1>1, <1>2, <1>3, <1>4, <1>5, <1>6 DEF QueueNext

LEMMA RoundNext == Timely /\ RoundInv /\ [Next]_vars => RoundInv'
<1> SUFFICES ASSUME Timely, RoundInv, [Next]_vars PROVE RoundInv'
  OBVIOUS
<1>1. [QueueNext]_queueVars /\ QueueInv /\ TypeOK
  BY RelayStep DEF RoundInv, QueueInv
<1>2. QueueInv' /\ AckInv'
  BY <1>1, InvNext, AckNext DEF RoundInv
<1>3. faults \in Nat /\ faults' \in {faults, faults + 1}
  BY <1>1, FaultsUp
<1>4. ASSUME NEW r \in Rows
      PROVE  /\ attempts[r] \in Nat /\ rounds[r] \in Nat
             /\ attempts'[r] \in {attempts[r], attempts[r] + 1}
             /\ status[r] \in Settled => status'[r] \in Settled
             /\ rounds[r] <= attempts[r] + (IF status[r] \in Settled THEN 1 ELSE 0) + faults
  <2>1. attempts[r] \in Nat
    BY QueueConstants, <1>1 DEF TypeOK, RowTypeOK, Attempts
  <2> QED BY <1>1, <2>1, StepEffect DEF RoundInv, RoundsAccounted
<1>5. CASE UNCHANGED rounds
  BY <1>2, <1>3, <1>4, <1>5 DEF RoundInv, RoundsAccounted
<1>6. ASSUME NEW w \in Workers, Settle(w) PROVE RoundInv'
  <2>1. pc[w] = "work" /\ rounds' = [rounds EXCEPT ![row[w]] = @ + 1]
    BY <1>6 DEF Settle, RoundInv, AckInv, JobOnRow
  <2>2. row[w] \in Rows /\ status[row[w]] = "pending" /\ attempts[row[w]] = snap[w][row[w]]
    BY <1>1, <2>1, WriterHolds
  <2>3. \/ status'[row[w]] \in Settled
        \/ attempts'[row[w]] = attempts[row[w]] + 1
        \/ faults' = faults + 1
    BY <1>1, <1>6, <2>2 DEF Settle, MarkDelivered, Retry, LeaveRow, Fault, settle, reschedule,
                            Settled, TypeOK, RowTypeOK
  <2>4. rounds' \in [Rows -> Nat]
    BY <2>1, <2>2 DEF RoundInv
  <2>5. ASSUME NEW r \in Rows
        PROVE  rounds'[r] <= attempts'[r] + (IF status'[r] \in Settled THEN 1 ELSE 0) + faults'
    <3>1. CASE r = row[w]
      <4>1. status[r] \notin Settled /\ rounds'[r] = rounds[r] + 1
        BY <2>1, <2>2, <3>1 DEF Settled, RoundInv
      <4> QED BY <1>3, <1>4, <2>3, <3>1, <4>1
    <3>2. CASE r # row[w]
      <4>1. rounds'[r] = rounds[r]
        BY <2>1, <3>2 DEF RoundInv
      <4> QED BY <1>3, <1>4, <4>1
    <3> QED BY <3>1, <3>2
  <2> QED BY <1>2, <2>4, <2>5 DEF RoundInv, RoundsAccounted
<1>7. ASSUME NEW w \in Workers, Work(w) \/ Die(w), ~Settle(w) PROVE UNCHANGED rounds
  BY <1>7 DEF Work, Walk, Deliver, ListForEvent, CheckClaim, Post, Die, relayVars
<1> QED BY <1>5, <1>6, <1>7 DEF Next, Work, vars, relayVars

(* With timely workers the relay (relay.go) keeps its types and accounts   *)
(* for every round of calls: overlapping workers spend no attempts.        *)
THEOREM RelayInvHolds == Timely => (Spec => []RelayInv)
<1> HAVE Timely
<1>1. Init => RoundInv
  <2> SUFFICES ASSUME Init PROVE RoundInv
    OBVIOUS
  <2>1. QueueInv /\ AckInv
    BY InvInit, AckInit DEF Init
  <2>2. rounds \in [Rows -> Nat] /\ RoundsAccounted
    BY DEF Init, QueueInit, RoundsAccounted, Settled
  <2> QED BY <2>1, <2>2 DEF RoundInv
<1>2. RoundInv /\ [Next]_vars => RoundInv'
  BY RoundNext
<1>3. RoundInv => RelayInv
  BY DEF RoundInv, RelayInv, RelayTypeOK, AckInv, RelayTypes
<1> QED BY <1>1, <1>2, <1>3, PTL DEF Spec

(* No event is in the hands of two timely relays at once (claim.go: "no    *)
(* row is delivered twice").                                               *)
THEOREM RelayOneWorkerPerRow == Timely => (Spec => []OneWorkerPerRow)
BY RelayImplementsQueue, OneWorkerPerRowHolds, PTL DEF ImplementsQueue

(* A settled event is final for timely relays: relay.go never delivers,    *)
(* fails or reschedules it again.                                          *)
THEOREM RelaySettledIsFinal == Timely => (Spec => SettledIsFinal)
BY RelayImplementsQueue, SettledIsFinalHolds, PTL DEF ImplementsQueue

(* The relay is an abstract queue: timely relays hand an event to one of   *)
(* them at a time, and only that one decides what becomes of it (relay.go, *)
(* ProcessOnce).                                                           *)
THEOREM RelayImplementsWorkQueue == Timely => (Spec => ImplementsWorkQueue)
BY RelayImplementsQueue, QueueImplementsWorkQueue, PTL DEF ImplementsQueue

-----------------------------------------------------------------------------
(* The push fan-out.                                                       *)

(* Every step of the fan-out is a step of the protocol, or none.           *)

LEMMA PushStep == [PushNext]_fanOutVars => [QueueNext]_queueVars
<1> SUFFICES ASSUME [PushNext]_fanOutVars PROVE [QueueNext]_queueVars
  OBVIOUS
<1>1. CASE UNCHANGED fanOutVars
  BY <1>1 DEF fanOutVars
<1>2. CASE \E r \in Rows : Enqueue(r) /\ UNCHANGED pushVars
  BY <1>2 DEF QueueNext
<1>3. CASE Tick /\ UNCHANGED pushVars
  BY <1>3 DEF QueueNext
<1>4. CASE \/ \E c \in Creds : SetPushCredential(c)
           \/ DeletePushCredential
           \/ \E d \in Devices : RegisterPush(d) \/ DeregisterPush(d)
  BY <1>4 DEF SetPushCredential, DeletePushCredential, RegisterPush, DeregisterPush
<1>5. ASSUME NEW w \in Workers, DieInFanOut(w) PROVE QueueNext
  BY <1>5 DEF DieInFanOut, QueueNext
<1>6. ASSUME NEW w \in Workers, WalkFanOut(w) PROVE QueueNext
  BY <1>6 DEF WalkFanOut, QueueNext, PassStep
<1>7. ASSUME NEW w \in Workers, DeliverRow(w) PROVE QueueNext
  BY <1>7 DEF DeliverRow, QueueNext, PassStep
<1>8. ASSUME NEW w \in Workers,
             Resolve(w) \/ Load(w) \/ NextUser(w) \/ Notify(w) \/ MarkVerified(w)
      PROVE  UNCHANGED queueVars
  BY <1>8 DEF Resolve, Load, NextUser, Notify, MarkVerified
<1>9. ASSUME NEW w \in Workers, StillOurs(w) PROVE [QueueNext]_queueVars
  <2>1. LoseRow(w) => NoVerdict(w)
    BY DEF LoseRow, NoVerdict, PutDown
  <2> QED BY <1>9, <2>1 DEF StillOurs, QueueNext, RowStep
<1>10. ASSUME NEW w \in Workers, SettleNudge(w) PROVE QueueNext
  <2>1. LeaveRow(w) => NoVerdict(w)
    BY DEF LeaveRow, NoVerdict, PutDown
  <2> QED BY <1>10, <2>1 DEF SettleNudge, QueueNext, RowStep
<1> QED
  BY <1>1, <1>2, <1>3, <1>4, <1>5, <1>6, <1>7, <1>8, <1>9, <1>10 DEF PushNext, WorkFanOut

(* The fan-out (fanout.go) uses the queue as the claim protocol says, so   *)
(* what is proved of the protocol holds of the fan-out.                    *)
THEOREM PushImplementsQueue == PushSpec => PushUsesQueue
<1>1. PushInit => QueueInit
  BY DEF PushInit
<1> QED
  BY <1>1, PushStep, PTL DEF PushSpec, PushUsesQueue, QueueSpec

(* So is the fan-out: timely fan-outs hand a nudge to one of them at a     *)
(* time, and only that one decides what becomes of it (fanout.go,          *)
(* ProcessOnce).                                                           *)
THEOREM PushImplementsWorkQueue == Timely => (PushSpec => ImplementsWorkQueue)
BY PushImplementsQueue, QueueImplementsWorkQueue, PTL DEF PushUsesQueue

-----------------------------------------------------------------------------
(* What a worker has found is reached, gone, or still ahead of it, as long *)
(* as nothing has failed; and the row it works on is nobody else's.        *)

Sending == {"user", "check", "notify", "verify"}

NudgeOnRow ==
    \A w \in Workers :
        /\ nudge[w].stage # "none" => pc[w] = "work"
        /\ nudge[w].stage \in {"none", "resolve", "load"} => nudge[w].failed = "no" /\ nudge[w].devices = {}
        /\ nudge[w].stage \in Sending => tp[w].cred # NoCred

FoundAhead(w) ==
    (nudge[w].stage \in {"user", "check", "notify", "verify", "settle"} /\ nudge[w].failed = "no") =>
        /\ listed[row[w]] \subseteq reached[row[w]] \cup dead \cup nudge[w].devices
        /\ nudge[w].stage \in {"user", "verify", "settle"} => nudge[w].devices = {}

Refused(w) == nudge[w].failed = "credential" => row[w] \in rejected

NudgeInv ==
    /\ QueueInv /\ PushTypeOK /\ NudgeOnRow
    /\ \A w \in Workers : FoundAhead(w) /\ Refused(w)
    /\ DeliveredMeansReached /\ DroppedMeansHopeless

LEMMA NudgeInit == PushInit => NudgeInv
<1> SUFFICES ASSUME PushInit PROVE NudgeInv
  OBVIOUS
<1>1. QueueInv
  BY InvInit DEF PushInit
<1>2. NoNudge \in Nudge /\ NoNudge.stage = "none" /\ NoNudge.failed = "no" /\ NoNudge.devices = {}
  BY DEF NoNudge, Nudge
<1>3. Unresolved \in TenantPush
  BY DEF Unresolved, TenantPush
<1>4. PushTypeOK
  BY <1>1, <1>2, <1>3 DEF PushInit, PushTypeOK, QueueInv
<1>5. \A w \in Workers : nudge[w] = NoNudge
  BY DEF PushInit
<1>6. NudgeOnRow /\ \A w \in Workers : FoundAhead(w) /\ Refused(w)
  BY <1>2, <1>5 DEF NudgeOnRow, Sending, FoundAhead, Refused
<1>7. DeliveredMeansReached /\ DroppedMeansHopeless
  BY DEF PushInit, QueueInit, DeliveredMeansReached, DroppedMeansHopeless
<1> QED BY <1>1, <1>4, <1>6, <1>7 DEF NudgeInv

\* a step on the row of w at most: what the others have found stays as it is
LEMMA OtherNudgesKeep ==
    ASSUME NEW w \in Workers, NudgeInv, QueueInv', PushTypeOK',
           \A v \in Workers \ {w} : nudge'[v] = nudge[v] /\ pc'[v] = pc[v] /\ row'[v] = row[v]
                                      /\ tp'[v].cred = tp[v].cred,
           \A v \in Workers \ {w} : pc[v] = "work" => listed'[row[v]] = listed[row[v]],
           \A r \in Rows : reached[r] \subseteq reached'[r],
           dead \subseteq dead', rejected \subseteq rejected',
           nudge'[w].stage # "none" => pc'[w] = "work",
           nudge'[w].stage \in {"none", "resolve", "load"} => nudge'[w].failed = "no" /\ nudge'[w].devices = {},
           nudge'[w].stage \in Sending => tp'[w].cred # NoCred,
           FoundAhead(w)', Refused(w)',
           DeliveredMeansReached', DroppedMeansHopeless'
    PROVE  NudgeInv'
<1>1. NudgeOnRow'
  BY DEF NudgeInv, NudgeOnRow
<1>2. ASSUME NEW v \in Workers, v # w PROVE FoundAhead(v)' /\ Refused(v)'
  <2>1. nudge'[v] = nudge[v] /\ row'[v] = row[v]
    BY <1>2
  <2>2. FoundAhead(v) /\ Refused(v)
    BY DEF NudgeInv
  <2>3. nudge[v].stage # "none" =>
            /\ row[v] \in Rows /\ listed'[row[v]] = listed[row[v]]
            /\ reached[row[v]] \subseteq reached'[row[v]]
    BY <1>2 DEF NudgeInv, NudgeOnRow, QueueInv, TypeOK, PassTypeOK
  <2>4. FoundAhead(v)'
    BY <2>1, <2>2, <2>3 DEF FoundAhead
  <2>5. Refused(v)'
    BY <2>1, <2>2 DEF Refused
  <2> QED BY <2>4, <2>5
<1> QED BY <1>1, <1>2 DEF NudgeInv

\* a step that leaves the nudge's rows alone keeps what settled rows promise
LEMMA SettledKeep ==
    ASSUME NudgeInv, [QueueNext]_queueVars,
           \A r \in Rows : status'[r] \in Settled => status[r] \in Settled,
           \A r \in Rows : status[r] \in Settled => listed'[r] = listed[r],
           \A r \in Rows : reached[r] \subseteq reached'[r],
           dead \subseteq dead', rejected \subseteq rejected'
    PROVE  DeliveredMeansReached' /\ DroppedMeansHopeless'
<1>1. ASSUME NEW r \in Rows, status'[r] \in Settled
      PROVE  status'[r] = status[r] /\ attempts'[r] = attempts[r] /\ listed'[r] = listed[r]
  BY <1>1, StepEffect DEF NudgeInv
<1>2. DeliveredMeansReached'
  BY <1>1 DEF NudgeInv, DeliveredMeansReached, Settled
<1>3. DroppedMeansHopeless'
  BY <1>1 DEF NudgeInv, DroppedMeansHopeless, Settled
<1> QED BY <1>2, <1>3

\* two workers are on two rows, and neither row is settled
LEMMA Alone ==
    ASSUME NudgeInv, NEW w \in Workers, nudge[w].stage # "none"
    PROVE  /\ pc[w] = "work" /\ row[w] \in Rows /\ status[row[w]] \notin Settled
           /\ nudge[w] \in Nudge
           /\ \A v \in Workers \ {w} : pc[v] = "work" => row[v] # row[w]
<1>1. pc[w] = "work"
  BY DEF NudgeInv, NudgeOnRow
<1>2. row[w] \in Rows /\ status[row[w]] = "pending"
  BY <1>1, WriterHolds DEF NudgeInv
<1>3. OneWorkerPerRow
  BY InvOneWorker DEF NudgeInv
<1> QED BY <1>1, <1>2, <1>3 DEF OneWorkerPerRow, Settled, NudgeInv, PushTypeOK

LEMMA InvUnchanged == QueueInv /\ UNCHANGED queueVars => QueueInv'
BY DEF queueVars, QueueInv, TypeOK, RowTypeOK, PassTypeOK, TokensApart, InPass, ClaimedIsPending,
       RowOutOfBatch, SnapshotCurrent, Mine, FreshClaimHeld, Fresh, WorkedRowLocked

\* the steps of deliverRow that change a job and leave the queue alone
LEMMA NudgeStep ==
    ASSUME NudgeInv, PushTypeOK', UNCHANGED queueVars,
           NEW w \in Workers, nudge[w].stage # "none",
           NEW j \in Nudge, nudge' = [nudge EXCEPT ![w] = j],
           j.stage \notin {"none", "resolve"},
           j.stage = "load" => j.failed = "no" /\ j.devices = {},
           j.stage \in Sending => tp'[w].cred # NoCred,
           \A v \in Workers \ {w} : tp'[v].cred = tp[v].cred,
           \A r \in Rows : r # row[w] => listed'[r] = listed[r],
           \A r \in Rows : reached[r] \subseteq reached'[r],
           dead \subseteq dead', rejected \subseteq rejected',
           (j.stage # "load" /\ j.failed = "no") =>
               /\ listed'[row[w]] \subseteq reached'[row[w]] \cup dead' \cup j.devices
               /\ j.stage \in {"user", "verify", "settle"} => j.devices = {},
           j.failed = "credential" => row[w] \in rejected'
    PROVE  NudgeInv'
<1>1. /\ pc[w] = "work" /\ row[w] \in Rows /\ status[row[w]] \notin Settled
      /\ \A v \in Workers \ {w} : pc[v] = "work" => row[v] # row[w]
  BY Alone
<1>2. UNCHANGED <<status, attempts, pc, row>>
  BY DEF queueVars
<1>3. nudge'[w] = j /\ \A v \in Workers \ {w} : nudge'[v] = nudge[v]
  BY DEF NudgeInv, PushTypeOK
<1>4. QueueInv'
  BY InvUnchanged DEF NudgeInv
<1>5. DeliveredMeansReached' /\ DroppedMeansHopeless'
  <2>1. \A r \in Rows : status[r] \in Settled => listed'[r] = listed[r]
    BY <1>1
  <2> QED BY <1>2, <2>1, SettledKeep
<1>6. \A v \in Workers \ {w} : pc[v] = "work" => listed'[row[v]] = listed[row[v]]
  <2>1. \A v \in Workers : pc[v] = "work" => row[v] \in Rows
    BY DEF NudgeInv, QueueInv, TypeOK, PassTypeOK
  <2> QED BY <1>1, <2>1
<1>7. FoundAhead(w)' /\ Refused(w)'
  BY <1>2, <1>3 DEF FoundAhead, Refused
<1> QED BY <1>1, <1>2, <1>3, <1>4, <1>5, <1>6, <1>7, OtherNudgesKeep

\* the steps that put the row down, or take one up: the job starts afresh
LEMMA FreshNudge ==
    ASSUME NudgeInv, QueueInv', PushTypeOK', [QueueNext]_queueVars,
           NEW w \in Workers, NEW j \in Nudge, nudge' = [nudge EXCEPT ![w] = j],
           j.stage \in {"none", "resolve", "load"}, j.failed = "no", j.devices = {},
           j.stage # "none" => pc'[w] = "work",
           \A v \in Workers \ {w} : pc'[v] = pc[v] /\ row'[v] = row[v] /\ tp'[v].cred = tp[v].cred,
           UNCHANGED historyVars,
           DeliveredMeansReached', DroppedMeansHopeless'
    PROVE  NudgeInv'
<1>1. nudge'[w] = j /\ \A v \in Workers \ {w} : nudge'[v] = nudge[v]
  BY DEF NudgeInv, PushTypeOK
<1>2. FoundAhead(w)' /\ Refused(w)'
  BY <1>1 DEF FoundAhead, Refused
<1> QED BY <1>1, <1>2, OtherNudgesKeep DEF historyVars, Sending

\* the schedule is exhausted at the last count there is
LEMMA LastAttempt ==
    ASSUME NEW n \in Attempts, n + 1 >= Len(Backoff)
    PROVE  n = Len(Backoff) - 1
<1>1. Len(Backoff) \in Nat
  BY QueueConstants
<1> QED BY <1>1 DEF Attempts

\* an attempt given up: whatever it has reached, it does not count as delivered
LEMMA GivesUp ==
    ASSUME NEW w \in Workers, nudge[w] \in Nudge, GiveUp(w, "other")
    PROVE  \E j \in Nudge : /\ nudge' = [nudge EXCEPT ![w] = j]
                          /\ j.stage = "settle" /\ j.failed = "other"
<1> DEFINE j == [nudge[w] EXCEPT !.stage = "settle", !.failed = "other"]
<1>1. j \in Nudge /\ j.stage = "settle" /\ j.failed = "other"
  BY DEF Nudge
<1> HIDE DEF j
<1>2. nudge' = [nudge EXCEPT ![w] = j]
  BY DEF j, GiveUp
<1> QED BY <1>1, <1>2

\* the types of what deliverRow changes
LEMMA PushTypeNext == NudgeInv /\ TypeOK' /\ [PushNext]_fanOutVars => PushTypeOK'
<1> SUFFICES ASSUME NudgeInv, TypeOK', [PushNext]_fanOutVars PROVE PushTypeOK'
  OBVIOUS
<1> USE DEF PushTypeOK
<1>0. PushTypeOK
  BY DEF NudgeInv
<1>1. NoNudge \in Nudge /\ Unresolved \in TenantPush
  BY DEF NoNudge, Nudge, Unresolved, TenantPush
<1>2. CASE UNCHANGED pushVars
  BY <1>0, <1>2 DEF pushVars, configVars, historyVars
<1>3. CASE \/ \E c \in Creds : SetPushCredential(c)
           \/ DeletePushCredential
           \/ \E d \in Devices : RegisterPush(d) \/ DeregisterPush(d)
  BY <1>0, <1>3 DEF SetPushCredential, DeletePushCredential, RegisterPush, DeregisterPush,
                    configVars, historyVars
<1>4. ASSUME NEW w \in Workers, WalkFanOut(w) \/ DieInFanOut(w) PROVE PushTypeOK'
  BY <1>0, <1>1, <1>4 DEF WalkFanOut, DieInFanOut, configVars, historyVars
<1>5. ASSUME NEW w \in Workers, DeliverRow(w) PROVE PushTypeOK'
  <2>1. \A st \in {"load", "resolve"} : [NoNudge EXCEPT !.stage = st] \in Nudge
    BY DEF NoNudge, Nudge
  <2> QED BY <1>0, <1>5, <2>1 DEF DeliverRow, configVars, historyVars
<1>6. ASSUME NEW w \in Workers, Resolve(w) PROVE PushTypeOK'
  <2>1. nudge[w] \in Nudge
    BY <1>0
  <2>2. [nudge[w] EXCEPT !.stage = "load"] \in Nudge
    BY <2>1 DEF Nudge
  <2>3. [nudge[w] EXCEPT !.stage = "settle", !.failed = "other"] \in Nudge
    BY <2>1 DEF Nudge
  <2>4. nudge' \in [Workers -> Nudge]
    BY <1>0, <1>6, <2>2, <2>3 DEF Resolve, Goto, GiveUp
  <2>5. [known |-> TRUE, cred |-> cred, verified |-> verified] \in TenantPush
    BY <1>0 DEF TenantPush
  <2>6. tp' \in [Workers -> TenantPush]
    BY <1>0, <1>6, <2>5 DEF Resolve
  <2> QED BY <1>0, <1>6, <2>4, <2>6 DEF Resolve, configVars, historyVars
<1>7. ASSUME NEW w \in Workers, Load(w) PROVE PushTypeOK'
  <2>1. nudge[w] \in Nudge
    BY <1>0
  <2>2. [nudge[w] EXCEPT !.stage = "settle"] \in Nudge
    BY <2>1 DEF Nudge
  <2>3. [nudge[w] EXCEPT !.stage = "settle", !.failed = "other"] \in Nudge
    BY <2>1 DEF Nudge
  <2>4. \A us \in SUBSET Users : [nudge[w] EXCEPT !.stage = "user", !.users = us] \in Nudge
    BY <2>1 DEF Nudge
  <2>5. nudge' \in [Workers -> Nudge]
    BY <1>0, <1>7, <2>2, <2>3, <2>4 DEF Load, Goto, GiveUp, Recipients
  <2> QED BY <1>0, <1>7, <2>5 DEF Load, configVars
<1>8. ASSUME NEW w \in Workers, NextUser(w) PROVE PushTypeOK'
  <2>1. nudge[w] \in Nudge
    BY <1>0
  <2>2. \A st \in {"verify", "settle"} : [nudge[w] EXCEPT !.stage = st] \in Nudge
    BY <2>1 DEF Nudge
  <2>3. [nudge[w] EXCEPT !.stage = "settle", !.failed = "other"] \in Nudge
    BY <2>1 DEF Nudge
  <2>4. \A us \in SUBSET Users, ds \in SUBSET Devices, st \in {"user", "check"} :
            [nudge[w] EXCEPT !.users = us, !.devices = ds, !.stage = st] \in Nudge
    BY <2>1 DEF Nudge
  <2>5. nudge[w].users \subseteq Users
    BY <2>1 DEF Nudge
  <2>6. CASE nudge[w].users = {} /\ UNCHANGED listed
    BY <1>0, <1>8, <2>2, <2>6, <2>3 DEF NextUser, Goto, GiveUp, configVars
  <2>7. CASE GiveUp(w, "other") /\ UNCHANGED listed
    BY <1>0, <1>8, <2>3, <2>7 DEF NextUser, GiveUp, configVars
  <2>8. ASSUME NEW u \in nudge[w].users, NEW found, found = {d \in tokens : Owner[d] = u},
               nudge' = [nudge EXCEPT ![w].users = @ \ {u},
                                  ![w].devices = found,
                                  ![w].stage = IF found = {} THEN "user" ELSE "check"],
               listed' = [listed EXCEPT ![row[w]] = @ \cup found]
        PROVE  PushTypeOK'
    <3>1. found \subseteq Devices /\ nudge[w].users \ {u} \subseteq Users
      BY <1>0, <2>5, <2>8
    <3>2. nudge' \in [Workers -> Nudge]
      BY <1>0, <2>4, <2>8, <3>1
    <3>3. listed' \in [Rows -> SUBSET Devices]
      BY <1>0, <2>8, <3>1
    <3> QED BY <1>0, <1>8, <3>2, <3>3 DEF NextUser, configVars
  <2> QED BY <1>8, <2>6, <2>7, <2>8 DEF NextUser
<1>9. ASSUME NEW w \in Workers, StillOurs(w) PROVE PushTypeOK'
  <2>1. nudge[w] \in Nudge
    BY <1>0
  <2>2. [nudge[w] EXCEPT !.stage = "notify"] \in Nudge
    BY <2>1 DEF Nudge
  <2>3. [nudge[w] EXCEPT !.stage = "settle", !.failed = "other"] \in Nudge
    BY <2>1 DEF Nudge
  <2>4. nudge' \in [Workers -> Nudge]
    BY <1>0, <1>1, <1>9, <2>2, <2>3 DEF StillOurs, Goto, GiveUp
  <2> QED BY <1>0, <1>9, <2>4 DEF StillOurs, configVars, historyVars
<1>10. ASSUME NEW w \in Workers, Notify(w) PROVE PushTypeOK'
  <2>1. nudge[w] \in Nudge /\ row[w] \in Rows
    BY <1>0, <1>10, Alone DEF Notify
  <2>2. PICK d \in nudge[w].devices :
            \/ /\ AfterDevice(w, d, TRUE, nudge[w].failed)
               /\ proved' = proved \cup {tp[w].cred}
               /\ reached' = [reached EXCEPT ![row[w]] = @ \cup {d}]
               /\ UNCHANGED <<tokens, dead, rejected>>
            \/ /\ AfterDevice(w, d, nudge[w].sent, nudge[w].failed)
               /\ dead' = dead \cup {d}
               /\ tokens' \in {tokens, tokens \ {d}}
               /\ UNCHANGED <<proved, reached, rejected>>
            \/ /\ AfterDevice(w, d, nudge[w].sent, "credential")
               /\ rejected' = rejected \cup {row[w]}
               /\ UNCHANGED <<tokens, dead, proved, reached>>
            \/ /\ AfterDevice(w, d, nudge[w].sent, "other")
               /\ UNCHANGED <<tokens, dead, proved, reached, rejected>>
    BY <1>10 DEF Notify
  <2>3. d \in Devices
    BY <2>1 DEF Nudge
  <2>4. ASSUME NEW f \in {"no", "credential", "other"}, NEW sent \in BOOLEAN,
               AfterDevice(w, d, sent, f)
        PROVE  nudge' \in [Workers -> Nudge]
    <3>1. \A st \in {"user", "check"} :
              [nudge[w] EXCEPT !.devices = @ \ {d}, !.sent = sent, !.failed = f, !.stage = st] \in Nudge
      BY <2>1 DEF Nudge
    <3> QED BY <1>0, <2>4, <3>1 DEF AfterDevice
  <2>5. nudge[w].failed \in {"no", "credential", "other"} /\ nudge[w].sent \in BOOLEAN
    BY <2>1 DEF Nudge
  <2>6. nudge' \in [Workers -> Nudge]
    BY <2>2, <2>4, <2>5
  <2>7. proved' \subseteq Creds
    <3>1. tp[w].cred \in Creds
      BY <1>0, <1>10 DEF Notify, NudgeInv, NudgeOnRow, Sending, TenantPush
    <3> QED BY <1>0, <2>2, <3>1
  <2>8. /\ tokens' \subseteq Devices /\ dead' \subseteq Devices
        /\ reached' \in [Rows -> SUBSET Devices] /\ rejected' \subseteq Rows
    BY <1>0, <2>1, <2>2, <2>3
  <2> QED BY <1>0, <1>10, <2>6, <2>7, <2>8 DEF Notify, configVars
<1>11. ASSUME NEW w \in Workers, MarkVerified(w) PROVE PushTypeOK'
  <2>1. nudge[w] \in Nudge /\ tp[w] \in TenantPush
    BY <1>0
  <2>2. [nudge[w] EXCEPT !.stage = "settle"] \in Nudge
    BY <2>1 DEF Nudge
  <2>3. [tp[w] EXCEPT !.verified = TRUE] \in TenantPush
    BY <2>1 DEF TenantPush
  <2>4. nudge' \in [Workers -> Nudge] /\ tp' \in [Workers -> TenantPush]
    BY <1>0, <1>11, <2>2, <2>3 DEF MarkVerified, Goto
  <2> QED BY <1>0, <1>11, <2>4 DEF MarkVerified, SetVerified, historyVars
<1>12. ASSUME NEW w \in Workers, SettleNudge(w) PROVE PushTypeOK'
  BY <1>0, <1>1, <1>12 DEF SettleNudge, configVars, historyVars
<1> QED
  BY <1>2, <1>3, <1>4, <1>5, <1>6, <1>7, <1>8, <1>9, <1>10, <1>11, <1>12 DEF PushNext, WorkFanOut, fanOutVars

LEMMA NudgeNext == Timely /\ NudgeInv /\ [PushNext]_fanOutVars => NudgeInv'
<1> SUFFICES ASSUME Timely, NudgeInv, [PushNext]_fanOutVars PROVE NudgeInv'
  OBVIOUS
<1>1. [QueueNext]_queueVars /\ QueueInv
  BY PushStep DEF NudgeInv
<1>2. QueueInv' /\ TypeOK'
  BY <1>1, InvNext DEF QueueInv
<1>3. PushTypeOK' /\ PushTypeOK
  BY <1>2, PushTypeNext DEF NudgeInv
<1>4. NoNudge \in Nudge /\ NoNudge.stage = "none" /\ NoNudge.failed = "no" /\ NoNudge.devices = {}
  BY DEF NoNudge, Nudge
<1>5. CASE UNCHANGED <<nudge, row, pc, tp, historyVars>> /\ \A r \in Rows : status'[r] \in Settled => status[r] \in Settled
  <2>1. DeliveredMeansReached' /\ DroppedMeansHopeless'
    BY <1>1, <1>5, SettledKeep DEF historyVars
  <2>2. NudgeOnRow' /\ \A w \in Workers : FoundAhead(w)' /\ Refused(w)'
    BY <1>5 DEF historyVars, NudgeInv, NudgeOnRow, FoundAhead, Refused
  <2> QED BY <1>2, <1>3, <2>1, <2>2 DEF NudgeInv
<1>6. CASE \/ UNCHANGED fanOutVars
           \/ \E c \in Creds : SetPushCredential(c)
           \/ DeletePushCredential
           \/ \E d \in Devices : RegisterPush(d) \/ DeregisterPush(d)
           \/ Tick /\ UNCHANGED pushVars
  BY <1>5, <1>6 DEF fanOutVars, SetPushCredential, DeletePushCredential, RegisterPush, DeregisterPush, Tick,
                    pushVars, queueVars
<1>7. CASE \E r \in Rows : Enqueue(r) /\ UNCHANGED pushVars
  <2>1. \A r \in Rows : status'[r] \in Settled => status[r] \in Settled
    BY <1>7 DEF Enqueue, Settled, NudgeInv, QueueInv, TypeOK, RowTypeOK
  <2> QED BY <1>5, <1>7, <2>1 DEF Enqueue, pushVars, passVars
<1>8. ASSUME NEW w \in Workers, WalkFanOut(w) \/ DieInFanOut(w) PROVE NudgeInv'
  <2>1. UNCHANGED <<status, historyVars>>
    BY <1>8 DEF WalkFanOut, DieInFanOut, Claim, StartPass, SkipRow, EndPass, AbortPass, Crash, rowVars
  <2>2. PICK j \in Nudge : nudge' = [nudge EXCEPT ![w] = j] /\ j.stage = "none" /\ j.failed = "no" /\ j.devices = {}
    <3>1. CASE DieInFanOut(w)
      BY <1>4, <3>1 DEF DieInFanOut
    <3>2. CASE WalkFanOut(w)
      <4>1. nudge[w].stage = "none" /\ nudge[w].failed = "no" /\ nudge[w].devices = {} /\ nudge[w] \in Nudge
        BY <3>2 DEF WalkFanOut, Claim, StartPass, SkipRow, EndPass, AbortPass, NudgeInv, NudgeOnRow, PushTypeOK
      <4>2. nudge' = [nudge EXCEPT ![w] = nudge[w]]
        BY <1>3, <3>2 DEF WalkFanOut, PushTypeOK
      <4> QED BY <4>1, <4>2
    <3> QED BY <1>8, <3>1, <3>2
  <2>3. \A v \in Workers \ {w} : pc'[v] = pc[v] /\ row'[v] = row[v] /\ tp'[v].cred = tp[v].cred
    BY <1>8 DEF WalkFanOut, DieInFanOut, Claim, StartPass, SkipRow, EndPass, AbortPass, Crash, Leave,
                NudgeInv, QueueInv, TypeOK, PassTypeOK, PushTypeOK
  <2>4. DeliveredMeansReached' /\ DroppedMeansHopeless'
    BY <1>1, <2>1, SettledKeep DEF historyVars
  <2> QED BY <1>1, <1>2, <1>3, <2>1, <2>2, <2>3, <2>4, FreshNudge
<1>9. ASSUME NEW w \in Workers, DeliverRow(w) PROVE NudgeInv'
  <2>1. PICK st \in {"load", "resolve"} : nudge' = [nudge EXCEPT ![w] = [NoNudge EXCEPT !.stage = st]]
    BY <1>9 DEF DeliverRow
  <2> DEFINE j == [NoNudge EXCEPT !.stage = st]
  <2>2. j \in Nudge /\ j.stage = st /\ j.failed = "no" /\ j.devices = {}
    BY DEF NoNudge, Nudge
  <2> HIDE DEF j
  <2>3. nudge' = [nudge EXCEPT ![w] = j]
    BY <2>1 DEF j
  <2>4. UNCHANGED <<status, tp, historyVars>> /\ pc'[w] = "work"
    BY <1>9 DEF DeliverRow, TakeRow, NudgeInv, QueueInv, TypeOK, PassTypeOK
  <2>5. \A v \in Workers \ {w} : pc'[v] = pc[v] /\ row'[v] = row[v]
    BY <1>9 DEF DeliverRow, TakeRow, NudgeInv, QueueInv, TypeOK, PassTypeOK
  <2>6. DeliveredMeansReached' /\ DroppedMeansHopeless'
    BY <1>1, <2>4, SettledKeep DEF historyVars
  <2> QED BY <1>1, <1>2, <1>3, <2>2, <2>3, <2>4, <2>5, <2>6, FreshNudge
<1>10. ASSUME NEW w \in Workers, Resolve(w) PROVE NudgeInv'
  <2>1. nudge[w].stage = "resolve" /\ nudge[w].failed = "no" /\ nudge[w].devices = {} /\ nudge[w] \in Nudge
    BY <1>3, <1>10 DEF Resolve, NudgeInv, NudgeOnRow, PushTypeOK
  <2>2. /\ UNCHANGED queueVars /\ UNCHANGED <<dead, reached, listed, rejected>>
        /\ \A v \in Workers \ {w} : tp'[v].cred = tp[v].cred
    BY <1>3, <1>10 DEF Resolve, historyVars, PushTypeOK
  <2>3. PICK j \in Nudge : /\ nudge' = [nudge EXCEPT ![w] = j]
                         /\ \/ j.stage = "load" /\ j.failed = "no" /\ j.devices = {}
                            \/ j.stage = "settle" /\ j.failed = "other"
    <3>1. CASE Goto(w, "load")
      <4> DEFINE j == [nudge[w] EXCEPT !.stage = "load"]
      <4>1. j \in Nudge /\ j.stage = "load" /\ j.failed = "no" /\ j.devices = {}
        BY <2>1 DEF Nudge
      <4> HIDE DEF j
      <4>2. nudge' = [nudge EXCEPT ![w] = j]
        BY <3>1 DEF j, Goto
      <4> QED BY <4>1, <4>2
    <3>2. CASE GiveUp(w, "other")
      BY <2>1, <3>2, GivesUp
    <3> QED BY <1>10, <3>1, <3>2 DEF Resolve
  <2> QED BY <1>3, <2>1, <2>2, <2>3, NudgeStep DEF Sending
<1>11. ASSUME NEW w \in Workers, Load(w) PROVE NudgeInv'
  <2>1. /\ nudge[w].stage = "load" /\ nudge[w].failed = "no" /\ nudge[w].devices = {}
        /\ nudge[w] \in Nudge /\ row[w] \in Rows
    BY <1>11, Alone DEF Load, NudgeInv, NudgeOnRow
  <2>2. /\ UNCHANGED queueVars /\ UNCHANGED <<tp, dead, reached, rejected>>
        /\ listed' = [listed EXCEPT ![row[w]] = {}]
    BY <1>11 DEF Load
  <2>3. listed'[row[w]] = {} /\ \A r \in Rows : r # row[w] => listed'[r] = listed[r]
    BY <1>3, <2>1, <2>2 DEF PushTypeOK
  <2>4. PICK j \in Nudge : /\ nudge' = [nudge EXCEPT ![w] = j]
                         /\ \/ j.stage = "settle" /\ j.failed = "no" /\ j.devices = {}
                            \/ j.stage = "user" /\ j.failed = "no" /\ j.devices = {} /\ tp[w].cred # NoCred
                            \/ j.stage = "settle" /\ j.failed = "other"
    <3>1. CASE Goto(w, "settle")
      <4> DEFINE j == [nudge[w] EXCEPT !.stage = "settle"]
      <4>1. j \in Nudge /\ j.stage = "settle" /\ j.failed = "no" /\ j.devices = {}
        BY <2>1 DEF Nudge
      <4> HIDE DEF j
      <4>2. nudge' = [nudge EXCEPT ![w] = j]
        BY <3>1 DEF j, Goto
      <4> QED BY <4>1, <4>2
    <3>2. ASSUME NEW us \in SUBSET Users, tp[w].cred # NoCred,
                 nudge' = [nudge EXCEPT ![w].stage = "user", ![w].users = us]
          PROVE  \E j \in Nudge : /\ nudge' = [nudge EXCEPT ![w] = j] /\ tp[w].cred # NoCred
                                /\ j.stage = "user" /\ j.failed = "no" /\ j.devices = {}
      <4> DEFINE j == [nudge[w] EXCEPT !.stage = "user", !.users = us]
      <4>1. j \in Nudge /\ j.stage = "user" /\ j.failed = "no" /\ j.devices = {}
        BY <2>1 DEF Nudge
      <4> HIDE DEF j
      <4>2. nudge' = [nudge EXCEPT ![w] = j]
        BY <3>2 DEF j
      <4> QED BY <3>2, <4>1, <4>2
    <3>3. CASE GiveUp(w, "other")
      BY <2>1, <3>3, GivesUp
    <3> QED BY <1>11, <3>1, <3>2, <3>3 DEF Load, Recipients
  <2> QED BY <1>3, <2>1, <2>2, <2>3, <2>4, NudgeStep DEF Sending
<1>12. ASSUME NEW w \in Workers, NextUser(w) PROVE NudgeInv'
  <2>1. /\ nudge[w].stage = "user" /\ nudge[w] \in Nudge /\ row[w] \in Rows /\ tp[w].cred # NoCred
        /\ nudge[w].failed = "no" =>
              listed[row[w]] \subseteq reached[row[w]] \cup dead /\ nudge[w].devices = {}
        /\ nudge[w].failed = "credential" => row[w] \in rejected
    BY <1>12, Alone DEF NextUser, NudgeInv, NudgeOnRow, Sending, FoundAhead, Refused
  <2>2. UNCHANGED queueVars /\ UNCHANGED <<tp, dead, reached, rejected>>
    BY <1>12 DEF NextUser
  <2>3. CASE nudge[w].users = {} /\ \E st \in {"verify", "settle"} : Goto(w, st) /\ UNCHANGED listed
    <3>1. PICK st \in {"verify", "settle"} : Goto(w, st) /\ UNCHANGED listed
      BY <2>3
    <3> DEFINE j == [nudge[w] EXCEPT !.stage = st]
    <3>2. j \in Nudge /\ j.stage = st /\ j.failed = nudge[w].failed /\ j.devices = nudge[w].devices
      BY <2>1 DEF Nudge
    <3> HIDE DEF j
    <3>3. nudge' = [nudge EXCEPT ![w] = j]
      BY <3>1 DEF j, Goto
    <3> QED BY <1>3, <2>1, <2>2, <3>1, <3>2, <3>3, NudgeStep DEF Sending
  <2>4. ASSUME NEW u \in nudge[w].users, NEW found, found = {d \in tokens : Owner[d] = u},
               nudge' = [nudge EXCEPT ![w].users = @ \ {u},
                                  ![w].devices = found,
                                  ![w].stage = IF found = {} THEN "user" ELSE "check"],
               listed' = [listed EXCEPT ![row[w]] = @ \cup found]
        PROVE  NudgeInv'
    <3> DEFINE j == [nudge[w] EXCEPT !.users = @ \ {u}, !.devices = found,
                                   !.stage = IF found = {} THEN "user" ELSE "check"]
    <3>1. found \subseteq Devices
      BY <1>3, <2>4 DEF PushTypeOK
    <3>2. /\ j \in Nudge /\ j.failed = nudge[w].failed /\ j.devices = found
          /\ j.stage = IF found = {} THEN "user" ELSE "check"
      BY <2>1, <3>1 DEF Nudge
    <3> HIDE DEF j
    <3>3. nudge' = [nudge EXCEPT ![w] = j]
      BY <2>4 DEF j
    <3>4. /\ listed'[row[w]] = listed[row[w]] \cup found
          /\ \A r \in Rows : r # row[w] => listed'[r] = listed[r]
      BY <1>3, <2>1, <2>4 DEF PushTypeOK
    <3> QED BY <1>3, <2>1, <2>2, <3>2, <3>3, <3>4, NudgeStep DEF Sending
  <2>5. CASE GiveUp(w, "other") /\ UNCHANGED listed
    <3>1. PICK j \in Nudge : /\ nudge' = [nudge EXCEPT ![w] = j]
                           /\ j.stage = "settle" /\ j.failed = "other"
      BY <2>1, <2>5, GivesUp
    <3> QED BY <1>3, <2>1, <2>2, <2>5, <3>1, NudgeStep DEF Sending
  <2> QED BY <1>12, <2>3, <2>4, <2>5 DEF NextUser
<1>13. ASSUME NEW w \in Workers, StillOurs(w) PROVE NudgeInv'
  <2>1. /\ nudge[w].stage = "check" /\ nudge[w] \in Nudge /\ row[w] \in Rows /\ tp[w].cred # NoCred
        /\ pc[w] = "work"
        /\ nudge[w].failed = "no" =>
              listed[row[w]] \subseteq reached[row[w]] \cup dead \cup nudge[w].devices
        /\ nudge[w].failed = "credential" => row[w] \in rejected
    BY <1>13, Alone DEF StillOurs, NudgeInv, NudgeOnRow, Sending, FoundAhead, Refused
  <2>2. UNCHANGED <<status, tp, historyVars>>
    BY <1>13 DEF StillOurs, Recheck, LoseRow, PutDown, rowVars, queueVars
  <2>3. DeliveredMeansReached' /\ DroppedMeansHopeless'
    BY <1>1, <2>2, SettledKeep DEF historyVars
  <2>4. CASE Recheck(w) /\ Goto(w, "notify")
    <3> DEFINE j == [nudge[w] EXCEPT !.stage = "notify"]
    <3>1. j \in Nudge /\ j.stage = "notify" /\ j.failed = nudge[w].failed /\ j.devices = nudge[w].devices
      BY <2>1 DEF Nudge
    <3> HIDE DEF j
    <3>2. nudge' = [nudge EXCEPT ![w] = j]
      BY <2>4 DEF j, Goto
    <3>3. nudge'[w] = j /\ \A v \in Workers \ {w} : nudge'[v] = nudge[v]
      BY <1>3, <3>2 DEF PushTypeOK
    <3>4. UNCHANGED <<pc, row>>
      BY <2>4 DEF Recheck
    <3>5. FoundAhead(w)' /\ Refused(w)'
      BY <2>1, <2>2, <3>1, <3>3, <3>4 DEF FoundAhead, Refused, historyVars
    <3> QED BY <1>2, <1>3, <2>1, <2>2, <2>3, <3>1, <3>3, <3>4, <3>5, OtherNudgesKeep DEF historyVars
  <2>5. CASE LoseRow(w) /\ nudge' = [nudge EXCEPT ![w] = NoNudge]
    <3>1. \A v \in Workers \ {w} : pc'[v] = pc[v] /\ row'[v] = row[v]
      BY <2>5 DEF LoseRow, PutDown, BackToLoop, NudgeInv, QueueInv, TypeOK, PassTypeOK
    <3> QED BY <1>1, <1>2, <1>3, <1>4, <2>2, <2>3, <2>5, <3>1, FreshNudge
  <2>6. CASE GiveUp(w, "other") /\ UNCHANGED queueVars
    <3>1. PICK j \in Nudge : /\ nudge' = [nudge EXCEPT ![w] = j]
                           /\ j.stage = "settle" /\ j.failed = "other"
      BY <2>1, <2>6, GivesUp
    <3> QED BY <1>3, <2>1, <2>2, <2>6, <3>1, NudgeStep DEF Sending, historyVars
  <2> QED BY <1>13, <2>4, <2>5, <2>6 DEF StillOurs
<1>14. ASSUME NEW w \in Workers, Notify(w) PROVE NudgeInv'
  <2>1. /\ nudge[w].stage = "notify" /\ nudge[w] \in Nudge /\ row[w] \in Rows /\ tp[w].cred # NoCred
        /\ nudge[w].failed = "no" =>
              listed[row[w]] \subseteq reached[row[w]] \cup dead \cup nudge[w].devices
        /\ nudge[w].failed = "credential" => row[w] \in rejected
    BY <1>14, Alone DEF Notify, NudgeInv, NudgeOnRow, Sending, FoundAhead, Refused
  <2>2. UNCHANGED queueVars /\ UNCHANGED <<tp, listed>>
    BY <1>14 DEF Notify
  <2>3. PICK d \in nudge[w].devices, f \in {"no", "credential", "other"}, sent \in BOOLEAN :
            /\ AfterDevice(w, d, sent, f)
            /\ \/ /\ f = nudge[w].failed
                  /\ \/ reached' = [reached EXCEPT ![row[w]] = @ \cup {d}] /\ UNCHANGED dead
                     \/ dead' = dead \cup {d} /\ UNCHANGED reached
                  /\ UNCHANGED rejected
               \/ f = "credential" /\ rejected' = rejected \cup {row[w]} /\ UNCHANGED <<dead, reached>>
               \/ f = "other" /\ UNCHANGED <<dead, reached, rejected>>
    <3>1. nudge[w].failed \in {"no", "credential", "other"} /\ nudge[w].sent \in BOOLEAN
      BY <2>1 DEF Nudge
    <3> QED BY <1>14, <3>1 DEF Notify
  <2> DEFINE j == [nudge[w] EXCEPT !.devices = @ \ {d}, !.sent = sent, !.failed = f,
                                 !.stage = IF nudge[w].devices = {d} THEN "user" ELSE "check"]
  <2>4. /\ j \in Nudge /\ j.failed = f /\ j.devices = nudge[w].devices \ {d}
        /\ j.stage = IF nudge[w].devices = {d} THEN "user" ELSE "check"
    BY <2>1 DEF Nudge
  <2> HIDE DEF j
  <2>5. nudge' = [nudge EXCEPT ![w] = j]
    BY <2>3 DEF j, AfterDevice
  <2>6. \A r \in Rows : reached[r] \subseteq reached'[r]
    BY <1>3, <2>1, <2>3 DEF PushTypeOK
  <2>7. dead \subseteq dead' /\ rejected \subseteq rejected'
    BY <2>3
  <2>8. f = nudge[w].failed => d \in reached'[row[w]] \cup dead' \/ f # "no"
    BY <1>3, <2>1, <2>3 DEF PushTypeOK
  <2>9. f = "no" => f = nudge[w].failed
    BY <2>3
  <2>10. f = "no" => listed[row[w]] \subseteq reached'[row[w]] \cup dead' \cup j.devices
    BY <2>1, <2>4, <2>6, <2>7, <2>8, <2>9
  <2>11. f = "credential" => row[w] \in rejected'
    BY <2>1, <2>3
  <2> QED BY <1>3, <2>1, <2>2, <2>4, <2>5, <2>6, <2>7, <2>10, <2>11, NudgeStep DEF Sending
<1>15. ASSUME NEW w \in Workers, MarkVerified(w) PROVE NudgeInv'
  <2>1. /\ nudge[w].stage = "verify" /\ nudge[w] \in Nudge /\ row[w] \in Rows
        /\ nudge[w].failed = "no" =>
              listed[row[w]] \subseteq reached[row[w]] \cup dead /\ nudge[w].devices = {}
        /\ nudge[w].failed = "credential" => row[w] \in rejected
    BY <1>15, Alone DEF MarkVerified, NudgeInv, FoundAhead, Refused
  <2>2. /\ UNCHANGED queueVars /\ UNCHANGED <<listed, reached, dead, rejected>>
        /\ \A v \in Workers \ {w} : tp'[v].cred = tp[v].cred
    BY <1>3, <1>15 DEF MarkVerified, historyVars, PushTypeOK
  <2> DEFINE j == [nudge[w] EXCEPT !.stage = "settle"]
  <2>3. j \in Nudge /\ j.stage = "settle" /\ j.failed = nudge[w].failed /\ j.devices = nudge[w].devices
    BY <2>1 DEF Nudge
  <2> HIDE DEF j
  <2>4. nudge' = [nudge EXCEPT ![w] = j]
    BY <1>15 DEF MarkVerified, Goto, j
  <2> QED BY <1>3, <2>1, <2>2, <2>3, <2>4, NudgeStep DEF Sending
<1>16. ASSUME NEW w \in Workers, SettleNudge(w) PROVE NudgeInv'
  <2>1. /\ nudge[w].stage = "settle" /\ pc[w] = "work"
        /\ nudge[w].failed = "no" => listed[row[w]] \subseteq reached[row[w]] \cup dead
        /\ nudge[w].failed = "credential" => row[w] \in rejected
    BY <1>16, Alone DEF SettleNudge, NudgeInv, FoundAhead, Refused
  <2>2. row[w] \in Rows /\ status[row[w]] = "pending" /\ attempts[row[w]] = snap[w][row[w]]
    BY <1>1, <2>1, WriterHolds
  <2>3. /\ nudge' = [nudge EXCEPT ![w] = NoNudge] /\ UNCHANGED <<tp, historyVars>>
        /\ \A v \in Workers \ {w} : pc'[v] = pc[v] /\ row'[v] = row[v]
    BY <1>16 DEF SettleNudge, MarkDelivered, MarkFailed, Retry, LeaveRow, PutDown, BackToLoop,
                 NudgeInv, QueueInv, TypeOK, PassTypeOK
  <2>4. /\ status[row[w]] \notin Settled
        /\ attempts[row[w]] \in Attempts /\ attempts' \in [Rows -> Attempts]
    BY <1>2, <2>2 DEF Settled, NudgeInv, QueueInv, TypeOK, RowTypeOK
  <2>5. \A r \in Rows : r # row[w] => status'[r] = status[r] /\ attempts'[r] = attempts[r]
    BY <1>16, <2>2 DEF SettleNudge, MarkDelivered, MarkFailed, Retry, LeaveRow, PutDown, rowVars, settle,
                       reschedule, NudgeInv, QueueInv, TypeOK, RowTypeOK
  <2>6. status'[row[w]] = "delivered" => nudge[w].failed = "no"
    BY <1>16, <2>2 DEF SettleNudge, MarkDelivered, MarkFailed, Retry, LeaveRow, PutDown, rowVars, settle,
                       reschedule, NudgeInv, QueueInv, TypeOK, RowTypeOK
  <2>7. status'[row[w]] = "failed" =>
            \/ nudge[w].failed = "credential"
            \/ attempts[row[w]] + 1 >= Len(Backoff) /\ attempts'[row[w]] = attempts[row[w]]
    BY <1>16, <2>2 DEF SettleNudge, MarkDelivered, MarkFailed, Retry, LeaveRow, PutDown, rowVars, settle,
                       reschedule, NudgeInv, QueueInv, TypeOK, RowTypeOK
  <2>8. DeliveredMeansReached'
    BY <2>1, <2>3, <2>5, <2>6 DEF NudgeInv, DeliveredMeansReached, historyVars
  <2>9. attempts[row[w]] + 1 >= Len(Backoff) => attempts[row[w]] = Len(Backoff) - 1
    BY <2>4, LastAttempt
  <2>10. DroppedMeansHopeless'
    BY <2>1, <2>3, <2>5, <2>7, <2>9 DEF NudgeInv, DroppedMeansHopeless, historyVars
  <2> QED BY <1>1, <1>2, <1>3, <1>4, <2>3, <2>8, <2>10, FreshNudge
<1> QED
  BY <1>6, <1>7, <1>8, <1>9, <1>10, <1>11, <1>12, <1>13, <1>14, <1>15, <1>16 DEF PushNext, WorkFanOut

(* With timely workers a nudge is marked delivered (fanout.go, deliverRow) *)
(* only when every device its last attempt found has it or is gone.        *)
THEOREM ReachedHolds == Timely => (PushSpec => []DeliveredMeansReached)
<1> HAVE Timely
<1>1. NudgeInv /\ [PushNext]_fanOutVars => NudgeInv'
  BY NudgeNext
<1>2. NudgeInv => DeliveredMeansReached
  BY DEF NudgeInv
<1> QED BY <1>1, <1>2, NudgeInit, PTL DEF PushSpec

(* With timely workers the fan-out keeps its types and drops a nudge only  *)
(* for a refused credential or an exhausted schedule (fanout.go: "Only a   *)
(* rejected credential is terminal").                                      *)
THEOREM PushInvHolds == Timely => (PushSpec => []PushInv)
<1> HAVE Timely
<1>1. NudgeInv /\ [PushNext]_fanOutVars => NudgeInv'
  BY NudgeNext
<1>2. NudgeInv => PushInv
  BY DEF NudgeInv, PushInv
<1> QED BY <1>1, <1>2, NudgeInit, PTL DEF PushSpec
=============================================================================
