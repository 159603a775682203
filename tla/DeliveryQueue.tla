--------------------------- MODULE DeliveryQueue ---------------------------
(***************************************************************************)
(* The claim protocol that every delivery queue of the backend shares      *)
(* (store/gormstore/claim.go), together with the part of a worker's pass   *)
(* that the webhook relay (connector/webhook/relay.go) and the push        *)
(* fan-out (push/fanout.go) have in common: claim a batch of due rows under *)
(* a token, walk the batch, re-lock each row once the pass has run past     *)
(* renewFrom, and settle or reschedule the row worked on.                   *)
(*                                                                         *)
(* What a worker does between taking a row and settling it is left open:   *)
(* WebhookRelay and PushFanOut extend this module with it, and implement   *)
(* QueueSpec.                                                              *)
(*                                                                         *)
(* Time. Timestamps are kept as the time that is left until them, and Tick *)
(* counts every one of them down: available_at is availIn (0 once due),    *)
(* locked_until is lockLeft (-1 once locked_until < now, and -1 for NULL,  *)
(* which `unclaimed` does not tell apart), renewFrom is renewIn. No clock  *)
(* is needed and the state space is finite.                                *)
(***************************************************************************)
EXTENDS Integers, Sequences, FiniteSets

CONSTANTS
    Rows,        \* rows of one queue table
    NoRow,
    Workers,     \* processes that run the job
    Tokens,      \* what id.New(id.Holder) returns; larger than the number in use
    NoToken,     \* claim_token IS NULL
    ClaimTTL,    \* store.ClaimTTL
    RenewAfter,  \* renewAfter, half of ClaimTTL
    Backoff,     \* backoffSchedule
    MaxGap,      \* longest time from a look at the clock to the last write it vouches for
    MaxSkew,     \* how far the clock of one worker may run ahead of another's
    MaxFaults    \* bound on crashes and failed database calls

ASSUME QueueConstants ==
    /\ NoRow \notin Rows /\ NoRow \notin Workers
    /\ NoToken \notin Tokens
    /\ ClaimTTL \in Nat /\ RenewAfter \in Nat /\ RenewAfter < ClaimTTL
    /\ Backoff \in Seq(Nat) /\ Len(Backoff) > 0
    /\ MaxGap \in Nat /\ MaxSkew \in Nat /\ MaxFaults \in Nat

VARIABLES
    \* the columns of the table
    status,
    availIn,     \* available_at
    attempts,
    claimToken,
    lockLeft,    \* locked_until
    \* the pass each worker is in: ProcessOnce and its local variables
    pc,
    token,       \* the token of its claim
    batch,       \* claimed rows it has not come to yet
    snap,        \* the attempts column as the claim read it
    row,         \* the row being worked on
    renewIn,     \* renewFrom
    age,         \* time since the worker last looked at the clock
    \* crashes and failed database calls so far
    faults

rowVars == <<status, availIn, attempts, claimToken, lockLeft>>
passVars == <<pc, token, batch, snap, row, renewIn, age>>
queueVars == <<status, availIn, attempts, claimToken, lockLeft,
               pc, token, batch, snap, row, renewIn, age, faults>>

Settled == {"delivered", "failed"}
Status == {"none", "pending"} \cup Settled
Attempts == 0..(Len(Backoff) - 1)
LockTime == -1..ClaimTTL

RowTypeOK ==
    /\ status \in [Rows -> Status]
    /\ availIn \in [Rows -> Nat]
    /\ attempts \in [Rows -> Attempts]
    /\ claimToken \in [Rows -> Tokens \cup {NoToken}]
    /\ lockLeft \in [Rows -> LockTime]

PassTypeOK ==
    /\ pc \in [Workers -> {"idle", "claimed", "loop", "work"}]
    /\ token \in [Workers -> Tokens \cup {NoToken}]
    /\ batch \in [Workers -> SUBSET Rows]
    /\ snap \in [Workers -> [Rows -> Attempts]]
    /\ row \in [Workers -> Rows \cup {NoRow}]
    /\ renewIn \in [Workers -> 0..RenewAfter]
    /\ age \in [Workers -> 0..MaxGap]
    /\ \A w \in Workers : pc[w] = "work" => row[w] \in Rows

(* The types of the columns and of the local variables of a pass. *)
TypeOK == RowTypeOK /\ PassTypeOK /\ faults \in 0..MaxFaults

NoSnap == [r \in Rows |-> 0]

QueueInit ==
    /\ status = [r \in Rows |-> "none"]
    /\ availIn = [r \in Rows |-> 0]
    /\ attempts = [r \in Rows |-> 0]
    /\ claimToken = [r \in Rows |-> NoToken]
    /\ lockLeft = [r \in Rows |-> -1]
    /\ pc = [w \in Workers |-> "idle"]
    /\ token = [w \in Workers |-> NoToken]
    /\ batch = [w \in Workers |-> {}]
    /\ snap = [w \in Workers |-> NoSnap]
    /\ row = [w \in Workers |-> NoRow]
    /\ renewIn = [w \in Workers |-> 0]
    /\ age = [w \in Workers |-> 0]
    /\ faults = 0

Fault ==
    /\ faults < MaxFaults
    /\ faults' = faults + 1

-----------------------------------------------------------------------------
(* The statements of claim.go *)

\* mutant: a lock that lapses shortly is taken for lapsed
UnclaimedEarly(r, skew) == lockLeft[r] <= skew + 1

\* mutant: a lapsed lock still counts
UnclaimedOnlyNull(r, skew) == claimToken[r] = NoToken

\* `locked_until IS NULL OR locked_until < now`, now being the claimer's clock
unclaimed(r, skew) == lockLeft[r] < skew

\* mutant: the select forgets status = pending
DueAnyStatus(skew) ==
    {r \in Rows : status[r] # "none" /\ availIn[r] <= skew /\ unclaimed(r, skew)}

\* the rows the candidate select returns to a worker whose clock is skew ahead
Due(skew) ==
    {r \in Rows : status[r] = "pending" /\ availIn[r] <= skew /\ unclaimed(r, skew)}

UnusedTokens ==
    Tokens \ ({claimToken[r] : r \in Rows} \cup {token[w] : w \in Workers})

NewToken == CHOOSE t \in UnusedTokens : TRUE

\* the claimed columns of a row that nobody holds
dropClaim(r) ==
    /\ claimToken' = [claimToken EXCEPT ![r] = NoToken]
    /\ lockLeft' = [lockLeft EXCEPT ![r] = -1]

\* settle: the row is terminal and nobody's. WHERE id = ? only.
settle(r, s) ==
    /\ status' = [status EXCEPT ![r] = s]
    /\ dropClaim(r)
    /\ UNCHANGED <<availIn, attempts>>

\* mutant: the attempts column is reset
RescheduleFromScratch(r, n) ==
    /\ attempts' = [attempts EXCEPT ![r] = 0]
    /\ availIn' = [availIn EXCEPT ![r] = Backoff[n + 1]]
    /\ dropClaim(r)
    /\ UNCHANGED status

\* reschedule: attempts and the delay come from the worker. WHERE id = ? only.
\* backoffSchedule is indexed from 0, Backoff from 1.
reschedule(r, n) ==
    /\ attempts' = [attempts EXCEPT ![r] = n]
    /\ availIn' = [availIn EXCEPT ![r] = Backoff[n + 1]]
    /\ dropClaim(r)
    /\ UNCHANGED status

-----------------------------------------------------------------------------
(* Producer *)

\* Enqueue: available_at defaults to now; PushOutbox.Enqueue does nothing for a
\* row that exists.
Enqueue(r) ==
    /\ status[r] = "none"
    /\ status' = [status EXCEPT ![r] = "pending"]
    /\ UNCHANGED <<availIn, attempts, claimToken, lockLeft, passVars, faults>>

-----------------------------------------------------------------------------
(* A worker's pass *)

\* claimDue: LIMIT and SKIP LOCKED leave the worker some of the due rows.
Claim(w) ==
    /\ pc[w] = "idle"
    /\ UnusedTokens # {}
    /\ \E skew \in 0..MaxSkew, rs \in SUBSET Rows :
         /\ rs # {} /\ rs \subseteq Due(skew)
         /\ claimToken' = [r \in Rows |-> IF r \in rs THEN NewToken ELSE claimToken[r]]
         /\ lockLeft' = [r \in Rows |-> IF r \in rs THEN ClaimTTL ELSE lockLeft[r]]
         /\ batch' = [batch EXCEPT ![w] = rs]
         /\ snap' = [snap EXCEPT ![w] = [r \in Rows |-> IF r \in rs THEN attempts[r] ELSE 0]]
    /\ token' = [token EXCEPT ![w] = NewToken]
    /\ pc' = [pc EXCEPT ![w] = "claimed"]
    /\ UNCHANGED <<status, availIn, attempts, row, renewIn, age, faults>>

\* renewFrom is read off the clock once ClaimDue has returned.
StartPass(w) ==
    /\ pc[w] = "claimed"
    /\ pc' = [pc EXCEPT ![w] = "loop"]
    /\ renewIn' = [renewIn EXCEPT ![w] = RenewAfter]
    /\ age' = [age EXCEPT ![w] = 0]
    /\ UNCHANGED <<rowVars, token, batch, snap, row, faults>>

\* holds: time.Now().Before(renewFrom), and otherwise what renewClaim matches on
Fresh(w) == renewIn[w] > 0
Ours(w, r) == claimToken[r] = token[w]

\* mutant: the claim is taken for granted past renewFrom too
HoldsAlways(w, r) == UNCHANGED lockLeft

\* holds succeeds: without a write while the claim is fresh, re-locking the row after
Holds(w, r) ==
    \/ Fresh(w) /\ UNCHANGED lockLeft
    \/ ~Fresh(w) /\ Ours(w, r) /\ lockLeft' = [lockLeft EXCEPT ![r] = ClaimTTL]

\* the loop head finds the row still ours
TakeRow(w) ==
    /\ pc[w] = "loop"
    /\ \E r \in batch[w] :
         /\ Holds(w, r)
         /\ batch' = [batch EXCEPT ![w] = @ \ {r}]
         /\ row' = [row EXCEPT ![w] = r]
    /\ pc' = [pc EXCEPT ![w] = "work"]
    /\ age' = [age EXCEPT ![w] = 0]
    /\ UNCHANGED <<status, availIn, attempts, claimToken, token, snap, renewIn, faults>>

\* the loop head finds the row taken by another worker: continue
SkipRow(w) ==
    /\ pc[w] = "loop" /\ ~Fresh(w)
    /\ \E r \in batch[w] :
         /\ ~Ours(w, r)
         /\ batch' = [batch EXCEPT ![w] = @ \ {r}]
    /\ UNCHANGED <<rowVars, pc, token, snap, row, renewIn, age, faults>>

\* ProcessOnce returns, or its process is gone
Leave(w) ==
    /\ pc' = [pc EXCEPT ![w] = "idle"]
    /\ token' = [token EXCEPT ![w] = NoToken]
    /\ batch' = [batch EXCEPT ![w] = {}]
    /\ snap' = [snap EXCEPT ![w] = NoSnap]
    /\ row' = [row EXCEPT ![w] = NoRow]
    /\ renewIn' = [renewIn EXCEPT ![w] = 0]
    /\ age' = [age EXCEPT ![w] = 0]

\* the pass returns: its batch is done
EndPass(w) ==
    /\ pc[w] = "loop" /\ batch[w] = {}
    /\ Leave(w)
    /\ UNCHANGED <<rowVars, faults>>

\* the pass returns early: the loop head's re-lock failed
AbortPass(w) ==
    /\ pc[w] = "loop" /\ batch[w] # {} /\ ~Fresh(w)
    /\ Fault
    /\ Leave(w)
    /\ UNCHANGED rowVars

\* the process dies; the rows keep its token until the lock lapses
Crash(w) ==
    /\ pc[w] # "idle"
    /\ Fault
    /\ Leave(w)
    /\ UNCHANGED rowVars

-----------------------------------------------------------------------------
(* The claimed row being worked on *)

BackToLoop(w) ==
    /\ pc' = [pc EXCEPT ![w] = "loop"]
    /\ row' = [row EXCEPT ![w] = NoRow]
    /\ age' = [age EXCEPT ![w] = 0]
    /\ UNCHANGED <<token, batch, snap, renewIn>>

\* holds between two endpoints or two devices
Recheck(w) ==
    /\ pc[w] = "work"
    /\ Holds(w, row[w])
    /\ age' = [age EXCEPT ![w] = 0]
    /\ UNCHANGED <<status, availIn, attempts, claimToken,
                   pc, token, batch, snap, row, renewIn, faults>>

\* the row is put down as it is
PutDown(w) ==
    /\ pc[w] = "work"
    /\ BackToLoop(w)
    /\ UNCHANGED rowVars

\* the claim is lost: what a worker finds that was away for too long
LoseRow(w) == PutDown(w) /\ ~Fresh(w) /\ ~Ours(w, row[w]) /\ UNCHANGED faults

\* a database call failed: a re-lock that could not be made, or a settling write whose
\* error is ignored
LeaveRow(w) == PutDown(w) /\ Fault

\* no verdict on the row
NoVerdict(w) == pc[w] = "work" /\ (LoseRow(w) \/ LeaveRow(w))

MarkDelivered(w) ==
    /\ pc[w] = "work"
    /\ settle(row[w], "delivered")
    /\ BackToLoop(w)
    /\ UNCHANGED faults

MarkFailed(w) ==
    /\ pc[w] = "work"
    /\ settle(row[w], "failed")
    /\ BackToLoop(w)
    /\ UNCHANGED faults

\* Relay.reschedule and FanOut.reschedule: MarkFailed once the schedule is exhausted
Retry(w) ==
    LET n == snap[w][row[w]] + 1 IN
    /\ pc[w] = "work"
    /\ \/ n >= Len(Backoff) /\ settle(row[w], "failed")
       \/ n < Len(Backoff) /\ reschedule(row[w], n)
    /\ BackToLoop(w)
    /\ UNCHANGED faults

-----------------------------------------------------------------------------
(* Time. A worker inside a pass looks at the clock again within MaxGap: it *)
(* waits for nothing but the database and its peers, and its HTTP client   *)
(* has a timeout.                                                          *)

Minus1(n, floor) == IF n > floor THEN n - 1 ELSE floor

InPass(w) == pc[w] # "idle"

Tick ==
    /\ \A w \in Workers : InPass(w) => age[w] < MaxGap
    /\ availIn' = [r \in Rows |-> Minus1(availIn[r], 0)]
    /\ lockLeft' = [r \in Rows |-> Minus1(lockLeft[r], -1)]
    /\ renewIn' = [w \in Workers |-> Minus1(renewIn[w], 0)]
    /\ age' = [w \in Workers |-> IF InPass(w) THEN age[w] + 1 ELSE age[w]]
    /\ UNCHANGED <<status, attempts, claimToken, pc, token, batch, snap, row, faults>>

\* More than ClaimTTL goes by while no worker moves: a suspended machine, a database
\* that answers nobody. Every lock lapses under its holder.
Stall ==
    /\ \E w \in Workers : InPass(w)
    /\ Fault
    /\ availIn' = [r \in Rows |-> 0]
    /\ lockLeft' = [r \in Rows |-> -1]
    /\ renewIn' = [w \in Workers |-> 0]
    /\ UNCHANGED <<status, attempts, claimToken, pc, token, batch, snap, row, age>>

-----------------------------------------------------------------------------
PassStep(w) ==
    Claim(w) \/ StartPass(w) \/ TakeRow(w) \/ SkipRow(w) \/ EndPass(w) \/ AbortPass(w)

RowStep(w) ==
    \/ Recheck(w) \/ NoVerdict(w)
    \/ MarkDelivered(w) \/ MarkFailed(w) \/ Retry(w)

QueueNext ==
    \/ \E r \in Rows : Enqueue(r)
    \/ \E w \in Workers : PassStep(w) \/ RowStep(w) \/ Crash(w)
    \/ Tick

QueueSpec == QueueInit /\ [][QueueNext]_queueVars

-----------------------------------------------------------------------------
(* Properties. They hold of workers that are Timely: no worker stays away  *)
(* from its row longer than half of what the claim has left when renewFrom *)
(* comes, whatever the clocks' skew takes from it.                         *)

Timely == 2 * MaxGap + MaxSkew <= ClaimTTL - RenewAfter

(* A worker between a successful holds() and its settling write still has  *)
(* the row: it is pending, under the worker's token, and the lock has not  *)
(* lapsed for any other worker's clock. This is what makes it safe for     *)
(* settle and reschedule to write WHERE id = ? without the token.          *)
HolderOwnsRow ==
    \A w \in Workers : pc[w] = "work" =>
        /\ status[row[w]] = "pending"
        /\ claimToken[row[w]] = token[w]
        /\ lockLeft[row[w]] >= MaxSkew

(* No row is worked on by two workers at once ("no row is delivered twice",*)
(* claim.go).                                                              *)
OneWorkerPerRow ==
    \A v, w \in Workers :
        (v # w /\ pc[v] = "work" /\ pc[w] = "work") => row[v] # row[w]

(* A settled row is never written again: no late worker turns a delivered  *)
(* row into a failed one, reschedules it or takes it once more.            *)
SettledIsFinal ==
    [][\A r \in Rows : status[r] \in Settled =>
          /\ status'[r] = status[r]
          /\ attempts'[r] = attempts[r]
          /\ claimToken'[r] = NoToken]_queueVars

(* The attempts column only counts up, by one: no reschedule writes back a *)
(* stale count and so stretches the retry schedule.                        *)
AttemptsCountUp ==
    [][\A r \in Rows : attempts'[r] \in {attempts[r], attempts[r] + 1}]_queueVars

-----------------------------------------------------------------------------
(* The inductive invariant behind HolderOwnsRow.                           *)

\* the rows a pass has yet to deal with
Mine(w) == batch[w] \cup ({row[w]} \ {NoRow})

TokensApart ==
    \A w \in Workers :
        /\ InPass(w) => token[w] \in Tokens
        /\ \A v \in Workers \ {w} : InPass(w) => token[v] # token[w]

ClaimedIsPending == \A r \in Rows : claimToken[r] # NoToken => status[r] = "pending"

RowOutOfBatch ==
    \A w \in Workers :
        /\ pc[w] = "work" <=> row[w] # NoRow
        /\ row[w] \notin batch[w]
        /\ pc[w] = "idle" => batch[w] = {}

\* the snapshot of attempts is current as long as the token is on the row
SnapshotCurrent ==
    \A w \in Workers : InPass(w) => \A r \in Mine(w) :
        claimToken[r] = token[w] => attempts[r] = snap[w][r]

\* until renewFrom, every row left in the pass is locked, with time to spare
FreshClaimHeld ==
    \A w \in Workers : \A r \in Mine(w) :
        /\ pc[w] = "claimed" =>
              claimToken[r] = token[w] /\ lockLeft[r] >= ClaimTTL - age[w]
        /\ (pc[w] \in {"loop", "work"} /\ Fresh(w)) =>
              /\ claimToken[r] = token[w]
              /\ lockLeft[r] >= renewIn[w] + (ClaimTTL - RenewAfter - MaxGap)

\* the row worked on stays locked until the worker looks at the clock again
WorkedRowLocked ==
    \A w \in Workers : pc[w] = "work" =>
        /\ claimToken[row[w]] = token[w]
        /\ lockLeft[row[w]] >= MaxSkew + (MaxGap - age[w])

(* What every step preserves: together, a fresh claim outlives its worker's *)
(* next look at the clock, and nobody else can take a row meanwhile.        *)
QueueInv ==
    /\ TypeOK
    /\ TokensApart /\ ClaimedIsPending /\ RowOutOfBatch
    /\ SnapshotCurrent /\ FreshClaimHeld /\ WorkedRowLocked

-----------------------------------------------------------------------------
(* Refinement: the worker of a row is the one whose pass is on it.         *)

workerOf == [r \in Rows |->
    IF \E w \in Workers : pc[w] = "work" /\ row[w] = r
      THEN CHOOSE w \in Workers : pc[w] = "work" /\ row[w] = r
      ELSE NoRow]

WQ == INSTANCE WorkQueue WITH NoWorker <- NoRow, MaxAttempts <- Len(Backoff),
                              worker <- workerOf

(* The claim protocol implements the abstract queue: whoever works on a    *)
(* row is alone on it, and only it decides what becomes of the row.        *)
ImplementsWorkQueue == WQ!Spec
=============================================================================
