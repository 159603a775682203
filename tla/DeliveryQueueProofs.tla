------------------------ MODULE DeliveryQueueProofs ------------------------
(***************************************************************************)
(* Proofs about the claim protocol, for every number of rows and workers   *)
(* and every schedule, TTL and skew.                                       *)
(***************************************************************************)
EXTENDS DeliveryQueue, TLAPS

LEMMA Numbers ==
    /\ ClaimTTL \in Nat /\ RenewAfter \in Nat /\ RenewAfter < ClaimTTL
    /\ MaxGap \in Nat /\ MaxSkew \in Nat
BY QueueConstants

LEMMA NewTokenUnused == UnusedTokens # {} => NewToken \in UnusedTokens
BY DEF NewToken

LEMMA NoSnapType == NoSnap \in [Rows -> Attempts]
BY QueueConstants DEF NoSnap, Attempts

LEMMA LockTimes == -1 \in LockTime /\ ClaimTTL \in LockTime
BY QueueConstants DEF LockTime

\* the delay of a retry is in the schedule
LEMMA BackoffDelay ==
    ASSUME NEW n \in Attempts, n + 1 < Len(Backoff)
    PROVE  Backoff[n + 1 + 1] \in Nat /\ n + 1 \in Attempts
BY QueueConstants DEF Attempts

LEMMA HoldsType ==
    ASSUME RowTypeOK, NEW w, NEW r, Holds(w, r)
    PROVE  lockLeft' \in [Rows -> LockTime]
BY LockTimes DEF RowTypeOK, Holds

LEMMA RescheduleType ==
    ASSUME RowTypeOK, NEW r, NEW n \in Attempts, Backoff[n + 1] \in Nat, reschedule(r, n)
    PROVE  RowTypeOK'
<1>1. attempts' \in [Rows -> Attempts] /\ availIn' \in [Rows -> Nat]
  BY DEF RowTypeOK, reschedule
<1>2. claimToken' \in [Rows -> Tokens \cup {NoToken}] /\ lockLeft' \in [Rows -> LockTime]
  BY LockTimes DEF RowTypeOK, reschedule, dropClaim
<1> QED BY <1>1, <1>2 DEF RowTypeOK, reschedule

LEMMA TypeInit == QueueInit => TypeOK
BY QueueConstants, NoSnapType, LockTimes DEF QueueInit, TypeOK, RowTypeOK, PassTypeOK, Status, Attempts

\* every action keeps the types of the columns and of the pass
LEMMA TypeNext == TypeOK /\ [QueueNext]_queueVars => TypeOK'
<1> SUFFICES ASSUME TypeOK, [QueueNext]_queueVars PROVE TypeOK'
  OBVIOUS
<1> USE QueueConstants, NoSnapType, LockTimes DEF TypeOK, RowTypeOK, PassTypeOK, rowVars, passVars
<1>1. ASSUME NEW r \in Rows, Enqueue(r) PROVE TypeOK'
  BY <1>1 DEF Enqueue, Status
<1>2. ASSUME NEW w \in Workers, PassStep(w) PROVE TypeOK'
  <2>1. CASE Claim(w)
    <3>1. NewToken \in Tokens
      BY <2>1, NewTokenUnused DEF Claim, UnusedTokens
    <3>2. PICK rs \in SUBSET Rows :
            /\ claimToken' = [r \in Rows |-> IF r \in rs THEN NewToken ELSE claimToken[r]]
            /\ lockLeft' = [r \in Rows |-> IF r \in rs THEN ClaimTTL ELSE lockLeft[r]]
            /\ batch' = [batch EXCEPT ![w] = rs]
            /\ snap' = [snap EXCEPT ![w] = [r \in Rows |-> IF r \in rs THEN attempts[r] ELSE 0]]
      BY <2>1 DEF Claim
    <3>3. [r \in Rows |-> IF r \in rs THEN attempts[r] ELSE 0] \in [Rows -> Attempts]
      BY DEF Attempts
    <3> QED BY <2>1, <3>1, <3>2, <3>3 DEF Claim
  <2>2. CASE StartPass(w)
    BY <2>2 DEF StartPass
  <2>3. CASE TakeRow(w)
    <3>1. RowTypeOK'
      BY <2>3, HoldsType DEF TakeRow
    <3>2. PassTypeOK'
      BY <2>3 DEF TakeRow
    <3> QED BY <2>3, <3>1, <3>2 DEF TakeRow
  <2>4. CASE SkipRow(w)
    BY <2>4 DEF SkipRow
  <2>5. CASE EndPass(w)
    BY <2>5 DEF EndPass, Leave
  <2>6. CASE AbortPass(w)
    BY <2>6 DEF AbortPass, Leave, Fault
  <2> QED BY <1>2, <2>1, <2>2, <2>3, <2>4, <2>5, <2>6 DEF PassStep
<1>3. ASSUME NEW w \in Workers, RowStep(w) PROVE TypeOK'
  <2>1. ASSUME pc[w] = "work", BackToLoop(w) PROVE PassTypeOK'
    BY <2>1 DEF BackToLoop
  <2>2. CASE Recheck(w)
    <3>1. RowTypeOK'
      BY <2>2, HoldsType DEF Recheck
    <3>2. PassTypeOK'
      BY <2>2 DEF Recheck
    <3> QED BY <2>2, <3>1, <3>2 DEF Recheck
  <2>3. CASE LoseRow(w)
    BY <2>1, <2>3 DEF LoseRow, PutDown
  <2>4. CASE LeaveRow(w)
    BY <2>1, <2>4 DEF LeaveRow, PutDown, Fault
  <2>5. ASSUME NEW s \in Settled, settle(row[w], s) PROVE RowTypeOK'
    BY <2>5 DEF settle, dropClaim, Status
  <2>6. CASE MarkDelivered(w)
    BY <2>1, <2>5, <2>6 DEF MarkDelivered, Settled
  <2>7. CASE MarkFailed(w)
    BY <2>1, <2>5, <2>7 DEF MarkFailed, Settled
  <2>8. CASE Retry(w)
    <3>1. CASE settle(row[w], "failed")
      BY <2>1, <2>5, <2>8, <3>1 DEF Retry, Settled
    <3>2. CASE reschedule(row[w], snap[w][row[w]] + 1) /\ snap[w][row[w]] + 1 < Len(Backoff)
      <4>1. row[w] \in Rows
        BY <2>8 DEF Retry
      <4>2. /\ snap[w][row[w]] \in Attempts
            /\ Backoff[snap[w][row[w]] + 1 + 1] \in Nat
            /\ snap[w][row[w]] + 1 \in Attempts
        BY <3>2, <4>1, BackoffDelay
      <4>3. RowTypeOK'
        BY <3>2, <4>2, RescheduleType
      <4> QED BY <2>1, <2>8, <4>3 DEF Retry
    <3> QED BY <2>8, <3>1, <3>2 DEF Retry
  <2> QED BY <1>3, <2>2, <2>3, <2>4, <2>6, <2>7, <2>8 DEF RowStep, NoVerdict
<1>4. ASSUME NEW w \in Workers, Crash(w) PROVE TypeOK'
  BY <1>4 DEF Crash, Leave, Fault
<1>5. CASE Tick
  BY <1>5 DEF Tick, Minus1, InPass, LockTime
<1>6. CASE UNCHANGED queueVars
  BY <1>6 DEF queueVars
<1> QED BY <1>1, <1>2, <1>3, <1>4, <1>5, <1>6 DEF QueueNext

(* The columns of the queue and the variables of its workers keep their    *)
(* types: claim.go and the loops of relay.go and fanout.go.                *)
THEOREM TypeCorrect == QueueSpec => []TypeOK
BY TypeInit, TypeNext, PTL DEF QueueSpec

-----------------------------------------------------------------------------
(* The invariant *)

\* a row that is locked for every clock cannot be claimed
LEMMA LockedNotDue ==
    ASSUME TypeOK, NEW r \in Rows, lockLeft[r] >= MaxSkew, NEW skew \in 0..MaxSkew
    PROVE  r \notin Due(skew)
BY QueueConstants DEF TypeOK, RowTypeOK, Due, unclaimed, LockTime

\* while the claim is fresh, no row of the pass can be claimed by another worker
LEMMA FreshNotDue ==
    ASSUME Timely, QueueInv, NEW w \in Workers, NEW r \in Mine(w), NEW skew \in 0..MaxSkew,
           \/ pc[w] = "claimed"
           \/ pc[w] \in {"loop", "work"} /\ Fresh(w)
           \/ pc[w] = "work" /\ r = row[w]
    PROVE  r \in Rows /\ r \notin Due(skew)
<1>1. r \in Rows
  BY DEF QueueInv, TypeOK, PassTypeOK, Mine
<1>2. lockLeft[r] >= MaxSkew
  BY <1>1, QueueConstants
     DEF Timely, QueueInv, FreshClaimHeld, WorkedRowLocked, TypeOK, RowTypeOK, PassTypeOK, LockTime, Fresh
<1> QED BY <1>1, <1>2, LockedNotDue DEF QueueInv

\* a re-lock never shortens a lock
LEMMA HoldsKeepsLocks ==
    ASSUME RowTypeOK, NEW w, NEW r, Holds(w, r), NEW q \in Rows
    PROVE  lockLeft[q] \in Int /\ lockLeft'[q] \in Int /\ lockLeft'[q] >= lockLeft[q]
<1>1. lockLeft[q] \in Int /\ lockLeft[q] <= ClaimTTL
  BY QueueConstants DEF RowTypeOK, LockTime
<1>2. lockLeft'[q] = lockLeft[q] \/ lockLeft'[q] = ClaimTTL
  BY DEF RowTypeOK, Holds
<1> QED BY <1>1, <1>2, QueueConstants

\* FreshClaimHeld survives a step that shortens no lock and leaves the claims alone
LEMMA FreshClaimKept ==
    ASSUME FreshClaimHeld, NEW w \in Workers,
           UNCHANGED <<claimToken, token, renewIn>>,
           pc[w] \in {"loop", "work"}, pc'[w] \in {"loop", "work"},
           \A v \in Workers \ {w} : pc'[v] = pc[v] /\ age'[v] = age[v],
           \A v \in Workers : Mine(v)' = Mine(v) /\ Mine(v) \subseteq Rows,
           \A v \in Workers : renewIn[v] \in Int /\ age[v] \in Int,
           \A q \in Rows : lockLeft[q] \in Int /\ lockLeft'[q] \in Int /\ lockLeft'[q] >= lockLeft[q]
    PROVE  FreshClaimHeld'
<1> SUFFICES ASSUME NEW v \in Workers, NEW q \in Mine(v)
             PROVE  /\ pc'[v] = "claimed" =>
                         claimToken[q] = token[v] /\ lockLeft'[q] >= ClaimTTL - age'[v]
                    /\ (pc'[v] \in {"loop", "work"} /\ Fresh(v)) =>
                         /\ claimToken[q] = token[v]
                         /\ lockLeft'[q] >= renewIn[v] + (ClaimTTL - RenewAfter - MaxGap)
  BY DEF FreshClaimHeld, Fresh
<1>1. q \in Rows
  OBVIOUS
<1>2. /\ lockLeft[q] \in Int /\ lockLeft'[q] \in Int /\ lockLeft'[q] >= lockLeft[q]
      /\ renewIn[v] \in Int /\ age[v] \in Int
  BY <1>1
<1>3. ASSUME pc'[v] = "claimed"
      PROVE  claimToken[q] = token[v] /\ lockLeft'[q] >= ClaimTTL - age'[v]
  <2>1. v # w /\ pc[v] = "claimed" /\ age'[v] = age[v]
    BY <1>3
  <2>2. claimToken[q] = token[v] /\ lockLeft[q] >= ClaimTTL - age[v]
    BY <2>1 DEF FreshClaimHeld
  <2> QED BY <1>2, <2>1, <2>2, Numbers
<1>4. ASSUME pc'[v] \in {"loop", "work"}, Fresh(v)
      PROVE  /\ claimToken[q] = token[v]
             /\ lockLeft'[q] >= renewIn[v] + (ClaimTTL - RenewAfter - MaxGap)
  <2>1. pc[v] \in {"loop", "work"}
    BY <1>4
  <2>2. /\ claimToken[q] = token[v]
        /\ lockLeft[q] >= renewIn[v] + (ClaimTTL - RenewAfter - MaxGap)
    BY <1>4, <2>1 DEF FreshClaimHeld
  <2> QED BY <1>2, <2>2, Numbers
<1> QED BY <1>3, <1>4

LEMMA InvInit == QueueInit => QueueInv
BY TypeInit, QueueConstants
   DEF QueueInit, QueueInv, TokensApart, ClaimedIsPending, RowOutOfBatch, SnapshotCurrent,
       FreshClaimHeld, WorkedRowLocked, InPass, Mine

\* one action at a time
LEMMA InvClaim ==
    ASSUME Timely, QueueInv, TypeOK', NEW w \in Workers, Claim(w)
    PROVE  QueueInv'
<1>0. NewToken \in UnusedTokens
  BY NewTokenUnused DEF Claim
<1>1. /\ NewToken \in Tokens
      /\ \A r \in Rows : claimToken[r] # NewToken
      /\ \A v \in Workers : token[v] # NewToken
  BY <1>0 DEF UnusedTokens
<1>2. PICK skew \in 0..MaxSkew, rs \in SUBSET Rows :
        /\ rs \subseteq Due(skew)
        /\ claimToken' = [r \in Rows |-> IF r \in rs THEN NewToken ELSE claimToken[r]]
        /\ lockLeft' = [r \in Rows |-> IF r \in rs THEN ClaimTTL ELSE lockLeft[r]]
        /\ batch' = [batch EXCEPT ![w] = rs]
        /\ snap' = [snap EXCEPT ![w] = [r \in Rows |-> IF r \in rs THEN attempts[r] ELSE 0]]
  BY Zenon DEF Claim
<1>3. /\ pc[w] = "idle" /\ pc' = [pc EXCEPT ![w] = "claimed"]
      /\ token' = [token EXCEPT ![w] = NewToken]
      /\ UNCHANGED <<status, availIn, attempts, row, renewIn, age, faults>>
  BY DEF Claim
<1> USE QueueConstants DEF TypeOK, RowTypeOK, PassTypeOK, InPass, Mine
<1>4. TokensApart'
  BY <1>1, <1>3 DEF QueueInv, TokensApart
<1>5. ClaimedIsPending'
  BY <1>2, <1>3 DEF QueueInv, ClaimedIsPending, Due
<1>6. RowOutOfBatch'
  BY <1>2, <1>3 DEF QueueInv, RowOutOfBatch
<1>7. SnapshotCurrent'
  BY <1>1, <1>2, <1>3 DEF QueueInv, SnapshotCurrent, RowOutOfBatch
<1>8. \A v \in Workers \ {w} : \A r \in Mine(v) :
        (\/ pc[v] = "claimed"
         \/ pc[v] \in {"loop", "work"} /\ Fresh(v)
         \/ pc[v] = "work" /\ r = row[v]) => r \in Rows /\ r \notin rs
  BY <1>2, FreshNotDue
<1>9. FreshClaimHeld'
  BY <1>2, <1>3, <1>8 DEF QueueInv, FreshClaimHeld, RowOutOfBatch, Fresh
<1>10. WorkedRowLocked'
  BY <1>2, <1>3, <1>8 DEF QueueInv, WorkedRowLocked
<1> QED BY <1>4, <1>5, <1>6, <1>7, <1>9, <1>10 DEF QueueInv

\* an action that touches neither the columns nor the pass of any worker but w
LEMMA InvStartPass ==
    ASSUME Timely, QueueInv, TypeOK', NEW w \in Workers, StartPass(w)
    PROVE  QueueInv'
<1> USE QueueConstants DEF TypeOK, RowTypeOK, PassTypeOK, InPass, Mine, StartPass, rowVars
<1>1. TokensApart' /\ ClaimedIsPending' /\ RowOutOfBatch'
  BY DEF QueueInv, TokensApart, ClaimedIsPending, RowOutOfBatch
<1>2. SnapshotCurrent'
  BY DEF QueueInv, SnapshotCurrent
<1>3. FreshClaimHeld'
  BY DEF QueueInv, FreshClaimHeld, Fresh, LockTime
<1>4. WorkedRowLocked'
  BY DEF QueueInv, WorkedRowLocked
<1> QED BY <1>1, <1>2, <1>3, <1>4 DEF QueueInv

LEMMA InvTakeRow ==
    ASSUME Timely, QueueInv, TypeOK', NEW w \in Workers, TakeRow(w)
    PROVE  QueueInv'
<1>1. PICK r \in batch[w] :
        /\ Holds(w, r)
        /\ batch' = [batch EXCEPT ![w] = @ \ {r}]
        /\ row' = [row EXCEPT ![w] = r]
  BY DEF TakeRow
<1>2. /\ pc[w] = "loop" /\ pc' = [pc EXCEPT ![w] = "work"]
      /\ age' = [age EXCEPT ![w] = 0]
      /\ UNCHANGED <<status, availIn, attempts, claimToken, token, snap, renewIn, faults>>
  BY DEF TakeRow
<1> USE QueueConstants DEF TypeOK, RowTypeOK, PassTypeOK, InPass, Mine
<1>0. TypeOK
  BY DEF QueueInv
<1>3. r \in Rows
  BY <1>0
<1>4. claimToken[r] = token[w]
  BY <1>1, <1>2 DEF QueueInv, FreshClaimHeld, Holds, Ours
<1>5. \A q \in Rows : lockLeft'[q] = lockLeft[q] \/ (q = r /\ lockLeft'[q] = ClaimTTL)
  BY <1>1 DEF Holds
<1>6. TokensApart' /\ ClaimedIsPending'
  BY <1>1, <1>2 DEF QueueInv, TokensApart, ClaimedIsPending
<1>7. RowOutOfBatch'
  BY <1>1, <1>2, <1>3 DEF QueueInv, RowOutOfBatch
<1>8. SnapshotCurrent'
  BY <1>1, <1>2, <1>3 DEF QueueInv, SnapshotCurrent, RowOutOfBatch
<1>a. \A q \in Rows : lockLeft'[q] \in Int /\ lockLeft[q] \in Int /\ lockLeft'[q] >= lockLeft[q]
  BY <1>0, <1>1, HoldsKeepsLocks
<1>9. FreshClaimHeld'
  <2>1. \A v \in Workers : Mine(v)' = Mine(v)
    BY <1>0, <1>1, <1>2, <1>3 DEF QueueInv, RowOutOfBatch
  <2>2. \A v \in Workers : Mine(v) \subseteq Rows /\ renewIn[v] \in Int /\ age[v] \in Int
    BY <1>0
  <2>3. /\ pc'[w] = "work"
        /\ \A v \in Workers \ {w} : pc'[v] = pc[v] /\ age'[v] = age[v]
    BY <1>0, <1>2
  <2> HIDE DEF Mine, TypeOK
  <2> QED BY <1>2, <2>1, <2>2, <2>3, <1>a, FreshClaimKept DEF QueueInv
<1>10. WorkedRowLocked'
  <2>1. lockLeft'[r] >= MaxSkew + MaxGap
    <3>1. CASE Fresh(w)
      BY <1>1, <1>2, <1>3, <3>1 DEF QueueInv, FreshClaimHeld, Holds, Fresh, LockTime, Timely
    <3>2. CASE ~Fresh(w)
      BY <1>1, <1>3, <3>2 DEF Holds, LockTime, Timely
    <3> QED BY <3>1, <3>2
  <2> SUFFICES ASSUME NEW v \in Workers, pc'[v] = "work"
               PROVE  /\ claimToken'[row'[v]] = token'[v]
                      /\ lockLeft'[row'[v]] >= MaxSkew + (MaxGap - age'[v])
    BY DEF WorkedRowLocked
  <2>2. CASE v = w
    BY <1>0, <1>1, <1>2, <1>4, <2>1, <2>2
  <2>3. CASE v # w
    BY <1>0, <1>1, <1>2, <1>a, <2>3 DEF QueueInv, WorkedRowLocked
  <2> QED BY <2>2, <2>3
<1> QED BY <1>6, <1>7, <1>8, <1>9, <1>10 DEF QueueInv

LEMMA InvSkipRow ==
    ASSUME Timely, QueueInv, TypeOK', NEW w \in Workers, SkipRow(w)
    PROVE  QueueInv'
<1> USE QueueConstants DEF TypeOK, RowTypeOK, PassTypeOK, InPass, Mine, SkipRow, rowVars
<1>1. TokensApart' /\ ClaimedIsPending'
  BY DEF QueueInv, TokensApart, ClaimedIsPending
<1>2. RowOutOfBatch'
  BY DEF QueueInv, RowOutOfBatch
<1>3. SnapshotCurrent'
  BY DEF QueueInv, SnapshotCurrent
<1>4. FreshClaimHeld'
  BY DEF QueueInv, FreshClaimHeld, Fresh
<1>5. WorkedRowLocked'
  BY DEF QueueInv, WorkedRowLocked
<1> QED BY <1>1, <1>2, <1>3, <1>4, <1>5 DEF QueueInv

\* a pass that ends, whatever the reason, gives up its claims and touches no row
LEMMA InvLeave ==
    ASSUME QueueInv, TypeOK', NEW w \in Workers, Leave(w), UNCHANGED rowVars
    PROVE  QueueInv'
<1> USE QueueConstants DEF TypeOK, RowTypeOK, PassTypeOK, InPass, Mine, Leave, rowVars
<1>1. TokensApart' /\ ClaimedIsPending'
  BY DEF QueueInv, TokensApart, ClaimedIsPending
<1>2. RowOutOfBatch'
  BY DEF QueueInv, RowOutOfBatch
<1>3. SnapshotCurrent'
  BY DEF QueueInv, SnapshotCurrent
<1>4. FreshClaimHeld'
  BY DEF QueueInv, FreshClaimHeld, Fresh
<1>5. WorkedRowLocked'
  BY DEF QueueInv, WorkedRowLocked
<1> QED BY <1>1, <1>2, <1>3, <1>4, <1>5 DEF QueueInv

\* the row is left as it is
LEMMA InvBackToLoop ==
    ASSUME QueueInv, TypeOK', NEW w \in Workers, pc[w] = "work", BackToLoop(w), UNCHANGED rowVars
    PROVE  QueueInv'
<1> USE QueueConstants DEF TypeOK, RowTypeOK, PassTypeOK, InPass, Mine, BackToLoop, rowVars
<1>1. TokensApart' /\ ClaimedIsPending'
  BY DEF QueueInv, TokensApart, ClaimedIsPending
<1>2. RowOutOfBatch'
  BY DEF QueueInv, RowOutOfBatch
<1>3. SnapshotCurrent'
  BY DEF QueueInv, SnapshotCurrent
<1>4. FreshClaimHeld'
  BY DEF QueueInv, FreshClaimHeld, Fresh
<1>5. WorkedRowLocked'
  BY DEF QueueInv, WorkedRowLocked
<1> QED BY <1>1, <1>2, <1>3, <1>4, <1>5 DEF QueueInv

LEMMA InvRecheck ==
    ASSUME Timely, QueueInv, TypeOK', NEW w \in Workers, Recheck(w)
    PROVE  QueueInv'
<1> DEFINE r == row[w]
<1> USE QueueConstants DEF TypeOK, RowTypeOK, PassTypeOK, InPass, Mine, Recheck
<1>0. TypeOK
  BY DEF QueueInv
<1>1. r \in Rows /\ r \in Mine(w) /\ claimToken[r] = token[w]
  BY DEF QueueInv, WorkedRowLocked
<1>2. \A q \in Rows : lockLeft'[q] = lockLeft[q] \/ (q = r /\ lockLeft'[q] = ClaimTTL)
  BY DEF Holds
<1>3. \A q \in Rows : lockLeft'[q] \in Int /\ lockLeft[q] \in Int /\ lockLeft'[q] >= lockLeft[q]
  BY <1>0, HoldsKeepsLocks
<1>4. TokensApart' /\ ClaimedIsPending' /\ RowOutOfBatch'
  BY DEF QueueInv, TokensApart, ClaimedIsPending, RowOutOfBatch
<1>5. SnapshotCurrent'
  BY DEF QueueInv, SnapshotCurrent
<1>6. FreshClaimHeld'
  <2>1. \A v \in Workers : Mine(v)' = Mine(v) /\ Mine(v) \subseteq Rows
                             /\ renewIn[v] \in Int /\ age[v] \in Int
    BY <1>0
  <2>2. \A v \in Workers \ {w} : pc'[v] = pc[v] /\ age'[v] = age[v]
    BY <1>0
  <2> HIDE DEF Mine, TypeOK
  <2> QED BY <1>3, <2>1, <2>2, FreshClaimKept DEF QueueInv
<1>7. lockLeft'[r] >= MaxSkew + MaxGap
  <2>1. CASE Fresh(w)
    BY <1>1, <2>1 DEF QueueInv, FreshClaimHeld, Holds, Fresh, LockTime, Timely
  <2>2. CASE ~Fresh(w)
    BY <1>1, <2>2 DEF Holds, LockTime, Timely
  <2> QED BY <2>1, <2>2
<1>8. WorkedRowLocked'
  <2> SUFFICES ASSUME NEW v \in Workers, pc[v] = "work"
               PROVE  /\ claimToken[row[v]] = token[v]
                      /\ lockLeft'[row[v]] >= MaxSkew + (MaxGap - age'[v])
    BY DEF WorkedRowLocked
  <2>1. CASE v = w
    BY <1>0, <1>1, <1>7, <2>1
  <2>2. CASE v # w
    BY <1>0, <1>3, <2>2 DEF QueueInv, WorkedRowLocked
  <2> QED BY <2>1, <2>2
<1> QED BY <1>4, <1>5, <1>6, <1>8 DEF QueueInv

\* the row is settled or put back: no other worker's claim is on it
LEMMA InvRowWritten ==
    ASSUME QueueInv, TypeOK', NEW w \in Workers, pc[w] = "work",
           BackToLoop(w), dropClaim(row[w]),
           \A q \in Rows \ {row[w]} : status'[q] = status[q] /\ attempts'[q] = attempts[q]
    PROVE  QueueInv'
<1> DEFINE r == row[w]
<1> USE QueueConstants DEF BackToLoop, dropClaim
<1>0. TypeOK
  BY DEF QueueInv
<1>1. r \in Rows /\ claimToken[r] = token[w] /\ token[w] \in Tokens
  BY <1>0 DEF QueueInv, WorkedRowLocked, TokensApart, TypeOK, PassTypeOK, InPass
<1>2. \A q \in Rows : /\ q # r => claimToken'[q] = claimToken[q] /\ lockLeft'[q] = lockLeft[q]
                      /\ q = r => claimToken'[q] = NoToken
  BY <1>0, <1>1 DEF TypeOK, RowTypeOK
<1>3. \A v \in Workers \ {w} : InPass(v) => token[v] # claimToken[r] /\ token[v] # NoToken
  BY <1>0, <1>1 DEF QueueInv, TokensApart
<1>4. TokensApart'
  BY <1>0 DEF QueueInv, TokensApart, InPass, TypeOK, PassTypeOK
<1>5. ClaimedIsPending'
  BY <1>2 DEF QueueInv, ClaimedIsPending
<1>6. RowOutOfBatch'
  BY <1>0 DEF QueueInv, RowOutOfBatch, TypeOK, PassTypeOK
<1>7. /\ \A v \in Workers : Mine(v)' \subseteq Mine(v) /\ Mine(v) \subseteq Rows
      /\ r \notin Mine(w)'
      /\ \A v \in Workers \ {w} : pc'[v] = pc[v] /\ age'[v] = age[v] /\ row'[v] = row[v]
      /\ pc'[w] = "loop"
  BY <1>0 DEF QueueInv, RowOutOfBatch, TypeOK, PassTypeOK, Mine
<1> HIDE DEF r, BackToLoop, dropClaim
<1>8. UNCHANGED <<token, batch, snap, renewIn>>
  BY DEF BackToLoop
<1>9. SnapshotCurrent'
  <2> SUFFICES ASSUME NEW v \in Workers, InPass(v)', NEW q \in Mine(v)', claimToken'[q] = token[v]
               PROVE  attempts'[q] = snap[v][q]
    BY <1>8 DEF SnapshotCurrent
  <2>1. q \in Rows /\ q \in Mine(v) /\ InPass(v)
    BY <1>7 DEF InPass
  <2>2. q # r
    BY <1>1, <1>2, <1>3, <1>7, <2>1
  <2> QED BY <1>2, <2>1, <2>2 DEF r, QueueInv, SnapshotCurrent
<1>10. FreshClaimHeld'
  <2> SUFFICES ASSUME NEW v \in Workers, NEW q \in Mine(v)',
                      pc'[v] = "claimed" \/ (pc'[v] \in {"loop", "work"} /\ Fresh(v))
               PROVE  /\ claimToken'[q] = token[v]
                      /\ pc'[v] = "claimed" => lockLeft'[q] >= ClaimTTL - age'[v]
                      /\ (pc'[v] \in {"loop", "work"} /\ Fresh(v)) =>
                           lockLeft'[q] >= renewIn[v] + (ClaimTTL - RenewAfter - MaxGap)
    BY <1>8 DEF FreshClaimHeld, Fresh
  <2>1. q \in Rows /\ q \in Mine(v) /\ InPass(v)
    BY <1>7 DEF InPass
  <2>2. claimToken[q] = token[v]
    BY <1>7, <2>1 DEF QueueInv, FreshClaimHeld
  <2>3. q # r
    BY <1>3, <1>7, <2>1, <2>2
  <2>4. CASE v = w
    BY <1>2, <1>7, <2>1, <2>2, <2>3, <2>4 DEF QueueInv, FreshClaimHeld
  <2>5. CASE v # w
    BY <1>2, <1>7, <2>1, <2>2, <2>3, <2>5 DEF QueueInv, FreshClaimHeld
  <2> QED BY <2>4, <2>5
<1>11. WorkedRowLocked'
  <2> SUFFICES ASSUME NEW v \in Workers, pc'[v] = "work"
               PROVE  /\ claimToken'[row'[v]] = token[v]
                      /\ lockLeft'[row'[v]] >= MaxSkew + (MaxGap - age'[v])
    BY <1>8 DEF WorkedRowLocked
  <2>1. v # w /\ pc[v] = "work" /\ row'[v] = row[v] /\ row[v] \in Rows
    BY <1>0, <1>7 DEF TypeOK, PassTypeOK
  <2>2. row[v] # r
    BY <1>3, <2>1 DEF QueueInv, WorkedRowLocked, InPass
  <2> QED BY <1>2, <1>7, <2>1, <2>2 DEF QueueInv, WorkedRowLocked
<1> QED BY <1>4, <1>5, <1>6, <1>9, <1>10, <1>11 DEF QueueInv

LEMMA InvTick ==
    ASSUME Timely, QueueInv, TypeOK', Tick
    PROVE  QueueInv'
<1>0. TypeOK
  BY DEF QueueInv
<1>1. UNCHANGED <<status, attempts, claimToken, pc, token, batch, snap, row>>
  BY DEF Tick
<1>2. TokensApart' /\ ClaimedIsPending' /\ RowOutOfBatch' /\ SnapshotCurrent'
  BY <1>1 DEF QueueInv, TokensApart, ClaimedIsPending, RowOutOfBatch, SnapshotCurrent, InPass, Mine
<1>3. \A q \in Rows : /\ lockLeft[q] \in Int /\ lockLeft'[q] \in Int
                      /\ lockLeft[q] >= 0 => lockLeft'[q] = lockLeft[q] - 1
  BY <1>0, Numbers DEF TypeOK, RowTypeOK, LockTime, Tick, Minus1
<1>4. \A v \in Workers : /\ renewIn[v] \in Nat /\ renewIn'[v] \in Nat
                         /\ renewIn'[v] > 0 => renewIn'[v] = renewIn[v] - 1
                         /\ age[v] \in Nat /\ age'[v] \in Nat
                         /\ InPass(v) => age'[v] = age[v] + 1 /\ age[v] < MaxGap
  BY <1>0, Numbers DEF TypeOK, PassTypeOK, Tick, Minus1, InPass
<1>5. \A v \in Workers : Mine(v)' = Mine(v) /\ Mine(v) \subseteq Rows
  BY <1>0, <1>1 DEF TypeOK, PassTypeOK, Mine
<1>6. FreshClaimHeld'
  <2> SUFFICES ASSUME NEW v \in Workers, NEW q \in Mine(v)
               PROVE  /\ pc[v] = "claimed" =>
                           claimToken[q] = token[v] /\ lockLeft'[q] >= ClaimTTL - age'[v]
                      /\ (pc[v] \in {"loop", "work"} /\ renewIn'[v] > 0) =>
                           /\ claimToken[q] = token[v]
                           /\ lockLeft'[q] >= renewIn'[v] + (ClaimTTL - RenewAfter - MaxGap)
    BY <1>1, <1>5 DEF FreshClaimHeld, Fresh
  <2>1. q \in Rows
    BY <1>5
  <2>2. CASE pc[v] = "claimed"
    <3>1. claimToken[q] = token[v] /\ lockLeft[q] >= ClaimTTL - age[v]
      BY <2>2 DEF QueueInv, FreshClaimHeld
    <3>2. age[v] \in Nat /\ age'[v] = age[v] + 1 /\ age[v] < MaxGap
      BY <1>4, <2>2 DEF InPass
    <3>3. lockLeft[q] \in Int /\ (lockLeft[q] >= 0 => lockLeft'[q] = lockLeft[q] - 1)
      BY <1>3, <2>1
    <3>4. lockLeft'[q] >= ClaimTTL - age'[v]
      BY <3>1, <3>2, <3>3, Numbers DEF Timely
    <3> QED BY <2>2, <3>1, <3>4
  <2>3. CASE pc[v] \in {"loop", "work"} /\ renewIn'[v] > 0
    <3>1. renewIn[v] \in Nat /\ renewIn'[v] \in Nat /\ renewIn'[v] = renewIn[v] - 1
      BY <1>4, <2>3
    <3>2. Fresh(v)
      BY <2>3, <3>1 DEF Fresh
    <3>3. /\ claimToken[q] = token[v]
          /\ lockLeft[q] >= renewIn[v] + (ClaimTTL - RenewAfter - MaxGap)
      BY <2>3, <3>2 DEF QueueInv, FreshClaimHeld
    <3>4. lockLeft[q] \in Int /\ (lockLeft[q] >= 0 => lockLeft'[q] = lockLeft[q] - 1)
      BY <1>3, <2>1
    <3>5. lockLeft'[q] >= renewIn'[v] + (ClaimTTL - RenewAfter - MaxGap)
      BY <2>3, <3>1, <3>3, <3>4, Numbers DEF Timely
    <3> QED BY <2>3, <3>3, <3>5
  <2> QED BY <2>2, <2>3
<1>7. WorkedRowLocked'
  <2> SUFFICES ASSUME NEW v \in Workers, pc[v] = "work"
               PROVE  /\ claimToken[row[v]] = token[v]
                      /\ lockLeft'[row[v]] >= MaxSkew + (MaxGap - age'[v])
    BY <1>1 DEF WorkedRowLocked
  <2>1. row[v] \in Rows
    BY <1>0 DEF TypeOK, PassTypeOK
  <2>2. claimToken[row[v]] = token[v] /\ lockLeft[row[v]] >= MaxSkew + (MaxGap - age[v])
    BY DEF QueueInv, WorkedRowLocked
  <2>3. age[v] \in Nat /\ age'[v] = age[v] + 1 /\ age[v] < MaxGap
    BY <1>4 DEF InPass
  <2>4. /\ lockLeft[row[v]] \in Int
        /\ lockLeft[row[v]] >= 0 => lockLeft'[row[v]] = lockLeft[row[v]] - 1
    BY <1>3, <2>1
  <2> QED BY <2>2, <2>3, <2>4, Numbers
<1> QED BY <1>2, <1>6, <1>7 DEF QueueInv

LEMMA InvEnqueue ==
    ASSUME QueueInv, TypeOK', NEW r \in Rows, Enqueue(r)
    PROVE  QueueInv'
<1> USE DEF Enqueue, passVars, TypeOK, RowTypeOK, PassTypeOK
<1>1. TokensApart' /\ RowOutOfBatch' /\ SnapshotCurrent'
  BY DEF QueueInv, TokensApart, RowOutOfBatch, SnapshotCurrent, InPass, Mine
<1>2. ClaimedIsPending'
  BY DEF QueueInv, ClaimedIsPending
<1>3. FreshClaimHeld' /\ WorkedRowLocked'
  BY DEF QueueInv, FreshClaimHeld, WorkedRowLocked, Fresh, Mine
<1> QED BY <1>1, <1>2, <1>3 DEF QueueInv

LEMMA InvNext ==
    ASSUME Timely, QueueInv, [QueueNext]_queueVars
    PROVE  QueueInv'
<1>0. TypeOK'
  BY TypeNext DEF QueueInv
<1>1. ASSUME NEW r \in Rows, Enqueue(r) PROVE QueueInv'
  BY <1>0, <1>1, InvEnqueue
<1>2. ASSUME NEW w \in Workers, PassStep(w) PROVE QueueInv'
  <2>1. CASE EndPass(w) \/ AbortPass(w)
    BY <1>0, <2>1, InvLeave DEF EndPass, AbortPass
  <2> QED BY <1>0, <1>2, <2>1, InvClaim, InvStartPass, InvTakeRow, InvSkipRow DEF PassStep
<1>3. ASSUME NEW w \in Workers, RowStep(w) PROVE QueueInv'
  <2>1. CASE LoseRow(w) \/ LeaveRow(w)
    BY <1>0, <2>1, InvBackToLoop DEF LoseRow, LeaveRow, PutDown
  <2>2. ASSUME MarkDelivered(w) \/ MarkFailed(w) \/ Retry(w)
        PROVE  /\ pc[w] = "work" /\ BackToLoop(w) /\ dropClaim(row[w])
               /\ \A q \in Rows \ {row[w]} : status'[q] = status[q] /\ attempts'[q] = attempts[q]
    BY <2>2 DEF MarkDelivered, MarkFailed, Retry, settle, reschedule, QueueInv, TypeOK, RowTypeOK
  <2> QED BY <1>0, <1>3, <2>1, <2>2, InvRecheck, InvRowWritten DEF RowStep, NoVerdict
<1>4. ASSUME NEW w \in Workers, Crash(w) PROVE QueueInv'
  BY <1>0, <1>4, InvLeave DEF Crash
<1>5. CASE Tick
  BY <1>0, <1>5, InvTick
<1>6. CASE UNCHANGED queueVars
  BY <1>6 DEF queueVars, QueueInv, TypeOK, RowTypeOK, PassTypeOK, TokensApart, ClaimedIsPending,
              RowOutOfBatch, SnapshotCurrent, FreshClaimHeld, WorkedRowLocked, InPass, Mine, Fresh
<1> QED BY <1>1, <1>2, <1>3, <1>4, <1>5, <1>6 DEF QueueNext

(* Timely workers keep the inductive invariant of the claim protocol, for  *)
(* every number of rows and workers: claim.go with the loops of relay.go   *)
(* and fanout.go.                                                          *)
THEOREM ClaimsHeld == Timely => (QueueSpec => []QueueInv)
<1> HAVE Timely
<1>1. QueueInv /\ [QueueNext]_queueVars => QueueInv'
  BY InvNext
<1> QED BY InvInit, <1>1, PTL DEF QueueSpec

LEMMA InvHolderOwnsRow == QueueInv => HolderOwnsRow
<1> SUFFICES ASSUME QueueInv, NEW w \in Workers, pc[w] = "work"
             PROVE  /\ status[row[w]] = "pending"
                    /\ claimToken[row[w]] = token[w]
                    /\ lockLeft[row[w]] >= MaxSkew
  BY DEF HolderOwnsRow
<1>1. row[w] \in Rows /\ age[w] \in 0..MaxGap /\ lockLeft[row[w]] \in LockTime
  BY DEF QueueInv, TypeOK, PassTypeOK, RowTypeOK
<1>2. claimToken[row[w]] = token[w] /\ lockLeft[row[w]] >= MaxSkew + (MaxGap - age[w])
  BY DEF QueueInv, WorkedRowLocked
<1>3. status[row[w]] = "pending"
  BY <1>1, <1>2, QueueConstants DEF QueueInv, TokensApart, InPass, ClaimedIsPending
<1>4. lockLeft[row[w]] >= MaxSkew
  BY <1>1, <1>2, Numbers DEF LockTime
<1> QED BY <1>2, <1>3, <1>4

(* A worker that is about to settle or reschedule a row still holds it, so *)
(* that the writes of claim.go need no token in their WHERE clause.        *)
THEOREM HolderOwnsRowHolds == Timely => (QueueSpec => []HolderOwnsRow)
BY ClaimsHeld, InvHolderOwnsRow, PTL

LEMMA InvOneWorker == QueueInv => OneWorkerPerRow
BY DEF QueueInv, OneWorkerPerRow, WorkedRowLocked, TokensApart, InPass

(* No row is worked on by two workers at once (claim.go: "no row is        *)
(* delivered twice").                                                      *)
THEOREM OneWorkerPerRowHolds == Timely => (QueueSpec => []OneWorkerPerRow)
BY ClaimsHeld, InvOneWorker, PTL

\* whoever writes a row holds it: it is pending and the snapshot is current
LEMMA WriterHolds ==
    ASSUME QueueInv, NEW w \in Workers, pc[w] = "work"
    PROVE  /\ row[w] \in Rows /\ status[row[w]] = "pending"
           /\ attempts[row[w]] = snap[w][row[w]]
<1>1. row[w] \in Rows /\ claimToken[row[w]] = token[w]
  BY DEF QueueInv, TypeOK, PassTypeOK, WorkedRowLocked
<1>2. status[row[w]] = "pending"
  BY <1>1, QueueConstants DEF QueueInv, TokensApart, InPass, ClaimedIsPending
<1>3. row[w] \in Mine(w)
  BY <1>1, QueueConstants DEF Mine
<1> QED BY <1>1, <1>2, <1>3 DEF QueueInv, SnapshotCurrent, InPass

LEMMA StepEffect ==
    ASSUME QueueInv, [QueueNext]_queueVars, NEW r \in Rows
    PROVE  /\ attempts'[r] \in {attempts[r], attempts[r] + 1}
           /\ status[r] \in Settled =>
                 /\ status'[r] = status[r] /\ attempts'[r] = attempts[r]
                 /\ claimToken'[r] = NoToken
<1>0. /\ RowTypeOK
      /\ status[r] \in Settled => claimToken[r] = NoToken
  BY DEF QueueInv, TypeOK, ClaimedIsPending, Settled
<1> DEFINE Quiet == /\ attempts'[r] = attempts[r]
                    /\ status[r] \in Settled =>
                          status'[r] = status[r] /\ claimToken'[r] = claimToken[r]
<1>1. ASSUME NEW q \in Rows, Enqueue(q) PROVE Quiet
  BY <1>0, <1>1 DEF Enqueue, RowTypeOK, Settled
<1>2. ASSUME NEW w \in Workers, Claim(w) PROVE Quiet
  BY <1>2 DEF Claim, Due, Settled
<1>3. ASSUME NEW w \in Workers,
             \/ StartPass(w) \/ TakeRow(w) \/ SkipRow(w) \/ EndPass(w) \/ AbortPass(w)
             \/ Crash(w) \/ Recheck(w) \/ LoseRow(w) \/ LeaveRow(w)
      PROVE  Quiet
  BY <1>3 DEF StartPass, TakeRow, SkipRow, EndPass, AbortPass, Crash, Recheck, LoseRow, LeaveRow, PutDown, rowVars
<1>4. ASSUME Tick \/ UNCHANGED queueVars PROVE Quiet
  BY <1>4 DEF Tick, queueVars
<1>5. ASSUME NEW w \in Workers, MarkDelivered(w) \/ MarkFailed(w) \/ Retry(w)
      PROVE  /\ attempts'[r] \in {attempts[r], attempts[r] + 1}
             /\ status[r] \in Settled =>
                   /\ status'[r] = status[r] /\ attempts'[r] = attempts[r]
                   /\ claimToken'[r] = claimToken[r]
  <2>1. /\ pc[w] = "work"
        /\ \/ \E s \in Settled : settle(row[w], s)
           \/ reschedule(row[w], snap[w][row[w]] + 1)
    BY <1>5 DEF MarkDelivered, MarkFailed, Retry, Settled
  <2>2. row[w] \in Rows /\ status[row[w]] = "pending" /\ attempts[row[w]] = snap[w][row[w]]
    BY <2>1, WriterHolds
  <2>3. CASE r = row[w]
    BY <1>0, <2>1, <2>2, <2>3 DEF settle, reschedule, dropClaim, RowTypeOK, Settled
  <2>4. CASE r # row[w]
    BY <1>0, <2>1, <2>2, <2>4 DEF settle, reschedule, dropClaim, RowTypeOK
  <2> QED BY <2>3, <2>4
<1> QED BY <1>0, <1>1, <1>2, <1>3, <1>4, <1>5 DEF QueueNext, PassStep, RowStep, NoVerdict

(* Once delivered or failed, a row is never written again.                 *)
THEOREM SettledIsFinalHolds == Timely => (QueueSpec => SettledIsFinal)
<1>1. ASSUME QueueInv, [QueueNext]_queueVars
      PROVE  [\A r \in Rows : status[r] \in Settled =>
                 /\ status'[r] = status[r]
                 /\ attempts'[r] = attempts[r]
                 /\ claimToken'[r] = NoToken]_queueVars
  BY <1>1, StepEffect
<1> QED BY ClaimsHeld, <1>1, PTL DEF QueueSpec, SettledIsFinal

(* The attempts column counts up by one: no stale count is written back.   *)
THEOREM AttemptsCountUpHolds == Timely => (QueueSpec => AttemptsCountUp)
<1>1. ASSUME QueueInv, [QueueNext]_queueVars
      PROVE  [\A r \in Rows : attempts'[r] \in {attempts[r], attempts[r] + 1}]_queueVars
  BY <1>1, StepEffect
<1> QED BY ClaimsHeld, <1>1, PTL DEF QueueSpec, AttemptsCountUp

-----------------------------------------------------------------------------
(* The abstract queue.                                                     *)

\* workerOf, of any two of the functions it is made from
WorkerIn(p, q) == [r \in Rows |->
    IF \E w \in Workers : p[w] = "work" /\ q[w] = r
      THEN CHOOSE w \in Workers : p[w] = "work" /\ q[w] = r
      ELSE NoRow]

\* no two workers are on one row
ApartOn(p, q) == \A v, w \in Workers : v # w /\ p[v] = "work" /\ p[w] = "work" => q[v] # q[w]

\* where nobody shares a row, the worker of a row is the one that is on it
LEMMA SoleWorker ==
    ASSUME NEW p, NEW q, ApartOn(p, q), NEW r \in Rows
    PROVE  /\ \A w \in Workers : p[w] = "work" /\ q[w] = r => WorkerIn(p, q)[r] = w
           /\ WorkerIn(p, q)[r] = NoRow \/
                 \E w \in Workers : p[w] = "work" /\ q[w] = r /\ WorkerIn(p, q)[r] = w
<1>1. ASSUME NEW w \in Workers, p[w] = "work", q[w] = r
      PROVE  WorkerIn(p, q)[r] = w
  <2> DEFINE On(v) == p[v] = "work" /\ q[v] = r
  <2>1. \E v \in Workers : On(v)
    BY <1>1
  <2>2. PICK c : c = CHOOSE v \in Workers : On(v)
    OBVIOUS
  <2>3. c \in Workers /\ On(c)
    BY <2>1, <2>2, Zenon
  <2>4. c = w
    BY <1>1, <2>3 DEF ApartOn
  <2>5. WorkerIn(p, q)[r] = c
    BY <2>1, <2>2, Zenon DEF WorkerIn
  <2> QED BY <2>4, <2>5
<1>2. ASSUME ~\E w \in Workers : p[w] = "work" /\ q[w] = r
      PROVE  WorkerIn(p, q)[r] = NoRow
  BY <1>2, Zenon DEF WorkerIn
<1> QED BY <1>1, <1>2

LEMMA SameWorker ==
    ASSUME NEW p, NEW q, ApartOn(p, q), NEW p2, NEW q2, ApartOn(p2, q2), NEW r \in Rows,
           \A v \in Workers : p2[v] = "work" /\ q2[v] = r <=> p[v] = "work" /\ q[v] = r
    PROVE  WorkerIn(p2, q2)[r] = WorkerIn(p, q)[r]
<1>1. CASE \E v \in Workers : p[v] = "work" /\ q[v] = r
  <2>1. PICK v \in Workers : p[v] = "work" /\ q[v] = r
    BY <1>1
  <2>2. WorkerIn(p, q)[r] = v
    BY <2>1, SoleWorker
  <2>3. WorkerIn(p2, q2)[r] = v
    BY <2>1, SoleWorker
  <2> QED BY <2>2, <2>3
<1>2. CASE ~\E v \in Workers : p[v] = "work" /\ q[v] = r
  <2>1. WorkerIn(p, q)[r] = NoRow
    BY <1>2, SoleWorker
  <2>2. WorkerIn(p2, q2)[r] = NoRow
    BY <1>2, SoleWorker
  <2> QED BY <2>1, <2>2
<1> QED BY <1>1, <1>2

LEMMA WorkerOfNow ==
    ASSUME QueueInv
    PROVE  ApartOn(pc, row) /\ workerOf = WorkerIn(pc, row)
BY InvOneWorker DEF OneWorkerPerRow, ApartOn, workerOf, WorkerIn

LEMMA WorkerOfNext ==
    ASSUME QueueInv'
    PROVE  ApartOn(pc', row') /\ workerOf' = WorkerIn(pc', row')
<1>1. OneWorkerPerRow'
  BY DEF QueueInv, OneWorkerPerRow, WorkedRowLocked, TokensApart, InPass
<1>2. ApartOn(pc', row')
  BY <1>1 DEF OneWorkerPerRow, ApartOn
<1> QED BY <1>2 DEF workerOf, WorkerIn

\* a step on which nobody takes a row or puts one down
LEMMA SameWorkers ==
    ASSUME QueueInv, QueueInv',
           \A w \in Workers : /\ pc'[w] = "work" <=> pc[w] = "work"
                              /\ pc[w] = "work" => row'[w] = row[w]
    PROVE  workerOf' = workerOf
<1>1. \A r \in Rows : WorkerIn(pc', row')[r] = WorkerIn(pc, row)[r]
  <2> TAKE r \in Rows
  <2> QED BY WorkerOfNow, WorkerOfNext, SoleWorker
<1>2. workerOf' = [r \in Rows |-> WorkerIn(pc', row')[r]] /\ workerOf = [r \in Rows |-> WorkerIn(pc, row)[r]]
  BY WorkerOfNow, WorkerOfNext DEF WorkerIn
<1> QED BY <1>1, <1>2

\* a worker that puts its row down, whatever it did to it
LEMMA WorkerGone ==
    ASSUME QueueInv, QueueInv', NEW w \in Workers, pc[w] = "work", NEW x, x # "work",
           pc' = [pc EXCEPT ![w] = x], row' = [row EXCEPT ![w] = NoRow]
    PROVE  /\ row[w] \in Rows /\ workerOf[row[w]] # NoRow
           /\ workerOf' = [workerOf EXCEPT ![row[w]] = NoRow]
<1>0. row[w] \in Rows /\ pc \in [Workers -> {"idle", "claimed", "loop", "work"}]
      /\ row \in [Workers -> Rows \cup {NoRow}]
  BY DEF QueueInv, TypeOK, PassTypeOK
<1>1. ApartOn(pc, row) /\ ApartOn(pc', row') /\ workerOf = WorkerIn(pc, row) /\ workerOf' = WorkerIn(pc', row')
  BY WorkerOfNow, WorkerOfNext
<1>p. PICK p, q : p = pc' /\ q = row'
  OBVIOUS
<1>a. ApartOn(p, q) /\ workerOf' = WorkerIn(p, q)
  BY <1>1, <1>p
<1>2. WorkerIn(pc, row)[row[w]] = w
  BY <1>0, <1>1, SoleWorker
<1>3. ASSUME NEW r \in Rows
      PROVE  WorkerIn(p, q)[r] = IF r = row[w] THEN NoRow ELSE WorkerIn(pc, row)[r]
  <2>1. \A v \in Workers : p[v] = "work" /\ q[v] = r <=> v # w /\ pc[v] = "work" /\ row[v] = r
    BY <1>0, <1>p
  <2>2. CASE r = row[w]
    <3>1. ~\E v \in Workers : p[v] = "work" /\ q[v] = r
      BY <1>1, <1>a, <2>1, <2>2 DEF ApartOn
    <3>2. WorkerIn(p, q)[r] = NoRow
      BY <1>1, <1>a, <3>1, SoleWorker
    <3> QED BY <2>2, <3>2
  <2>3. CASE r # row[w]
    <3>1. \A v \in Workers : p[v] = "work" /\ q[v] = r <=> pc[v] = "work" /\ row[v] = r
      BY <2>1, <2>3
    <3>2. WorkerIn(p, q)[r] = WorkerIn(pc, row)[r]
      BY <1>1, <1>a, <3>1, SameWorker
    <3> QED BY <2>3, <3>2
  <2> QED BY <2>2, <2>3
<1>4. workerOf' = [r \in Rows |-> WorkerIn(p, q)[r]] /\ workerOf = [r \in Rows |-> WorkerIn(pc, row)[r]]
  BY <1>1, <1>a DEF WorkerIn
<1>5. w # NoRow
  BY QueueConstants
<1> QED BY <1>0, <1>1, <1>2, <1>3, <1>4, <1>5

\* a worker that takes a row
LEMMA WorkerCome ==
    ASSUME QueueInv, QueueInv', NEW w \in Workers, pc[w] # "work", NEW r \in Rows,
           pc' = [pc EXCEPT ![w] = "work"], row' = [row EXCEPT ![w] = r]
    PROVE  /\ workerOf[r] = NoRow /\ \A q \in Rows : workerOf[q] # w
           /\ workerOf' = [workerOf EXCEPT ![r] = w]
<1>0. pc \in [Workers -> {"idle", "claimed", "loop", "work"}] /\ row \in [Workers -> Rows \cup {NoRow}]
  BY DEF QueueInv, TypeOK, PassTypeOK
<1>1. ApartOn(pc, row) /\ ApartOn(pc', row') /\ workerOf = WorkerIn(pc, row) /\ workerOf' = WorkerIn(pc', row')
  BY WorkerOfNow, WorkerOfNext
<1>p. PICK p, s : p = pc' /\ s = row'
  OBVIOUS
<1>a. ApartOn(p, s) /\ workerOf' = WorkerIn(p, s)
  BY <1>1, <1>p
<1>2. \A v \in Workers : ~(pc[v] = "work" /\ row[v] = r)
  BY <1>0, <1>1 DEF ApartOn
<1>3. WorkerIn(pc, row)[r] = NoRow
  BY <1>1, <1>2, SoleWorker
<1>4. ASSUME NEW q \in Rows PROVE WorkerIn(pc, row)[q] # w
  BY <1>1, SoleWorker, QueueConstants
<1>5. ASSUME NEW q \in Rows
      PROVE  WorkerIn(p, s)[q] = IF q = r THEN w ELSE WorkerIn(pc, row)[q]
  <2>1. \A v \in Workers : p[v] = "work" /\ s[v] = q <=> (v = w /\ q = r) \/ (pc[v] = "work" /\ row[v] = q)
    BY <1>0, <1>p, <1>2
  <2>2. CASE q = r
    <3>1. p[w] = "work" /\ s[w] = q
      BY <2>1, <2>2
    <3>2. WorkerIn(p, s)[q] = w
      BY <1>1, <1>a, <3>1, SoleWorker
    <3> QED BY <2>2, <3>2
  <2>3. CASE q # r
    <3>1. \A v \in Workers : p[v] = "work" /\ s[v] = q <=> pc[v] = "work" /\ row[v] = q
      BY <2>1, <2>3
    <3>2. WorkerIn(p, s)[q] = WorkerIn(pc, row)[q]
      BY <1>1, <1>a, <3>1, SameWorker
    <3> QED BY <2>3, <3>2
  <2> QED BY <2>2, <2>3
<1>6. workerOf' = [q \in Rows |-> WorkerIn(p, s)[q]] /\ workerOf = [q \in Rows |-> WorkerIn(pc, row)[q]]
  BY <1>1, <1>a DEF WorkerIn
<1> QED BY <1>1, <1>3, <1>4, <1>5, <1>6

LEMMA AbstractInit == QueueInit => WQ!Init
<1> SUFFICES ASSUME QueueInit PROVE WQ!Init
  OBVIOUS
<1>1. \A w \in Workers : pc[w] # "work"
  BY DEF QueueInit
<1>2. workerOf = [r \in Rows |-> NoRow]
  BY <1>1, Zenon DEF workerOf
<1> QED BY <1>2 DEF QueueInit, WQ!Init

\* a step that touches neither the fates of the rows nor who is on them
LEMMA AbstractStutter ==
    ASSUME QueueInv, QueueInv', UNCHANGED <<status, attempts>>,
           \A w \in Workers : /\ pc'[w] = "work" <=> pc[w] = "work"
                              /\ pc[w] = "work" => row'[w] = row[w]
    PROVE  UNCHANGED WQ!vars
BY SameWorkers DEF WQ!vars

LEMMA AbstractStep ==
    ASSUME QueueInv, QueueInv', [QueueNext]_queueVars
    PROVE  [WQ!Next]_(WQ!vars)
<1>t. /\ pc \in [Workers -> {"idle", "claimed", "loop", "work"}]
      /\ row \in [Workers -> Rows \cup {NoRow}]
      /\ attempts \in [Rows -> Attempts] /\ status \in [Rows -> Status]
  BY DEF QueueInv, TypeOK, PassTypeOK, RowTypeOK
<1>1. ASSUME NEW r \in Rows, Enqueue(r) PROVE WQ!Put(r)
  BY <1>1, SameWorkers DEF Enqueue, passVars, WQ!Put
<1>2. ASSUME NEW w \in Workers,
             \/ Claim(w) \/ StartPass(w) \/ SkipRow(w) \/ EndPass(w) \/ AbortPass(w)
             \/ Recheck(w) \/ (Crash(w) /\ pc[w] # "work")
      PROVE  UNCHANGED WQ!vars
  <2>1. UNCHANGED <<status, attempts>>
    BY <1>2 DEF Claim, StartPass, SkipRow, EndPass, AbortPass, Recheck, Crash, rowVars
  <2>2. \A v \in Workers : /\ pc'[v] = "work" <=> pc[v] = "work"
                           /\ pc[v] = "work" => row'[v] = row[v]
    BY <1>t, <1>2 DEF Claim, StartPass, SkipRow, EndPass, AbortPass, Recheck, Crash, Leave
  <2> QED BY <2>1, <2>2, AbstractStutter
<1>3. ASSUME NEW w \in Workers, TakeRow(w) PROVE \E r \in Rows : WQ!Take(w, r)
  <2>1. PICK r \in batch[w] : row' = [row EXCEPT ![w] = r]
    BY <1>3 DEF TakeRow
  <2>2. r \in Rows
    BY <2>1 DEF QueueInv, TypeOK, PassTypeOK
  <2>3. pc[w] # "work" /\ pc' = [pc EXCEPT ![w] = "work"] /\ UNCHANGED <<status, attempts>>
    BY <1>3 DEF TakeRow
  <2>4. /\ workerOf[r] = NoRow /\ \A q \in Rows : workerOf[q] # w
        /\ workerOf' = [workerOf EXCEPT ![r] = w]
    BY <2>1, <2>2, <2>3, WorkerCome
  <2>5. pc'[w] = "work" /\ row'[w] = r
    BY <1>t, <2>1, <2>3
  <2>6. status'[r] = "pending"
    <3>1. WorkedRowLocked' /\ TokensApart' /\ ClaimedIsPending'
      BY DEF QueueInv
    <3>2. claimToken'[r] = token'[w]
      BY <2>5, <3>1 DEF WorkedRowLocked
    <3>3. token'[w] \in Tokens
      BY <2>5, <3>1 DEF TokensApart, InPass
    <3>4. claimToken'[r] # NoToken
      BY <3>2, <3>3, QueueConstants
    <3> QED BY <2>2, <3>1, <3>4 DEF ClaimedIsPending
  <2>7. WQ!Take(w, r)
    BY <2>3, <2>4, <2>6 DEF WQ!Take, WQ!Busy
  <2> QED BY <2>2, <2>7
<1>4. ASSUME NEW w \in Workers, LoseRow(w) \/ LeaveRow(w) \/ (Crash(w) /\ pc[w] = "work")
      PROVE  \E r \in Rows : WQ!Drop(r)
  <2>1. PICK x : x # "work" /\ pc' = [pc EXCEPT ![w] = x]
    BY <1>4 DEF LoseRow, LeaveRow, PutDown, BackToLoop, Crash, Leave
  <2>2. pc[w] = "work" /\ row' = [row EXCEPT ![w] = NoRow] /\ UNCHANGED <<status, attempts>>
    BY <1>4 DEF LoseRow, LeaveRow, PutDown, BackToLoop, Crash, Leave, rowVars
  <2>3. /\ row[w] \in Rows /\ workerOf[row[w]] # NoRow
        /\ workerOf' = [workerOf EXCEPT ![row[w]] = NoRow]
    BY <2>1, <2>2, WorkerGone
  <2> QED BY <2>2, <2>3 DEF WQ!Drop
<1>5. ASSUME NEW w \in Workers, MarkDelivered(w) \/ MarkFailed(w) \/ Retry(w)
      PROVE  \E r \in Rows : WQ!Finish(r) \/ WQ!Postpone(r)
  <2>1. pc[w] = "work" /\ pc' = [pc EXCEPT ![w] = "loop"] /\ row' = [row EXCEPT ![w] = NoRow]
    BY <1>5 DEF MarkDelivered, MarkFailed, Retry, BackToLoop
  <2>2. /\ row[w] \in Rows /\ workerOf[row[w]] # NoRow
        /\ workerOf' = [workerOf EXCEPT ![row[w]] = NoRow]
    BY <2>1, WorkerGone
  <2>3. attempts[row[w]] = snap[w][row[w]]
    BY <2>1, WriterHolds
  <2>4. CASE \E s \in Settled : settle(row[w], s)
    <3>1. WQ!Finish(row[w])
      BY <2>2, <2>4 DEF settle, Settled, WQ!Finish
    <3> QED BY <2>2, <3>1
  <2>5. CASE snap[w][row[w]] + 1 < Len(Backoff) /\ reschedule(row[w], snap[w][row[w]] + 1)
    <3>1. WQ!Postpone(row[w])
      BY <1>t, <2>2, <2>3, <2>5 DEF reschedule, WQ!Postpone
    <3> QED BY <2>2, <3>1
  <2> QED BY <1>5, <2>4, <2>5 DEF MarkDelivered, MarkFailed, Retry, Settled
<1>6. ASSUME Tick \/ UNCHANGED queueVars PROVE UNCHANGED WQ!vars
  BY <1>6, AbstractStutter DEF Tick, queueVars
<1> QED BY <1>1, <1>2, <1>3, <1>4, <1>5, <1>6 DEF QueueNext, PassStep, RowStep, NoVerdict, WQ!Next

(* The claim protocol implements the abstract queue: a row is worked on by *)
(* one worker at a time, only that worker finishes or postpones it, and    *)
(* its fate is final (claim.go with the loops of relay.go and fanout.go).  *)
THEOREM QueueImplementsWorkQueue == Timely => (QueueSpec => ImplementsWorkQueue)
<1> HAVE Timely
<1>1. QueueInv /\ QueueInv' /\ [QueueNext]_queueVars => [WQ!Next]_(WQ!vars)
  BY AbstractStep
<1>2. QueueSpec => []QueueInv
  BY ClaimsHeld
<1> QED BY AbstractInit, <1>1, <1>2, PTL DEF QueueSpec, ImplementsWorkQueue, WQ!Spec

=============================================================================
