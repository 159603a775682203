---------------------------- MODULE LeaseProofs ----------------------------
(***************************************************************************)
(* Proofs about leased runs, for every number of processes and every TTL,  *)
(* heartbeat and duration of a database call.                              *)
(***************************************************************************)
EXTENDS Lease, TLAPS

LEMMA Numbers ==
    /\ TTL \in Nat /\ Every \in Nat /\ Every > 0 /\ 3 * Every <= TTL
    /\ MaxHang \in Nat /\ MaxHang <= Every /\ MaxLag \in Nat /\ MaxLag < Every
BY LeaseConstants

LEMMA CoverInit == LeaseInit => CoverInv
BY LeaseConstants
   DEF LeaseInit, CoverInv, LeaseTypeOK, LeaseCoversRun, CallWithinTTL, NoCallWhenOff

LEMMA FaultType == ASSUME faults \in 0..MaxFaults, Fault PROVE faults' \in 0..MaxFaults
BY LeaseConstants DEF Fault

\* a lease taken now is a lease of at most TTL
LEMMA OwnType ==
    ASSUME LeaseTypeOK, NEW p \in Procs, Own(p)
    PROVE  holder' = p /\ leaseLeft' = TTL - callAge[p] /\ leaseLeft' \in (-MaxHang - 1)..TTL
BY Numbers DEF LeaseTypeOK, Own

\* the statement that takes the lease finds no other run within its lease
LEMMA MatchExcludes ==
    ASSUME CoverInv, NEW p \in Procs, Matches(p),
           NEW q \in Procs, q # p, run[q] = "running"
    PROVE  left[q] < 0
<1> SUFFICES ASSUME left[q] >= 0 PROVE FALSE
  BY DEF CoverInv, LeaseTypeOK
<1>1. holder = q /\ leaseLeft >= left[q]
  BY DEF CoverInv, LeaseCoversRun
<1>2. leaseLeft < -callAge[p]
  BY <1>1, LeaseConstants DEF Matches, Expired
<1> QED BY <1>1, <1>2, Numbers DEF CoverInv, LeaseTypeOK

\* steps of a process that is not inside fn, or leaves it, and keeps off the row
\* of every other process
LEMMA StepOutside ==
    ASSUME CoverInv, LeaseTypeOK', NEW p \in Procs,
           run'[p] # "running",
           run'[p] \in {"off", "lost"} => stmt'[p] = "none",
           \A q \in Procs \ {p} : /\ run'[q] = run[q] /\ stmt'[q] = stmt[q]
                                  /\ callAge'[q] = callAge[q] /\ left'[q] = left[q],
           \A q \in Procs \ {p} : (run[q] = "running" /\ left[q] >= 0) =>
                                  (holder' = holder /\ leaseLeft' = leaseLeft)
    PROVE  CoverInv'
BY DEF CoverInv, LeaseCoversRun, CallWithinTTL, NoCallWhenOff

\* steps that give p the lease and set its expires accordingly, or less
LEMMA StepOwns ==
    ASSUME CoverInv, LeaseTypeOK', NEW p \in Procs, Matches(p), Own(p), run'[p] = "running",
           CallOver(p),
           (left'[p] = left[p] /\ run[p] = "running") \/ left'[p] = TTL - callAge[p],
           \A q \in Procs \ {p} : run'[q] = run[q] /\ left'[q] = left[q]
    PROVE  CoverInv'
<1>0. LeaseTypeOK
  BY DEF CoverInv
<1>1. holder' = p /\ leaseLeft' = TTL - callAge[p]
  BY <1>0, OwnType
<1>2. /\ stmt'[p] = "none" /\ callAge'[p] = 0
      /\ \A q \in Procs \ {p} : stmt'[q] = stmt[q] /\ callAge'[q] = callAge[q]
  BY <1>0 DEF CallOver, LeaseTypeOK
<1>3. callAge[p] \in 0..MaxHang /\ left[p] \in Int /\ left'[p] \in Int
  BY <1>0 DEF LeaseTypeOK
<1>4. left'[p] <= TTL - callAge[p]
  <2>1. run[p] = "running" => left[p] + callAge[p] <= TTL
    BY DEF CoverInv, CallWithinTTL
  <2> QED BY <1>3, <2>1, Numbers
<1>5. LeaseCoversRun'
  <2> SUFFICES ASSUME NEW q \in Procs, run'[q] = "running", left'[q] >= 0
               PROVE  holder' = q /\ leaseLeft' >= left'[q]
    BY DEF LeaseCoversRun
  <2>1. CASE q = p
    BY <1>1, <1>3, <1>4, <2>1, Numbers
  <2>2. CASE q # p
    <3>1. run[q] = "running" /\ left[q] >= 0
      BY <2>2
    <3>2. left[q] < 0 /\ left[q] \in Int
      BY <1>0, <2>2, <3>1, MatchExcludes DEF LeaseTypeOK
    <3> QED BY <3>1, <3>2
  <2> QED BY <2>1, <2>2
<1>6. CallWithinTTL'
  <2> SUFFICES ASSUME NEW q \in Procs, run'[q] = "running"
               PROVE  left'[q] + callAge'[q] <= TTL
    BY DEF CallWithinTTL
  <2>1. CASE q = p
    BY <1>2, <1>3, <1>4, <2>1, Numbers
  <2>2. CASE q # p
    BY <1>2, <2>2 DEF CoverInv, CallWithinTTL
  <2> QED BY <2>1, <2>2
<1>7. NoCallWhenOff'
  BY <1>2 DEF CoverInv, NoCallWhenOff
<1> QED BY <1>5, <1>6, <1>7 DEF CoverInv

-----------------------------------------------------------------------------
LEMMA TypeNext == LeaseTypeOK /\ [LeaseNext]_leaseVars => LeaseTypeOK'
<1> SUFFICES ASSUME LeaseTypeOK, [LeaseNext]_leaseVars PROVE LeaseTypeOK'
  OBVIOUS
<1> USE Numbers DEF LeaseTypeOK, rowVars, beatVars, Call, CallOver, NoBeat
<1>0. -1 \in (-MaxHang - 1)..TTL
  OBVIOUS
<1>1. ASSUME NEW p \in Procs, AcquireStep(p) PROVE LeaseTypeOK'
  <2>1. CASE StartRun(p)
    BY <2>1 DEF StartRun
  <2>2. CASE InsertConflict(p)
    BY <2>2 DEF InsertConflict
  <2>3. CASE Won(p)
    <3>1. leaseLeft' \in (-MaxHang - 1)..TTL /\ holder' = p
      BY <2>3, OwnType DEF Won
    <3>2. left' \in [Procs -> Int]
      BY <2>3 DEF Won
    <3> QED BY <2>3, <3>1, <3>2 DEF Won
  <2>4. CASE Beaten(p)
    BY <2>4 DEF Beaten
  <2>5. CASE AcquireFails(p)
    <3>1. faults' \in 0..MaxFaults
      BY <2>5, FaultType DEF AcquireFails
    <3>2. leaseLeft' \in (-MaxHang - 1)..TTL /\ holder' \in Procs \cup {Nobody, Orphan}
      BY <2>5 DEF AcquireFails
    <3> QED BY <2>5, <3>1, <3>2 DEF AcquireFails
  <2> QED BY <1>1, <2>1, <2>2, <2>3, <2>4, <2>5 DEF AcquireStep
<1>2. ASSUME NEW p \in Procs, BeatStep(p) PROVE LeaseTypeOK'
  <2>1. CASE Heartbeat(p)
    BY <2>1 DEF Heartbeat
  <2>2. CASE Renewed(p)
    <3>1. leaseLeft' \in (-MaxHang - 1)..TTL /\ holder' = p
      BY <2>2, OwnType DEF Renewed
    <3>2. left' \in [Procs -> Int]
      BY <2>2 DEF Renewed
    <3> QED BY <2>2, <3>1, <3>2 DEF Renewed
  <2>3. CASE TakenOver(p)
    BY <2>3 DEF TakenOver
  <2>4. CASE RenewalFails(p)
    <3>1. faults' \in 0..MaxFaults
      BY <2>4, FaultType DEF RenewalFails
    <3>2. leaseLeft' \in (-MaxHang - 1)..TTL /\ holder' \in Procs \cup {Nobody, Orphan}
      BY <2>4, OwnType DEF RenewalFails
    <3>3. CASE failing' = [failing EXCEPT ![p] = TRUE] /\ UNCHANGED <<run, tickIn, due, left>>
      BY <2>4, <3>1, <3>2, <3>3 DEF RenewalFails
    <3>4. CASE run' = [run EXCEPT ![p] = "lost"] /\ NoBeat(p)
      BY <2>4, <3>1, <3>2, <3>4 DEF RenewalFails
    <3> QED BY <2>4, <3>3, <3>4 DEF RenewalFails
  <2> QED BY <1>2, <2>1, <2>2, <2>3, <2>4 DEF BeatStep
<1>3. ASSUME NEW p \in Procs, EndStep(p) PROVE LeaseTypeOK'
  <2>1. CASE FnReturns(p)
    BY <2>1 DEF FnReturns
  <2>2. CASE RenewalCut(p)
    <3>1. leaseLeft' \in (-MaxHang - 1)..TTL /\ holder' \in Procs \cup {Nobody, Orphan}
      BY <2>2, OwnType DEF RenewalCut
    <3> QED BY <2>2, <3>1 DEF RenewalCut
  <2>3. CASE Release(p)
    <3>1. faults' \in 0..MaxFaults
      BY <2>3, FaultType DEF Release
    <3>2. leaseLeft' \in (-MaxHang - 1)..TTL /\ holder' \in Procs \cup {Nobody, Orphan}
      BY <1>0, <2>3 DEF Release, Drop, Forget
    <3> QED BY <2>3, <3>1, <3>2 DEF Release
  <2> QED BY <1>3, <2>1, <2>2, <2>3 DEF EndStep
<1>4. ASSUME NEW p \in Procs, Crash(p) PROVE LeaseTypeOK'
  <2>1. faults' \in 0..MaxFaults
    BY <1>4, FaultType DEF Crash
  <2> QED BY <1>4, <2>1 DEF Crash, Forget
<1>5. CASE Tick
  <2>1. leaseLeft' \in (-MaxHang - 1)..TTL
    BY <1>5 DEF Tick
  <2>2. callAge' \in [Procs -> 0..MaxHang]
    BY <1>5 DEF Tick
  <2>3. tickIn' \in [Procs -> 1..Every]
    BY <1>5 DEF Tick
  <2>4. left' \in [Procs -> Int]
    BY <1>5 DEF Tick
  <2>5. due' \in [Procs -> BOOLEAN]
    BY <1>5, Zenon DEF Tick
  <2> QED BY <1>5, <2>1, <2>2, <2>3, <2>4, <2>5 DEF Tick
<1>6. CASE UNCHANGED leaseVars
  BY <1>6 DEF leaseVars
<1> QED BY <1>1, <1>2, <1>3, <1>4, <1>5, <1>6 DEF LeaseNext

\* time: a lease shrinks with the expires it covers
LEMMA InvTick == ASSUME CoverInv, LeaseTypeOK', Tick PROVE CoverInv'
<1>0. LeaseTypeOK
  BY DEF CoverInv
<1>1. UNCHANGED <<holder, run, stmt>>
  BY DEF Tick
<1>2. /\ leaseLeft \in Int /\ leaseLeft' \in Int
      /\ leaseLeft >= 0 => leaseLeft' = leaseLeft - 1
  BY <1>0, Numbers DEF LeaseTypeOK, Tick
<1>3. \A p \in Procs : /\ left[p] \in Int /\ callAge[p] \in Nat /\ callAge'[p] \in Nat
                       /\ run[p] = "running" => left'[p] = left[p] - 1
                       /\ callAge'[p] <= callAge[p] + 1
  BY <1>0, Numbers DEF LeaseTypeOK, Tick, Beating
<1>4. LeaseCoversRun'
  <2> SUFFICES ASSUME NEW p \in Procs, run[p] = "running", left'[p] >= 0
               PROVE  holder = p /\ leaseLeft' >= left'[p]
    BY <1>1 DEF LeaseCoversRun
  <2>1. left[p] \in Int /\ left'[p] = left[p] - 1
    BY <1>3
  <2>2. left[p] >= 0
    BY <2>1
  <2>3. holder = p /\ leaseLeft >= left[p]
    BY <2>2 DEF CoverInv, LeaseCoversRun
  <2> QED BY <1>2, <2>1, <2>2, <2>3
<1>5. CallWithinTTL'
  <2> SUFFICES ASSUME NEW p \in Procs, run[p] = "running"
               PROVE  left'[p] + callAge'[p] <= TTL
    BY <1>1 DEF CallWithinTTL
  <2>1. left[p] + callAge[p] <= TTL
    BY DEF CoverInv, CallWithinTTL
  <2>2. /\ left[p] \in Int /\ callAge[p] \in Nat /\ callAge'[p] \in Nat
        /\ left'[p] = left[p] - 1 /\ callAge'[p] <= callAge[p] + 1
    BY <1>3
  <2> QED BY <2>1, <2>2, Numbers
<1>6. NoCallWhenOff'
  BY <1>1 DEF CoverInv, NoCallWhenOff
<1> QED BY <1>4, <1>5, <1>6 DEF CoverInv

\* the steps of RunLeased up to fn
LEMMA InvAcquire ==
    ASSUME CoverInv, LeaseTypeOK', NEW p \in Procs, AcquireStep(p) PROVE CoverInv'
<1>0. LeaseTypeOK
  BY DEF CoverInv
<1> USE DEF rowVars, beatVars, Call, CallOver
<1>1. CASE StartRun(p)
  BY <1>0, <1>1, StepOutside DEF StartRun, LeaseTypeOK
<1>2. CASE InsertConflict(p)
  <2>1. UNCHANGED <<holder, leaseLeft, run, callAge, left>> /\ stmt[p] = "insert"
    BY <1>2 DEF InsertConflict
  <2>2. \A q \in Procs \ {p} : stmt'[q] = stmt[q]
    BY <1>0, <1>2 DEF InsertConflict, LeaseTypeOK
  <2> QED BY <2>1, <2>2 DEF CoverInv, LeaseCoversRun, CallWithinTTL, NoCallWhenOff
<1>3. CASE Won(p)
  <2>1. /\ Matches(p) /\ Own(p) /\ run'[p] = "running" /\ CallOver(p)
        /\ left'[p] = TTL - callAge[p]
        /\ \A q \in Procs \ {p} : run'[q] = run[q] /\ left'[q] = left[q]
    BY <1>0, <1>3 DEF Won, LeaseTypeOK
  <2> QED BY <2>1, StepOwns
<1>4. CASE Beaten(p)
  BY <1>0, <1>4, StepOutside DEF Beaten, LeaseTypeOK
<1>5. CASE AcquireFails(p)
  <2>1. /\ run'[p] = "off" /\ stmt'[p] = "none"
        /\ \A q \in Procs \ {p} : /\ run'[q] = run[q] /\ stmt'[q] = stmt[q]
                                  /\ callAge'[q] = callAge[q] /\ left'[q] = left[q]
    BY <1>0, <1>5 DEF AcquireFails, LeaseTypeOK
  <2>2. ASSUME NEW q \in Procs \ {p}, run[q] = "running", left[q] >= 0
        PROVE  holder' = holder /\ leaseLeft' = leaseLeft
    <3>1. ~Matches(p)
      <4> SUFFICES ASSUME Matches(p) PROVE FALSE
        OBVIOUS
      <4>1. left[q] < 0 /\ left[q] \in Int
        BY <1>0, <2>2, MatchExcludes DEF LeaseTypeOK
      <4> QED BY <2>2, <4>1
    <3> QED BY <1>5, <3>1 DEF AcquireFails
  <2> QED BY <2>1, <2>2, StepOutside
<1> QED BY <1>1, <1>2, <1>3, <1>4, <1>5 DEF AcquireStep

\* the steps of the heartbeat
LEMMA InvBeat ==
    ASSUME CoverInv, LeaseTypeOK', NEW p \in Procs, BeatStep(p) PROVE CoverInv'
<1>0. LeaseTypeOK
  BY DEF CoverInv
<1> USE DEF rowVars, beatVars
<1>1. CASE Heartbeat(p)
  <2>1. /\ UNCHANGED <<holder, leaseLeft, run, left>> /\ run[p] = "running"
        /\ callAge'[p] = 0 /\ callAge[p] \in Nat /\ left[p] \in Int
        /\ \A q \in Procs \ {p} : stmt'[q] = stmt[q] /\ callAge'[q] = callAge[q]
    BY <1>0, <1>1 DEF Heartbeat, Call, LeaseTypeOK
  <2>2. LeaseCoversRun' /\ NoCallWhenOff'
    BY <2>1 DEF CoverInv, LeaseCoversRun, NoCallWhenOff
  <2>3. CallWithinTTL'
    <3> SUFFICES ASSUME NEW q \in Procs, run[q] = "running"
                 PROVE  left[q] + callAge'[q] <= TTL
      BY <2>1 DEF CallWithinTTL
    <3>1. left[q] + callAge[q] <= TTL
      BY DEF CoverInv, CallWithinTTL
    <3>2. CASE q = p
      BY <2>1, <3>1, <3>2, Numbers
    <3>3. CASE q # p
      BY <2>1, <3>1, <3>3
    <3> QED BY <3>2, <3>3
  <2> QED BY <2>2, <2>3 DEF CoverInv
<1>2. CASE Renewed(p)
  <2>1. /\ Matches(p) /\ Own(p) /\ run'[p] = "running" /\ CallOver(p)
        /\ left'[p] = TTL - callAge[p]
        /\ \A q \in Procs \ {p} : run'[q] = run[q] /\ left'[q] = left[q]
    BY <1>0, <1>2 DEF Renewed, LeaseTypeOK
  <2> QED BY <2>1, StepOwns
<1>3. CASE TakenOver(p)
  BY <1>0, <1>3, StepOutside DEF TakenOver, CallOver, NoBeat, LeaseTypeOK
<1>4. CASE RenewalFails(p)
  <2>1. /\ stmt'[p] = "none" /\ callAge'[p] = 0
        /\ \A q \in Procs \ {p} : stmt'[q] = stmt[q] /\ callAge'[q] = callAge[q]
    BY <1>0, <1>4 DEF RenewalFails, CallOver, LeaseTypeOK
  <2>2. CASE UNCHANGED <<run, tickIn, due, left>>
    <3>1. run'[p] = "running" /\ run[p] = "running" /\ left' = left /\ run' = run
      BY <1>4, <2>2 DEF RenewalFails
    <3>2. CASE Matches(p) /\ Own(p)
      BY <1>4, <3>1, <3>2, StepOwns DEF RenewalFails
    <3>3. CASE UNCHANGED rowVars
      <4>1. LeaseCoversRun' /\ NoCallWhenOff'
        BY <2>1, <3>1, <3>3 DEF CoverInv, LeaseCoversRun, NoCallWhenOff
      <4>2. CallWithinTTL'
        <5> SUFFICES ASSUME NEW q \in Procs, run[q] = "running"
                     PROVE  left[q] + callAge'[q] <= TTL
          BY <3>1 DEF CallWithinTTL
        <5>1. left[q] + callAge[q] <= TTL /\ left[q] \in Int /\ callAge[q] \in Nat
          BY <1>0, Numbers DEF CoverInv, CallWithinTTL, LeaseTypeOK
        <5>2. callAge'[q] = 0 \/ callAge'[q] = callAge[q]
          BY <2>1
        <5> QED BY <5>1, <5>2, Numbers
      <4> QED BY <4>1, <4>2 DEF CoverInv
    <3> QED BY <1>4, <3>2, <3>3 DEF RenewalFails
  <2>3. CASE run' = [run EXCEPT ![p] = "lost"] /\ NoBeat(p)
    <3>1. /\ run'[p] = "lost"
          /\ \A q \in Procs \ {p} : run'[q] = run[q] /\ left'[q] = left[q]
      BY <1>0, <2>3 DEF NoBeat, LeaseTypeOK
    <3>2. ASSUME NEW q \in Procs \ {p}, run[q] = "running", left[q] >= 0
          PROVE  holder' = holder /\ leaseLeft' = leaseLeft
      <4>1. ~Matches(p)
        <5> SUFFICES ASSUME Matches(p) PROVE FALSE
          OBVIOUS
        <5>1. left[q] < 0 /\ left[q] \in Int
          BY <1>0, <3>2, MatchExcludes DEF LeaseTypeOK
        <5> QED BY <3>2, <5>1
      <4> QED BY <1>4, <4>1 DEF RenewalFails
    <3> QED BY <2>1, <3>1, <3>2, StepOutside
  <2> QED BY <1>4, <2>2, <2>3 DEF RenewalFails
<1> QED BY <1>1, <1>2, <1>3, <1>4 DEF BeatStep

\* the end of a run
LEMMA InvEnd ==
    ASSUME CoverInv, LeaseTypeOK', NEW p \in Procs, EndStep(p) \/ Crash(p) PROVE CoverInv'
<1>0. LeaseTypeOK
  BY DEF CoverInv
<1> USE DEF rowVars, beatVars
<1>1. \A q \in Procs \ {p} : (run[q] = "running" /\ left[q] >= 0) => holder = q
  BY DEF CoverInv, LeaseCoversRun
<1>2. CASE FnReturns(p)
  BY <1>0, <1>2, StepOutside DEF FnReturns, NoBeat, LeaseTypeOK
<1>3. CASE RenewalCut(p)
  <2>1. /\ run' = run /\ run[p] = "returned" /\ left' = left
        /\ \A q \in Procs \ {p} : stmt'[q] = stmt[q] /\ callAge'[q] = callAge[q]
    BY <1>0, <1>3 DEF RenewalCut, CallOver, LeaseTypeOK
  <2>2. ASSUME NEW q \in Procs \ {p}, run[q] = "running", left[q] >= 0
        PROVE  holder' = holder /\ leaseLeft' = leaseLeft
    <3>1. ~Matches(p)
      <4> SUFFICES ASSUME Matches(p) PROVE FALSE
        OBVIOUS
      <4>1. left[q] < 0 /\ left[q] \in Int
        BY <1>0, <2>2, MatchExcludes DEF LeaseTypeOK
      <4> QED BY <2>2, <4>1
    <3> QED BY <1>3, <3>1 DEF RenewalCut
  <2> QED BY <2>1, <2>2, StepOutside
<1>4. CASE Release(p)
  <2>1. /\ run'[p] = "off" /\ stmt' = stmt /\ stmt[p] = "none" /\ callAge' = callAge /\ left' = left
        /\ \A q \in Procs \ {p} : run'[q] = run[q]
    BY <1>0, <1>4 DEF Release, LeaseTypeOK
  <2>2. holder # p => holder' = holder /\ leaseLeft' = leaseLeft
    BY <1>4 DEF Release, Drop, Forget
  <2> QED BY <1>1, <2>1, <2>2, StepOutside
<1>5. CASE Crash(p)
  <2>1. /\ run'[p] = "off" /\ stmt'[p] = "none"
        /\ \A q \in Procs \ {p} : /\ run'[q] = run[q] /\ stmt'[q] = stmt[q]
                                  /\ callAge'[q] = callAge[q] /\ left'[q] = left[q]
    BY <1>0, <1>5 DEF Crash, CallOver, NoBeat, LeaseTypeOK
  <2>2. holder # p => holder' = holder /\ leaseLeft' = leaseLeft
    BY <1>5 DEF Crash, Forget
  <2> QED BY <1>1, <2>1, <2>2, StepOutside
<1> QED BY <1>2, <1>3, <1>4, <1>5 DEF EndStep

LEMMA CoverNext == CoverInv /\ [LeaseNext]_leaseVars => CoverInv'
<1> SUFFICES ASSUME CoverInv, [LeaseNext]_leaseVars PROVE CoverInv'
  OBVIOUS
<1>0. LeaseTypeOK'
  BY TypeNext DEF CoverInv
<1>1. CASE UNCHANGED leaseVars
  BY <1>0, <1>1 DEF leaseVars, CoverInv, LeaseCoversRun, CallWithinTTL, NoCallWhenOff
<1> QED BY <1>0, <1>1, InvTick, InvAcquire, InvBeat, InvEnd DEF LeaseNext

\* a step of p changes nobody else's beat
LEMMA BeatOthers ==
    ASSUME BeatOff, TickPhase, BeatInTime, NEW p \in Procs,
           run'[p] # "running" => tickIn'[p] = Every /\ ~due'[p] /\ ~failing'[p],
           \A q \in Procs \ {p} : /\ run'[q] = run[q] /\ stmt'[q] = stmt[q]
                                  /\ callAge'[q] = callAge[q] /\ left'[q] = left[q]
                                  /\ tickIn'[q] = tickIn[q] /\ due'[q] = due[q]
                                  /\ failing'[q] = failing[q],
           run'[p] = "running" =>
             /\ LET waited == IF due'[p] THEN 2 * Every - tickIn'[p] ELSE Every - tickIn'[p] IN
                /\ stmt'[p] # "none" => waited <= callAge'[p] + MaxLag
                /\ (stmt'[p] = "none" /\ due'[p]) => waited <= Every + MaxLag
             /\ left'[p] >= 1 - SinceBeat(p)'
             /\ ~failing'[p] => left'[p] >= TTL - MaxHang - SinceBeat(p)'
    PROVE  BeatOff' /\ TickPhase' /\ BeatInTime'
<1>0. BeatOff'
  BY DEF BeatOff
<1>1. TickPhase'
  BY DEF TickPhase
<1>2. BeatInTime'
  <2> SUFFICES ASSUME NEW q \in Procs, run'[q] = "running"
               PROVE  /\ left'[q] >= 1 - SinceBeat(q)'
                      /\ ~failing'[q] => left'[q] >= TTL - MaxHang - SinceBeat(q)'
    BY DEF BeatInTime
  <2>1. CASE q = p
    BY <2>1
  <2>2. CASE q # p
    <3>1. SinceBeat(q)' = SinceBeat(q)
      BY <2>2 DEF SinceBeat
    <3> QED BY <2>2, <3>1 DEF BeatInTime
  <2> QED BY <2>1, <2>2
<1> QED BY <1>0, <1>1, <1>2

\* what is known of the beat of a running process
LEMMA BeatFacts ==
    ASSUME LeaseTypeOK, TickPhase, BeatInTime, NEW p \in Procs, run[p] = "running"
    PROVE  /\ left[p] \in Int /\ tickIn[p] \in 1..Every /\ callAge[p] \in 0..MaxHang
           /\ stmt[p] # "none" =>
                /\ due[p] => 2 * Every - tickIn[p] <= callAge[p] + MaxLag
                /\ ~due[p] => Every - tickIn[p] <= callAge[p] + MaxLag
                /\ left[p] >= 1 - (Every + MaxLag + callAge[p])
                /\ ~failing[p] => left[p] >= TTL - MaxHang - (Every + MaxLag + callAge[p])
           /\ (stmt[p] = "none" /\ due[p]) =>
                /\ 2 * Every - tickIn[p] <= Every + MaxLag
                /\ left[p] >= 1 - (2 * Every - tickIn[p])
                /\ ~failing[p] => left[p] >= TTL - MaxHang - (2 * Every - tickIn[p])
           /\ (stmt[p] = "none" /\ ~due[p]) =>
                /\ left[p] >= 1 - (Every - tickIn[p])
                /\ ~failing[p] => left[p] >= TTL - MaxHang - (Every - tickIn[p])
<1>1. left[p] \in Int /\ tickIn[p] \in 1..Every /\ callAge[p] \in 0..MaxHang
  BY DEF LeaseTypeOK
<1>2. /\ stmt[p] # "none" =>
           /\ due[p] => 2 * Every - tickIn[p] <= callAge[p] + MaxLag
           /\ ~due[p] => Every - tickIn[p] <= callAge[p] + MaxLag
      /\ (stmt[p] = "none" /\ due[p]) => 2 * Every - tickIn[p] <= Every + MaxLag
  BY DEF TickPhase
<1>3. /\ left[p] >= 1 - SinceBeat(p)
      /\ ~failing[p] => left[p] >= TTL - MaxHang - SinceBeat(p)
  BY DEF BeatInTime
<1> QED BY <1>1, <1>2, <1>3 DEF SinceBeat

\* the beat across a step of p
LEMMA BeatStepKept ==
    ASSUME CoverInv, BeatOff, TickPhase, BeatInTime, LeaseTypeOK', NEW p \in Procs,
           AcquireStep(p) \/ BeatStep(p) \/ EndStep(p) \/ Crash(p)
    PROVE  BeatOff' /\ TickPhase' /\ BeatInTime'
<1>0. LeaseTypeOK
  BY DEF CoverInv
<1> DEFINE Others == \A q \in Procs \ {p} :
                        /\ run'[q] = run[q] /\ stmt'[q] = stmt[q]
                        /\ callAge'[q] = callAge[q] /\ left'[q] = left[q]
                        /\ tickIn'[q] = tickIn[q] /\ due'[q] = due[q]
                        /\ failing'[q] = failing[q]
<1> USE DEF beatVars
<1>1. CASE StartRun(p) \/ Beaten(p) \/ AcquireFails(p)
  <2>1. /\ run[p] # "running" /\ run'[p] # "running"
        /\ tickIn' = tickIn /\ due' = due /\ failing' = failing /\ left' = left
        /\ Others
    BY <1>0, <1>1 DEF StartRun, Beaten, AcquireFails, Call, CallOver, LeaseTypeOK
  <2> QED BY <2>1, BeatOthers DEF BeatOff
<1>2. CASE FnReturns(p) \/ TakenOver(p) \/ Crash(p)
  <2>1. /\ run'[p] # "running" /\ tickIn'[p] = Every /\ ~due'[p] /\ ~failing'[p]
        /\ Others
    BY <1>0, <1>2 DEF FnReturns, TakenOver, Crash, NoBeat, CallOver, LeaseTypeOK
  <2> QED BY <2>1, BeatOthers
<1>3. CASE RenewalCut(p) \/ Release(p)
  <2>1. /\ run[p] # "running" /\ run'[p] # "running"
        /\ tickIn' = tickIn /\ due' = due /\ failing' = failing /\ left' = left
        /\ Others
    BY <1>0, <1>3 DEF RenewalCut, Release, CallOver, LeaseTypeOK
  <2> QED BY <2>1, BeatOthers DEF BeatOff
<1>4. CASE InsertConflict(p)
  <2>1. /\ run' = run /\ tickIn' = tickIn /\ due' = due /\ failing' = failing /\ left' = left
        /\ callAge' = callAge /\ stmt[p] # "none" /\ stmt'[p] # "none"
        /\ Others
    BY <1>0, <1>4 DEF InsertConflict, LeaseTypeOK
  <2>2. SinceBeat(p)' = SinceBeat(p)
    BY <2>1 DEF SinceBeat
  <2> QED BY <2>1, <2>2, BeatOthers DEF BeatOff, TickPhase, BeatInTime
<1>5. CASE Won(p)
  <2>1. /\ run'[p] = "running" /\ stmt'[p] = "none" /\ left'[p] = TTL - callAge[p]
        /\ tickIn' = tickIn /\ due' = due /\ failing' = failing
        /\ tickIn[p] = Every /\ ~due[p] /\ Others
    BY <1>0, <1>5 DEF Won, CallOver, LeaseTypeOK, BeatOff
  <2>2. SinceBeat(p)' = Every - Every
    BY <2>1 DEF SinceBeat
  <2>3. left'[p] >= 1 - SinceBeat(p)' /\ left'[p] >= TTL - MaxHang - SinceBeat(p)'
    BY <1>0, <2>1, <2>2, Numbers DEF LeaseTypeOK
  <2> QED BY <2>1, <2>3, BeatOthers
<1>6. CASE Heartbeat(p)
  <2>1. /\ run[p] = "running" /\ stmt[p] = "none" /\ due[p]
        /\ run' = run /\ stmt'[p] # "none" /\ callAge'[p] = 0 /\ ~due'[p]
        /\ tickIn' = tickIn /\ left' = left /\ failing' = failing /\ Others
    BY <1>0, <1>6 DEF Heartbeat, Call, LeaseTypeOK
  <2>2. SinceBeat(p)' = Every + MaxLag + 0
    BY <2>1 DEF SinceBeat
  <2>3. /\ left[p] \in Int /\ tickIn[p] \in 1..Every
        /\ 2 * Every - tickIn[p] <= Every + MaxLag
        /\ left[p] >= 1 - (2 * Every - tickIn[p])
        /\ ~failing[p] => left[p] >= TTL - MaxHang - (2 * Every - tickIn[p])
    BY <1>0, <2>1, BeatFacts
  <2>4. /\ Every - tickIn[p] <= 0 + MaxLag
        /\ left[p] >= 1 - (Every + MaxLag + 0)
        /\ ~failing[p] => left[p] >= TTL - MaxHang - (Every + MaxLag + 0)
    BY <2>3, Numbers
  <2> QED BY <2>1, <2>2, <2>4, BeatOthers
<1>7. ASSUME run[p] = "running", stmt[p] # "none", CallOver(p),
             run' = run, tickIn' = tickIn, due' = due, left'[p] \in Int, Others,
             \/ left'[p] >= TTL - MaxHang
             \/ left'[p] >= 1 /\ failing'[p]
      PROVE  BeatOff' /\ TickPhase' /\ BeatInTime'
  <2>1. stmt'[p] = "none"
    BY <1>0, <1>7 DEF CallOver, LeaseTypeOK
  <2>2. /\ tickIn[p] \in 1..Every /\ callAge[p] \in 0..MaxHang
        /\ due[p] => 2 * Every - tickIn[p] <= callAge[p] + MaxLag
    BY <1>0, <1>7, BeatFacts
  <2>3. due[p] => 2 * Every - tickIn[p] <= Every + MaxLag
    BY <2>2, Numbers
  <2>4. SinceBeat(p)' = IF due[p] THEN 2 * Every - tickIn[p] ELSE Every - tickIn[p]
    BY <1>7, <2>1 DEF SinceBeat
  <2>5. SinceBeat(p)' \in Nat
    BY <2>2, <2>4, Numbers
  <2>6. TTL - MaxHang >= 1
    BY Numbers
  <2>7. left'[p] >= 1 - SinceBeat(p)'
    BY <1>7, <2>5, <2>6, Numbers
  <2>8. ~failing'[p] => left'[p] >= TTL - MaxHang - SinceBeat(p)'
    BY <1>7, <2>5, Numbers
  <2> QED BY <1>7, <2>1, <2>3, <2>7, <2>8, BeatOthers
<1>8. CASE Renewed(p)
  <2>1. /\ run[p] = "running" /\ stmt[p] # "none" /\ CallOver(p)
        /\ run' = run /\ tickIn' = tickIn /\ due' = due /\ left'[p] = TTL - callAge[p] /\ Others
    BY <1>0, <1>8 DEF Renewed, Matches, CallOver, LeaseTypeOK
  <2>2. left'[p] \in Int /\ left'[p] >= TTL - MaxHang
    BY <1>0, <2>1, Numbers DEF LeaseTypeOK
  <2> QED BY <1>7, <2>1, <2>2
<1>9. CASE RenewalFails(p)
  <2>1. CASE left[p] > 0 /\ failing' = [failing EXCEPT ![p] = TRUE] /\ UNCHANGED <<run, tickIn, due, left>>
    <3>1. /\ run[p] = "running" /\ stmt[p] # "none" /\ CallOver(p) /\ failing'[p]
          /\ left[p] \in Int /\ Others
      BY <1>0, <1>9, <2>1 DEF RenewalFails, CallOver, LeaseTypeOK
    <3>2. left'[p] \in Int /\ left'[p] >= 1
      BY <2>1, <3>1
    <3> QED BY <1>7, <2>1, <3>1, <3>2
  <2>2. CASE run' = [run EXCEPT ![p] = "lost"] /\ NoBeat(p)
    <3>1. /\ run'[p] # "running" /\ tickIn'[p] = Every /\ ~due'[p] /\ ~failing'[p]
          /\ Others
      BY <1>0, <1>9, <2>2 DEF RenewalFails, NoBeat, CallOver, LeaseTypeOK
    <3> QED BY <3>1, BeatOthers
  <2> QED BY <1>9, <2>1, <2>2 DEF RenewalFails
<1> QED BY <1>1, <1>2, <1>3, <1>4, <1>5, <1>6, <1>8, <1>9 DEF AcquireStep, BeatStep, EndStep

\* the beat across a tick of the clock
LEMMA BeatTick ==
    ASSUME LeaseTypeOK, BeatOff, TickPhase, BeatInTime, Tick
    PROVE  BeatOff' /\ TickPhase' /\ BeatInTime'
<1>1. UNCHANGED <<run, stmt, failing>>
  BY DEF Tick
<1>2. BeatOff'
  BY <1>1 DEF BeatOff, Tick, LeaseTypeOK, Beating
<1>3. ASSUME NEW p \in Procs, run[p] = "running"
      PROVE  /\ LET waited == IF due'[p] THEN 2 * Every - tickIn'[p] ELSE Every - tickIn'[p] IN
                /\ stmt[p] # "none" => waited <= callAge'[p] + MaxLag
                /\ (stmt[p] = "none" /\ due'[p]) => waited <= Every + MaxLag
             /\ left'[p] >= 1 - SinceBeat(p)'
             /\ ~failing[p] => left'[p] >= TTL - MaxHang - SinceBeat(p)'
  <2>1. /\ left'[p] = left[p] - 1
        /\ tickIn'[p] = IF tickIn[p] > 1 THEN tickIn[p] - 1 ELSE Every
        /\ stmt[p] # "none" => callAge'[p] = callAge[p] + 1 /\ callAge[p] < MaxHang
        /\ (stmt[p] = "none" /\ due[p]) => Every - tickIn[p] < MaxLag
    BY <1>3 DEF Tick, Beating, LeaseTypeOK
  <2>2. due'[p] <=> due[p] \/ tickIn[p] = 1
    BY <1>3 DEF Tick, Beating
  <2>3. SinceBeat(p)' = IF stmt[p] # "none" THEN Every + MaxLag + callAge'[p]
                        ELSE IF due'[p] THEN 2 * Every - tickIn'[p]
                        ELSE Every - tickIn'[p]
    BY <1>1 DEF SinceBeat
  <2>4. left[p] \in Int /\ tickIn[p] \in 1..Every /\ callAge[p] \in 0..MaxHang
    BY <1>3, BeatFacts
  <2>5. CASE stmt[p] # "none"
    <3>1. /\ due[p] => 2 * Every - tickIn[p] <= callAge[p] + MaxLag
          /\ ~due[p] => Every - tickIn[p] <= callAge[p] + MaxLag
          /\ left[p] >= 1 - (Every + MaxLag + callAge[p])
          /\ ~failing[p] => left[p] >= TTL - MaxHang - (Every + MaxLag + callAge[p])
      BY <1>3, <2>5, BeatFacts
    <3>2. callAge'[p] = callAge[p] + 1 /\ callAge[p] < MaxHang
      BY <2>1, <2>5
    <3>3. CASE tickIn[p] > 1
      BY <2>1, <2>2, <2>3, <2>4, <2>5, <3>1, <3>2, <3>3, Numbers
    <3>4. CASE tickIn[p] = 1
      <4>1. tickIn'[p] = Every /\ due'[p] /\ ~due[p]
        <5>1. tickIn'[p] = Every /\ due'[p]
          BY <2>1, <2>2, <3>4
        <5>2. ASSUME due[p] PROVE FALSE
          BY <2>4, <3>1, <3>2, <3>4, <5>2, Numbers
        <5> QED BY <5>1, <5>2
      <4> QED BY <2>1, <2>3, <2>4, <2>5, <3>1, <3>2, <3>4, <4>1, Numbers
    <3> QED BY <2>4, <3>3, <3>4
  <2>6. CASE stmt[p] = "none" /\ due[p]
    <3>1. /\ left[p] >= 1 - (2 * Every - tickIn[p])
          /\ ~failing[p] => left[p] >= TTL - MaxHang - (2 * Every - tickIn[p])
          /\ Every - tickIn[p] < MaxLag
      BY <1>3, <2>1, <2>6, BeatFacts
    <3>2. tickIn[p] > 1
      BY <2>4, <3>1, Numbers
    <3>3. tickIn'[p] = tickIn[p] - 1 /\ due'[p]
      BY <2>1, <2>2, <2>6, <3>2
    <3> QED BY <2>1, <2>3, <2>4, <2>6, <3>1, <3>3, Numbers
  <2>7. CASE stmt[p] = "none" /\ ~due[p]
    <3>1. /\ left[p] >= 1 - (Every - tickIn[p])
          /\ ~failing[p] => left[p] >= TTL - MaxHang - (Every - tickIn[p])
      BY <1>3, <2>7, BeatFacts
    <3>2. CASE tickIn[p] > 1
      <4>1. tickIn'[p] = tickIn[p] - 1 /\ ~due'[p]
        BY <2>1, <2>2, <2>4, <2>7, <3>2
      <4> QED BY <2>1, <2>3, <2>4, <2>7, <3>1, <4>1, Numbers
    <3>3. CASE tickIn[p] = 1
      <4>1. tickIn'[p] = Every /\ due'[p]
        BY <2>1, <2>2, <3>3
      <4> QED BY <2>1, <2>3, <2>4, <2>7, <3>1, <3>3, <4>1, Numbers
    <3> QED BY <2>4, <3>2, <3>3
  <2> QED BY <2>5, <2>6, <2>7
<1>4. TickPhase'
  BY <1>1, <1>3 DEF TickPhase
<1>5. BeatInTime'
  BY <1>1, <1>3 DEF BeatInTime
<1> QED BY <1>2, <1>4, <1>5

LEMMA InvInit == LeaseInit => LeaseInv
BY CoverInit DEF LeaseInit, LeaseInv, BeatOff, TickPhase, BeatInTime

LEMMA InvNext == LeaseInv /\ [LeaseNext]_leaseVars => LeaseInv'
<1> SUFFICES ASSUME LeaseInv, [LeaseNext]_leaseVars PROVE LeaseInv'
  OBVIOUS
<1>0. CoverInv /\ CoverInv' /\ LeaseTypeOK /\ LeaseTypeOK'
  BY CoverNext DEF LeaseInv, CoverInv
<1>1. CASE Tick
  BY <1>0, <1>1, BeatTick DEF LeaseInv
<1>2. CASE UNCHANGED leaseVars
  BY <1>0, <1>2 DEF leaseVars, LeaseInv, BeatOff, TickPhase, BeatInTime, SinceBeat
<1>3. ASSUME NEW p \in Procs, AcquireStep(p) \/ BeatStep(p) \/ EndStep(p) \/ Crash(p)
      PROVE  LeaseInv'
  BY <1>0, <1>3, BeatStepKept DEF LeaseInv
<1> QED BY <1>1, <1>2, <1>3 DEF LeaseNext

(* The inductive invariant of a leased run: until its `expires` the row is *)
(* its own and does not lapse, and the heartbeat comes within a period, a  *)
(* lag and a call. RunLeased, renew and the lease repository.              *)
THEOREM LeaseHeld == LeaseSpec => []LeaseInv
BY InvInit, InvNext, PTL DEF LeaseSpec

LEMMA InvOneWithinLease == LeaseInv => OneWithinLease
<1> SUFFICES ASSUME LeaseInv, NEW p \in Procs, NEW q \in Procs,
                    p # q, run[p] = "running", run[q] = "running", left[p] >= 0, left[q] >= 0
             PROVE  FALSE
  BY DEF OneWithinLease, LeaseInv, CoverInv, LeaseTypeOK
<1> QED BY DEF LeaseInv, CoverInv, LeaseCoversRun

(* Two replicas never both run within their lease, for any number of them  *)
(* and whatever the database does to their calls.                          *)
THEOREM OneWithinLeaseHolds == LeaseSpec => []OneWithinLease
BY LeaseHeld, InvOneWithinLease, PTL

LEMMA InvBounds ==
    /\ LeaseInv => OverrunBounded
    /\ Prompt /\ LeaseInv => RenewedInTime
<1> SUFFICES ASSUME LeaseInv, NEW p \in Procs, run[p] = "running"
             PROVE  /\ left[p] > -(Every + MaxLag + MaxHang)
                    /\ Prompt /\ ~failing[p] => left[p] >= 0
  BY DEF OverrunBounded, RenewedInTime
<1>1. LeaseTypeOK /\ TickPhase /\ BeatInTime
  BY DEF LeaseInv, CoverInv
<1>2. left[p] \in Int /\ tickIn[p] \in 1..Every /\ callAge[p] \in 0..MaxHang
  BY <1>1, BeatFacts
<1>3. CASE stmt[p] # "none"
  <2>1. /\ left[p] >= 1 - (Every + MaxLag + callAge[p])
        /\ ~failing[p] => left[p] >= TTL - MaxHang - (Every + MaxLag + callAge[p])
    BY <1>1, <1>3, BeatFacts
  <2> QED BY <1>2, <2>1, Numbers DEF Prompt
<1>4. CASE stmt[p] = "none" /\ due[p]
  <2>1. /\ 2 * Every - tickIn[p] <= Every + MaxLag
        /\ left[p] >= 1 - (2 * Every - tickIn[p])
        /\ ~failing[p] => left[p] >= TTL - MaxHang - (2 * Every - tickIn[p])
    BY <1>1, <1>4, BeatFacts
  <2> QED BY <1>2, <2>1, Numbers DEF Prompt
<1>5. CASE stmt[p] = "none" /\ ~due[p]
  <2>1. /\ left[p] >= 1 - (Every - tickIn[p])
        /\ ~failing[p] => left[p] >= TTL - MaxHang - (Every - tickIn[p])
    BY <1>1, <1>5, BeatFacts
  <2> QED BY <1>2, <2>1, Numbers DEF Prompt
<1> QED BY <1>3, <1>4, <1>5

\* a run either goes on with the expires it had, or has just been given one
LEMMA ExpiresKept ==
    ASSUME LeaseInv, NEW p \in Procs, NEW q \in Procs,
           AcquireStep(p) \/ BeatStep(p) \/ EndStep(p) \/ Crash(p),
           run'[q] = "running"
    PROVE  (run[q] = "running" /\ left'[q] = left[q]) \/ left'[q] >= 0
<1>1. LeaseTypeOK
  BY DEF LeaseInv, CoverInv
<1>2. TTL - callAge[p] >= 0
  BY <1>1, LeaseConstants DEF LeaseTypeOK
<1>3. CASE StartRun(p) \/ InsertConflict(p) \/ Beaten(p) \/ AcquireFails(p) \/ RenewalCut(p) \/ Release(p)
  BY <1>1, <1>3 DEF StartRun, InsertConflict, Beaten, AcquireFails, RenewalCut, Release, beatVars, LeaseTypeOK
<1>4. CASE Won(p) \/ Renewed(p)
  BY <1>1, <1>2, <1>4 DEF Won, Renewed, LeaseTypeOK
<1>5. CASE FnReturns(p) \/ Crash(p) \/ TakenOver(p)
  BY <1>1, <1>5 DEF FnReturns, Crash, TakenOver, NoBeat, LeaseTypeOK
<1>6. CASE Heartbeat(p)
  BY <1>6 DEF Heartbeat
<1>7. CASE RenewalFails(p)
  <2>1. CASE UNCHANGED <<run, tickIn, due, left>>
    BY <2>1
  <2>2. CASE run' = [run EXCEPT ![p] = "lost"] /\ NoBeat(p)
    BY <1>1, <2>2 DEF NoBeat, LeaseTypeOK
  <2> QED BY <1>7, <2>1, <2>2 DEF RenewalFails
<1> QED
  BY <1>3, <1>4, <1>5, <1>6, <1>7 DEF AcquireStep, BeatStep, EndStep

\* a step of one process leaves the runs of the others alone
LEMMA OthersRun ==
    ASSUME LeaseTypeOK, NEW p \in Procs, AcquireStep(p) \/ BeatStep(p) \/ EndStep(p) \/ Crash(p)
    PROVE  \A q \in Procs \ {p} : run'[q] = run[q]
BY DEF AcquireStep, BeatStep, EndStep, StartRun, InsertConflict, Won, Beaten, AcquireFails,
       Heartbeat, Renewed, TakenOver, RenewalFails, FnReturns, RenewalCut, Release, Crash,
       LeaseTypeOK

(* A run that cannot renew is cancelled within a period, a lag and a call  *)
(* of the end of its lease.                                                *)
THEOREM OverrunBoundedHolds == LeaseSpec => []OverrunBounded
BY LeaseHeld, InvBounds, PTL

(* With prompt calls, work of any length stays within its lease as long as *)
(* its renewals succeed.                                                   *)
THEOREM RenewedInTimeHolds == Prompt => (LeaseSpec => []RenewedInTime)
<1> HAVE Prompt
<1>1. LeaseInv => RenewedInTime
  BY InvBounds
<1> QED BY LeaseHeld, <1>1, PTL
=============================================================================
