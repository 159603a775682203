----------------------------- MODULE KeyProofs -----------------------------
(***************************************************************************)
(* Booting replicas use the lease as RunLeased does, and mint one key      *)
(* between them, for any number of replicas and any TTL.                   *)
(***************************************************************************)
EXTENDS KeyBootstrap, LeaseProofs

-----------------------------------------------------------------------------
(* Every step of a boot is a step of the lease, or none.                   *)

LEMMA BootIsLease == [Next]_vars => [LeaseNext]_leaseVars
<1> SUFFICES ASSUME [Next]_vars PROVE [LeaseNext]_leaseVars
  OBVIOUS
<1>1. CASE UNCHANGED vars
  BY <1>1 DEF vars
<1>2. CASE Pass
  BY <1>2 DEF Pass, LeaseNext
<1>3. ASSUME NEW p \in Procs, Start(p) \/ Look(p) \/ Check(p) \/ Create(p) \/ GiveUp(p)
      PROVE  UNCHANGED leaseVars
  BY <1>3 DEF Start, Look, Check, CheckThen, Create, GiveUp
<1>4. ASSUME NEW p \in Procs, Try(p) \/ Conflict(p) \/ Enter(p) \/ Wait(p) \/ TryFails(p)
      PROVE  LeaseNext
  BY <1>4 DEF Try, Conflict, Enter, Wait, TryFails, LeaseNext, AcquireStep
<1>5. ASSUME NEW p \in Procs, Return(p) \/ Join(p) \/ Leave(p) PROVE LeaseNext
  BY <1>5 DEF Return, Join, Leave, LeaseNext, EndStep
<1>6. ASSUME NEW p \in Procs, Beat(p) \/ Die(p) PROVE LeaseNext
  BY <1>6 DEF Beat, Die, LeaseNext, AcquireStep
<1> QED BY <1>1, <1>2, <1>3, <1>4, <1>5, <1>6 DEF Next, BootStep

(* EnsureActiveKey under RunExclusive (jwt.go, lease.go) uses the lease as *)
(* RunLeased does, so what is proved of the lease holds of booting.        *)
THEOREM BootImplementsLease == Spec => ImplementsLease
<1>1. Init => LeaseInit
  BY DEF Init
<1> QED
  BY <1>1, BootIsLease, PTL DEF Spec, ImplementsLease, LeaseSpec

-----------------------------------------------------------------------------
(* One key. A run that is not past its lease is alone, so what it found    *)
(* under the lease is still so when it creates the key.                    *)

KeyTypes ==
    /\ keys \in Nat
    /\ fn \in [Procs -> {"none", "check", "create", "end"}]
    /\ over \in [Procs -> BOOLEAN] /\ late \in BOOLEAN

\* history: a run past its lease is known to be
OverKnown == \A p \in Procs : (run[p] = "running" /\ ~over[p]) => left[p] >= 0

CreatesFirst ==
    \A p \in Procs : (fn[p] = "create" /\ run[p] = "running" /\ ~over[p]) => keys = 0 \/ late

FnUnderLease == \A p \in Procs : fn[p] # "none" => run[p] \in {"running", "lost"}

KeyInv ==
    /\ LeaseInv /\ KeyTypes /\ OverKnown /\ FnUnderLease /\ CreatesFirst /\ OneKeyWithinLease

LEMMA KeyInit == Init => KeyInv
<1> SUFFICES ASSUME Init PROVE KeyInv
  OBVIOUS
<1>1. LeaseInv
  BY InvInit DEF Init
<1>2. KeyTypes
  BY DEF Init, KeyTypes
<1> QED BY <1>1, <1>2 DEF Init, LeaseInit, KeyInv, OverKnown, FnUnderLease, CreatesFirst, OneKeyWithinLease

\* a step of the lease under which EnsureActiveKey stays where it is
LEMMA LeaseOnly ==
    ASSUME KeyInv, LeaseInv', NEW p \in Procs,
           AcquireStep(p) \/ BeatStep(p) \/ EndStep(p) \/ Crash(p),
           UNCHANGED <<keys, late>>, fn' \in [Procs -> {"none", "check", "create", "end"}],
           over' \in [Procs -> BOOLEAN],
           \A q \in Procs \ {p} : fn'[q] = fn[q] /\ over'[q] = over[q],
           fn'[p] = "none" \/ (fn'[p] = fn[p] /\ run'[p] \in {"running", "lost"} /\ run[p] = "running")
               \/ (fn'[p] = "check" /\ run'[p] = "running"),
           over'[p] = over[p] \/ run'[p] # "running"
    PROVE  KeyInv'
<1>1. LeaseTypeOK
  BY DEF KeyInv, LeaseInv, CoverInv
<1>2. \A q \in Procs \ {p} : run'[q] = run[q]
  BY <1>1, OthersRun
<1>3. KeyTypes'
  BY DEF KeyInv, KeyTypes
<1>4. OverKnown'
  <2> SUFFICES ASSUME NEW q \in Procs, run'[q] = "running", ~over'[q] PROVE left'[q] >= 0
    BY DEF OverKnown
  <2>1. ~over[q]
    BY DEF KeyInv
  <2>2. (run[q] = "running" /\ left'[q] = left[q]) \/ left'[q] >= 0
    BY ExpiresKept DEF KeyInv
  <2> QED BY <2>1, <2>2 DEF KeyInv, OverKnown
<1>5. FnUnderLease'
  BY <1>2 DEF KeyInv, FnUnderLease
<1>6. CreatesFirst'
  BY <1>2 DEF KeyInv, CreatesFirst
<1>7. OneKeyWithinLease'
  BY DEF KeyInv, OneKeyWithinLease
<1> QED BY <1>3, <1>4, <1>5, <1>6, <1>7 DEF KeyInv

LEMMA KeyNext == KeyInv /\ [Next]_vars => KeyInv'
<1> SUFFICES ASSUME KeyInv, [Next]_vars PROVE KeyInv'
  OBVIOUS
<1>1. LeaseInv /\ LeaseInv' /\ LeaseTypeOK /\ KeyTypes
  BY BootIsLease, InvNext DEF KeyInv, LeaseInv, CoverInv
<1>2. CASE UNCHANGED <<run, left, keys, fn, over, late>>
  BY <1>1, <1>2 DEF KeyInv, KeyTypes, OverKnown, FnUnderLease, CreatesFirst, OneKeyWithinLease
<1>3. ASSUME NEW p \in Procs, Start(p) \/ Look(p) \/ GiveUp(p) PROVE KeyInv'
  BY <1>2, <1>3 DEF Start, Look, GiveUp, leaseVars
<1>4. ASSUME NEW p \in Procs, Check(p) PROVE KeyInv'
  <2>1. /\ UNCHANGED <<run, left, keys, over, late>> /\ fn[p] = "check"
        /\ fn' \in [Procs -> {"none", "check", "create", "end"}]
        /\ \A q \in Procs \ {p} : fn'[q] = fn[q]
        /\ fn'[p] = "end" \/ keys = 0
    BY <1>1, <1>4 DEF Check, CheckThen, FnEnds, leaseVars, KeyTypes
  <2> QED BY <1>1, <2>1 DEF KeyInv, KeyTypes, OverKnown, FnUnderLease, CreatesFirst, OneKeyWithinLease
<1>5. ASSUME NEW p \in Procs, Create(p) PROVE KeyInv'
  <2>1. /\ UNCHANGED <<run, left, over>> /\ fn[p] = "create"
        /\ fn' = [fn EXCEPT ![p] = "end"]
    BY <1>5 DEF Create, FnEnds, leaseVars
  <2>2. CASE UNCHANGED <<keys, late>>
    BY <1>1, <2>1, <2>2 DEF KeyInv, KeyTypes, OverKnown, FnUnderLease, CreatesFirst, OneKeyWithinLease
  <2>3. CASE run[p] = "running" /\ keys' = keys + 1 /\ late' = (late \/ over[p])
    <3>1. KeyTypes' /\ OverKnown' /\ FnUnderLease'
      BY <1>1, <2>1, <2>3 DEF KeyInv, KeyTypes, OverKnown, FnUnderLease
    <3>2. late' \/ (keys = 0 /\ ~over[p])
      BY <2>1, <2>3 DEF KeyInv, CreatesFirst
    <3>3. OneKeyWithinLease'
      BY <1>1, <2>3, <3>2 DEF OneKeyWithinLease, KeyTypes
    <3>4. ASSUME NEW q \in Procs, q # p, run[q] = "running", ~over[q], ~over[p] PROVE FALSE
      <4>1. left[p] >= 0 /\ left[q] >= 0
        BY <2>3, <3>4 DEF KeyInv, OverKnown
      <4>2. left[p] < 0 \/ left[q] < 0
        BY <1>1, <2>3, <3>4, InvOneWithinLease DEF OneWithinLease
      <4>3. left[p] \in Int /\ left[q] \in Int
        BY <1>1 DEF LeaseTypeOK
      <4> QED BY <4>1, <4>2, <4>3
    <3>5. CreatesFirst'
      BY <1>1, <2>1, <3>2, <3>4 DEF CreatesFirst, KeyTypes
    <3> QED BY <1>1, <3>1, <3>3, <3>5 DEF KeyInv
  <2> QED BY <1>5, <2>2, <2>3 DEF Create
<1>6. ASSUME NEW p \in Procs, Try(p) \/ Conflict(p) \/ Wait(p) \/ TryFails(p) \/ Join(p) \/ Leave(p)
      PROVE  KeyInv'
  <2>1. /\ AcquireStep(p) \/ EndStep(p)
        /\ UNCHANGED <<keys, fn, over, late>>
        /\ run[p] \in {"off", "acquire", "returned"}
    BY <1>6 DEF Try, Conflict, Wait, TryFails, Join, Leave, AcquireStep, EndStep, bootVars,
                StartRun, Beaten, AcquireFails, RenewalCut, Release
  <2>2. fn'[p] = "none"
    BY <2>1 DEF KeyInv, FnUnderLease
  <2> QED BY <1>1, <2>1, <2>2, LeaseOnly DEF KeyTypes
<1>7. ASSUME NEW p \in Procs, Enter(p) PROVE KeyInv'
  <2>1. /\ AcquireStep(p) /\ run'[p] = "running"
        /\ UNCHANGED <<keys, over, late>> /\ fn' = [fn EXCEPT ![p] = "check"]
    BY <1>1, <1>7 DEF Enter, Won, AcquireStep, LeaseTypeOK
  <2> QED BY <1>1, <2>1, LeaseOnly DEF KeyTypes
<1>8. ASSUME NEW p \in Procs, Return(p) PROVE KeyInv'
  <2>1. /\ EndStep(p) /\ run'[p] = "returned"
        /\ UNCHANGED <<keys, late>>
        /\ fn' = [fn EXCEPT ![p] = "none"] /\ over' = [over EXCEPT ![p] = FALSE]
    BY <1>1, <1>8 DEF Return, FnReturns, EndStep, LeaseTypeOK
  <2> QED BY <1>1, <2>1, LeaseOnly DEF KeyTypes
<1>9. ASSUME NEW p \in Procs, Die(p) PROVE KeyInv'
  <2>1. /\ Crash(p) /\ run'[p] = "off"
        /\ UNCHANGED <<keys, late>>
        /\ fn' = [fn EXCEPT ![p] = "none"] /\ over' = [over EXCEPT ![p] = FALSE]
    BY <1>1, <1>9 DEF Die, Crash, LeaseTypeOK
  <2> QED BY <1>1, <2>1, LeaseOnly DEF KeyTypes
<1>10. ASSUME NEW p \in Procs, Beat(p) PROVE KeyInv'
  <2>1. /\ AcquireStep(p) \/ BeatStep(p)
        /\ run[p] = "running" /\ run'[p] \in {"running", "lost"}
        /\ UNCHANGED <<keys, fn, over, late>>
    BY <1>1, <1>10 DEF Beat, bootVars, AcquireStep, BeatStep, InsertConflict, Heartbeat, Renewed,
                       TakenOver, RenewalFails, LeaseTypeOK
  <2> QED BY <1>1, <2>1, LeaseOnly DEF KeyTypes
<1>11. CASE Pass
  <2>1. /\ UNCHANGED <<run, keys, fn, late>>
        /\ over' = [p \in Procs |-> over[p] \/ (run[p] = "running" /\ left'[p] < 0)]
        /\ left' \in [Procs -> Int]
    BY <1>1, <1>11 DEF Pass, Tick, LeaseInv, CoverInv, LeaseTypeOK
  <2>2. over' \in [Procs -> BOOLEAN] /\ \A p \in Procs : over[p] => over'[p]
    BY <1>1, <2>1 DEF KeyTypes
  <2>3. KeyTypes' /\ FnUnderLease' /\ OneKeyWithinLease'
    BY <1>1, <2>1, <2>2 DEF KeyInv, KeyTypes, FnUnderLease, OneKeyWithinLease
  <2>4. OverKnown'
    <3> SUFFICES ASSUME NEW p \in Procs, run'[p] = "running", ~over'[p] PROVE left'[p] >= 0
      BY DEF OverKnown
    <3>1. ~(left'[p] < 0) /\ left'[p] \in Int
      BY <2>1
    <3> QED BY <3>1
  <2>5. CreatesFirst'
    BY <2>1, <2>2 DEF KeyInv, CreatesFirst
  <2> QED BY <1>1, <2>3, <2>4, <2>5 DEF KeyInv
<1>12. CASE UNCHANGED vars
  BY <1>2, <1>12 DEF vars, leaseVars, bootVars
<1> QED
  BY <1>3, <1>4, <1>5, <1>6, <1>7, <1>8, <1>9, <1>10, <1>11, <1>12 DEF Next, BootStep

(* A cold start mints one key (jwt.go), for any number of replicas that    *)
(* crash, boot again and lose calls, unless a run minted one past its      *)
(* lease.                                                                  *)
THEOREM OneKeyHolds == Spec => []OneKeyWithinLease
<1>1. KeyInv => OneKeyWithinLease
  BY DEF KeyInv
<1> QED
  BY <1>1, KeyInit, KeyNext, PTL DEF Spec

-----------------------------------------------------------------------------
(* How a boot ends. A replica reports ready only behind a key it has seen  *)
(* or made, and a waiter outlives the lease it met.                        *)

BootVarTypes ==
    /\ keys \in Nat
    /\ boot \in [Procs -> {"down", "look", "leased", "ready", "failed", "timedout"} \cup Waiting]
    /\ fn \in [Procs -> {"none", "check", "create", "end"}]
    /\ ok \in [Procs -> BOOLEAN]
    /\ patience \in [Procs -> -1..WaitMax]
    /\ rewritten \in [Procs -> BOOLEAN] /\ over \in [Procs -> BOOLEAN] /\ late \in BOOLEAN

NoRow == holder = Nobody => leaseLeft <= -1

\* where EnsureActiveKey is while RunLeased runs
Stages ==
    \A p \in Procs :
        /\ boot[p] = "leased" <=> run[p] \in {"running", "lost", "returned"}
        /\ run[p] = "acquire" => boot[p] = "exclusive" /\ stmt[p] # "none"
        /\ fn[p] # "none" => run[p] \in {"running", "lost"}

KeyFound ==
    \A p \in Procs :
        /\ ok[p] /\ (fn[p] = "end" \/ run[p] = "returned") => keys > 0
        /\ boot[p] = "ready" => keys > 0

Waited(p) == WaitMax - patience[p]

\* behind a lease nobody rewrites, the row is gone before the last poll begins
WaitKnown(p) ==
    boot[p] \in Waiting /\ ~rewritten[p] =>
        /\ holder # Nobody => leaseLeft <= TTL - Waited(p) \/ leaseLeft <= -MaxHang - 1
        /\ boot[p] = "sleep" /\ Waited(p) > TTL + MaxHang => holder = Nobody
        /\ boot[p] = "exclusive" /\ run[p] = "off" /\ Waited(p) > TTL + MaxHang + 1 => holder = Nobody
        /\ run[p] = "acquire" /\ Waited(p) - callAge[p] > TTL + MaxHang + 1 =>
              holder = Nobody /\ stmt[p] = "insert"

TimedOutKnown(p) == boot[p] = "timedout" => rewritten[p]

BootInd ==
    /\ LeaseInv /\ BootVarTypes /\ NoRow /\ Stages /\ KeyFound
    /\ \A p \in Procs : WaitKnown(p) /\ TimedOutKnown(p)

LEMMA BootIndInit == Init => BootInd
<1> SUFFICES ASSUME Init PROVE BootInd
  OBVIOUS
<1>1. LeaseInv
  BY InvInit DEF Init
<1>2. BootVarTypes
  <2>1. 0 \in -1..WaitMax
    BY WaitConstants
  <2>2. patience \in [Procs -> -1..WaitMax]
    BY <2>1 DEF Init
  <2> QED
    BY <2>2 DEF Init, BootVarTypes
<1>3. \A p \in Procs : boot[p] = "down" /\ fn[p] = "none" /\ run[p] = "off"
  BY DEF Init, LeaseInit
<1>4. NoRow
  BY DEF Init, LeaseInit, NoRow
<1> QED
  BY <1>1, <1>2, <1>3, <1>4 DEF BootInd, Stages, KeyFound, WaitKnown, TimedOutKnown, Waiting

\* what a step may do to the row: nobody has it, or it is not extended, or it is rewritten
RowKept == holder' = Nobody \/ (holder # Nobody /\ leaseLeft' <= leaseLeft) \/ leaseLeft' > leaseLeft

LEMMA RowStep ==
  ASSUME LeaseTypeOK, NoRow, NEW p \in Procs, AcquireStep(p) \/ BeatStep(p) \/ EndStep(p) \/ Crash(p)
  PROVE  NoRow' /\ RowKept
<1>0. /\ leaseLeft \in Int /\ callAge[p] \in Int /\ callAge[p] <= MaxHang
      /\ Nobody # Orphan /\ p # Nobody
  BY LeaseConstants, Numbers DEF LeaseTypeOK
<1>1. TTL - callAge[p] \in Int /\ TTL - callAge[p] >= 0
  BY <1>0, Numbers
<1>2. CASE UNCHANGED rowVars
  BY <1>0, <1>2 DEF rowVars, NoRow, RowKept
<1>3. CASE Own(p) \/ (holder' = Orphan /\ leaseLeft' = TTL - callAge[p])
  <2>1. holder' # Nobody /\ leaseLeft' = TTL - callAge[p]
    BY <1>0, <1>3 DEF Own
  <2>2. leaseLeft' <= leaseLeft \/ leaseLeft' > leaseLeft
    BY <2>1, <1>0, <1>1
  <2> QED
    BY <2>1, <2>2, <1>0, <1>1 DEF NoRow, RowKept
<1>4. CASE Drop(p)
  BY <1>0, <1>2, <1>4 DEF Drop, NoRow, RowKept
<1>5. CASE Forget(p)
  BY <1>0, <1>5 DEF Forget, NoRow, RowKept
<1> QED
  BY <1>2, <1>3, <1>4, <1>5 DEF AcquireStep, BeatStep, EndStep, StartRun, InsertConflict, Won, Beaten, AcquireFails,
       Heartbeat, Renewed, TakenOver, RenewalFails, FnReturns, RenewalCut, Release, Crash

LEMMA OthersCall ==
  ASSUME LeaseTypeOK, NEW p \in Procs, AcquireStep(p) \/ BeatStep(p) \/ EndStep(p) \/ Crash(p)
  PROVE  \A q \in Procs \ {p} : stmt'[q] = stmt[q] /\ callAge'[q] = callAge[q]
BY DEF AcquireStep, BeatStep, EndStep, StartRun, InsertConflict, Won, Beaten, AcquireFails,
       Heartbeat, Renewed, TakenOver, RenewalFails, FnReturns, RenewalCut, Release, Crash,
       Call, CallOver, LeaseTypeOK

LEMMA Observed ==
  ASSUME Observe, NEW q \in Procs
  PROVE  /\ boot'[q] # "look" /\ rewritten[q] => rewritten'[q]
         /\ boot'[q] # "look" /\ boot[q] \in Waiting /\ ~rewritten'[q] => holder' = Nobody \/ ~(leaseLeft' > leaseLeft)
         /\ rewritten'[q] \in BOOLEAN
BY DEF Observe

\* a replica whose own state a step leaves alone
LEMMA WaiterLeft ==
  ASSUME LeaseTypeOK, LeaseTypeOK', BootVarTypes, RowKept, Observe, NEW q \in Procs, WaitKnown(q), TimedOutKnown(q),
         boot'[q] = boot[q], patience'[q] = patience[q], run'[q] = run[q], stmt'[q] = stmt[q], callAge'[q] = callAge[q]
  PROVE  WaitKnown(q)' /\ TimedOutKnown(q)'
<1>0. boot[q] \in Waiting => boot'[q] # "look"
  BY DEF Waiting
<1>1. TimedOutKnown(q)'
  BY Observed DEF TimedOutKnown
<1>2. ASSUME boot[q] \in Waiting, ~rewritten'[q] PROVE WaitKnown(q)'
  <2>1. ~rewritten[q] /\ (holder' = Nobody \/ (holder # Nobody /\ leaseLeft' <= leaseLeft))
    BY <1>0, <1>2, Observed DEF RowKept
  <2>2. leaseLeft \in Int /\ leaseLeft' \in Int /\ Waited(q)' = Waited(q) /\ Waited(q) \in Int
    BY WaitConstants DEF LeaseTypeOK, Waited, BootVarTypes
  <2>3. holder' # Nobody => leaseLeft' <= TTL - Waited(q)' \/ leaseLeft' <= -MaxHang - 1
    BY <1>2, <2>1, <2>2, Numbers DEF WaitKnown
  <2> QED
    BY <1>2, <2>1, <2>2, <2>3 DEF WaitKnown
<1> QED
  BY <1>1, <1>2 DEF WaitKnown

\* a step of one replica
LEMMA OneBoots ==
  ASSUME BootInd, LeaseInv', BootVarTypes', NEW p \in Procs, NoRow', RowKept, Observe, keys' >= keys,
         \A q \in Procs \ {p} : /\ boot'[q] = boot[q] /\ patience'[q] = patience[q] /\ run'[q] = run[q]
                                /\ stmt'[q] = stmt[q] /\ callAge'[q] = callAge[q]
                                /\ ok'[q] = ok[q] /\ fn'[q] = fn[q],
         boot'[p] = "leased" <=> run'[p] \in {"running", "lost", "returned"},
         run'[p] = "acquire" => boot'[p] = "exclusive" /\ stmt'[p] # "none",
         fn'[p] # "none" => run'[p] \in {"running", "lost"},
         ok'[p] /\ (fn'[p] = "end" \/ run'[p] = "returned") => keys' > 0,
         boot'[p] = "ready" => keys' > 0,
         WaitKnown(p)', TimedOutKnown(p)'
  PROVE  BootInd'
<1>0. LeaseTypeOK /\ LeaseTypeOK' /\ BootVarTypes /\ keys \in Nat /\ keys' \in Nat
  BY DEF BootInd, LeaseInv, CoverInv, BootVarTypes
<1>1. Stages'
  BY DEF BootInd, Stages
<1>2. KeyFound'
  <2>1. keys > 0 => keys' > 0
    BY <1>0
  <2> QED
    BY <2>1 DEF BootInd, KeyFound
<1>3. ASSUME NEW q \in Procs, q # p PROVE WaitKnown(q)' /\ TimedOutKnown(q)'
  BY <1>0, <1>3, WaiterLeft DEF BootInd
<1> QED
  BY <1>1, <1>2, <1>3 DEF BootInd

\* a step that ends with the replica neither waiting nor timed out
LEMMA NotWaiting ==
  ASSUME NEW p \in Procs, boot'[p] \notin Waiting, boot'[p] # "timedout"
  PROVE  WaitKnown(p)' /\ TimedOutKnown(p)'
BY DEF WaitKnown, TimedOutKnown

LEMMA BootTypesKept == LeaseTypeOK /\ BootVarTypes /\ Next => BootVarTypes'
<1> SUFFICES ASSUME LeaseTypeOK, BootVarTypes, Next PROVE BootVarTypes'
  OBVIOUS
<1>0. rewritten' \in [Procs -> BOOLEAN]
  BY DEF Next, Observe
<1>c. WaitMax \in -1..WaitMax /\ 0 \in -1..WaitMax
  BY WaitConstants
<1>b. ASSUME NEW p \in Procs, NEW stage \in {"down", "look", "leased", "ready", "failed", "timedout"} \cup Waiting,
             Boot(p, stage)
      PROVE  /\ boot' \in [Procs -> {"down", "look", "leased", "ready", "failed", "timedout"} \cup Waiting]
             /\ patience' \in [Procs -> -1..WaitMax]
  <2>1. boot' \in [Procs -> {"down", "look", "leased", "ready", "failed", "timedout"} \cup Waiting]
    BY <1>b DEF Boot, BootVarTypes
  <2>2. patience[p] \in -1..WaitMax
    BY DEF BootVarTypes
  <2>3. PICK n \in -1..WaitMax : patience' = [patience EXCEPT ![p] = n]
    BY <1>b, <1>c, <2>2 DEF Boot
  <2> QED
    BY <2>1, <2>3 DEF BootVarTypes
<1>1. ASSUME NEW p \in Procs, Start(p) \/ Look(p) \/ Wait(p) \/ TryFails(p) \/ GiveUp(p) PROVE BootVarTypes'
  <2>1. PICK stage \in {"down", "look", "leased", "ready", "failed", "timedout"} \cup Waiting : Boot(p, stage)
    BY <1>1 DEF Start, Look, Wait, TryFails, GiveUp, Waiting
  <2>2. UNCHANGED <<keys, fn, ok, over, late>>
    BY <1>1 DEF Start, Look, Wait, TryFails, GiveUp
  <2> QED
    BY <1>0, <1>b, <2>1, <2>2 DEF BootVarTypes
<1>2. ASSUME NEW p \in Procs, Try(p) \/ Conflict(p) \/ Beat(p) PROVE BootVarTypes'
  BY <1>0, <1>2 DEF Try, Conflict, Beat, bootVars, BootVarTypes
<1>3. ASSUME NEW p \in Procs, Enter(p) PROVE BootVarTypes'
  <2>1. Boot(p, "leased") /\ fn' = [fn EXCEPT ![p] = "check"] /\ UNCHANGED <<keys, ok, over, late>>
    BY <1>3 DEF Enter
  <2> QED
    BY <1>0, <1>b, <2>1 DEF BootVarTypes
<1>4. ASSUME NEW p \in Procs, Check(p) PROVE BootVarTypes'
  BY <1>0, <1>4 DEF Check, CheckThen, FnEnds, BootVarTypes
<1>5. ASSUME NEW p \in Procs, Create(p) PROVE BootVarTypes'
  <2>1. PICK answered \in BOOLEAN : FnEnds(p, answered)
    BY <1>5 DEF Create
  <2>2. fn' \in [Procs -> {"none", "check", "create", "end"}] /\ ok' \in [Procs -> BOOLEAN]
    BY <2>1 DEF FnEnds, BootVarTypes
  <2>3. UNCHANGED <<boot, patience, over>> /\ (keys' = keys \/ keys' = keys + 1)
    BY <1>5 DEF Create
  <2>4. keys' \in Nat
    BY <2>3 DEF BootVarTypes
  <2>5. late' \in BOOLEAN
    <3>1. (late \/ over[p]) \in BOOLEAN /\ late \in BOOLEAN
      BY DEF BootVarTypes
    <3>2. late' = late \/ late' = (late \/ over[p])
      BY <1>5, Zenon DEF Create
    <3> QED
      BY <3>1, <3>2, Zenon
  <2> QED
    BY <1>0, <2>2, <2>3, <2>4, <2>5 DEF BootVarTypes
<1>6. ASSUME NEW p \in Procs, Return(p) \/ Join(p) PROVE BootVarTypes'
  BY <1>0, <1>6 DEF Return, Join, BootVarTypes
<1>7. ASSUME NEW p \in Procs, Leave(p) PROVE BootVarTypes'
  <2>1. PICK stage \in {"ready", "failed"} : Boot(p, stage)
    BY <1>7 DEF Leave
  <2>2. ok' = [ok EXCEPT ![p] = TRUE] /\ UNCHANGED <<keys, fn, over, late>>
    BY <1>7 DEF Leave
  <2> QED
    BY <1>0, <1>b, <2>1, <2>2 DEF BootVarTypes
<1>8. ASSUME NEW p \in Procs, Die(p) PROVE BootVarTypes'
  <2>1. Boot(p, "down") /\ fn' = [fn EXCEPT ![p] = "none"] /\ ok' = [ok EXCEPT ![p] = TRUE]
        /\ over' = [over EXCEPT ![p] = FALSE] /\ UNCHANGED <<keys, late>>
    BY <1>8 DEF Die
  <2> QED
    BY <1>0, <1>b, <2>1 DEF BootVarTypes
<1>9. CASE Pass
  <2>1. boot' \in [Procs -> {"down", "look", "leased", "ready", "failed", "timedout"} \cup Waiting]
    BY <1>9 DEF Pass, BootVarTypes, Waiting
  <2>2. patience' \in [Procs -> -1..WaitMax]
    <3>1. \A p \in Procs : patience[p] \in -1..WaitMax /\ (patience[p] >= 0 => patience[p] - 1 \in -1..WaitMax)
      BY WaitConstants DEF BootVarTypes
    <3> QED
      BY <3>1, <1>9 DEF Pass
  <2>3. over' \in [Procs -> BOOLEAN] /\ UNCHANGED <<keys, fn, ok, late>>
    BY <1>9 DEF Pass, BootVarTypes
  <2> QED
    BY <1>0, <2>1, <2>2, <2>3 DEF BootVarTypes
<1> QED
  BY <1>1, <1>2, <1>3, <1>4, <1>5, <1>6, <1>7, <1>8, <1>9 DEF Next, BootStep

LEMMA BootSets ==
  ASSUME BootVarTypes, NEW p \in Procs, NEW stage, Boot(p, stage)
  PROVE  /\ boot'[p] = stage /\ \A q \in Procs \ {p} : boot'[q] = boot[q] /\ patience'[q] = patience[q]
         /\ stage = "exclusive" => patience'[p] = WaitMax
         /\ stage = "sleep" => patience'[p] = patience[p]
BY DEF Boot, BootVarTypes

LEMMA BootFacts ==
  ASSUME BootInd
  PROVE  LeaseInv /\ LeaseTypeOK /\ BootVarTypes /\ NoRow /\ Stages /\ KeyFound /\ NoCallWhenOff
BY DEF BootInd, LeaseInv, CoverInv

\* outside the lease
LEMMA LookKept ==
  ASSUME BootInd, LeaseInv', BootVarTypes', Observe, NEW p \in Procs, Start(p) \/ Look(p) \/ GiveUp(p)
  PROVE  BootInd'
<1>0. LeaseTypeOK /\ BootVarTypes /\ NoRow /\ Stages /\ KeyFound /\ keys \in Nat /\ leaseLeft \in Int /\ leaseLeft <= TTL
  BY BootFacts, Numbers DEF BootVarTypes, LeaseTypeOK
<1>1. UNCHANGED <<holder, leaseLeft, run, stmt, callAge, keys, fn, ok>>
  BY DEF Start, Look, GiveUp, leaseVars
<1>2. NoRow' /\ RowKept /\ keys' >= keys
  BY <1>0, <1>1 DEF NoRow, RowKept
<1>3. boot[p] \in {"down", "failed", "timedout", "look", "sleep"}
  BY DEF Start, Look, GiveUp
<1>4. run[p] = "off" /\ fn[p] = "none"
  <2>1. run[p] \in {"off", "acquire", "running", "lost", "returned"}
    BY <1>0 DEF LeaseTypeOK
  <2> QED
    BY <1>0, <1>3, <2>1 DEF Stages
<1>5. PICK stage \in {"look", "ready", "exclusive", "failed"} :
        Boot(p, stage) /\ (stage = "ready" => keys > 0)
  BY DEF Start, Look, GiveUp
<1>6. /\ boot'[p] = stage /\ \A q \in Procs \ {p} : boot'[q] = boot[q] /\ patience'[q] = patience[q]
      /\ stage = "exclusive" => patience'[p] = WaitMax
  BY <1>0, <1>5, BootSets
<1>7. WaitKnown(p)' /\ TimedOutKnown(p)'
  <2>1. CASE stage # "exclusive"
    BY <1>6, <2>1, NotWaiting DEF Waiting
  <2>2. CASE stage = "exclusive"
    <3>1. Waited(p)' = 0
      BY <1>6, <2>2, WaitConstants DEF Waited
    <3> QED
      BY <1>0, <1>1, <1>4, <1>6, <2>2, <3>1, Numbers DEF WaitKnown, TimedOutKnown
  <2> QED
    BY <2>1, <2>2
<1> QED
  BY <1>0, <1>1, <1>2, <1>4, <1>5, <1>6, <1>7, OneBoots

\* under the lease: the replica does not wait, and its stage is what it was
LEMMA UnderLeaseKept ==
  ASSUME BootInd, LeaseInv', BootVarTypes', Observe, NEW p \in Procs,
         Check(p) \/ Create(p) \/ Return(p) \/ Join(p) \/ Beat(p)
  PROVE  BootInd'
<1>0. LeaseTypeOK /\ BootVarTypes /\ NoRow /\ Stages /\ KeyFound /\ keys \in Nat /\ leaseLeft \in Int
  BY BootFacts DEF BootVarTypes, LeaseTypeOK
<1>1. UNCHANGED <<boot, patience>>
  BY DEF Check, CheckThen, Create, Return, Join, Beat, bootVars
<1>2. boot[p] = "leased" /\ boot'[p] = "leased"
  BY <1>0, <1>1 DEF Stages, Check, CheckThen, Create, Return, Join, Beat, RenewalCut
<1>3. WaitKnown(p)' /\ TimedOutKnown(p)'
  BY <1>2, NotWaiting DEF Waiting
<1>4. CASE Check(p) \/ Create(p)
  <2>1. UNCHANGED <<holder, leaseLeft, run, stmt, callAge>>
    BY <1>4 DEF Check, CheckThen, Create, leaseVars
  <2>2. NoRow' /\ RowKept
    BY <1>0, <2>1 DEF NoRow, RowKept
  <2>3. fn[p] # "none" /\ run[p] \in {"running", "lost"}
    BY <1>0, <1>4 DEF Stages, Check, CheckThen, Create
  <2>4. keys' \in Nat /\ keys' >= keys
    <3>1. keys' = keys \/ keys' = keys + 1
      BY <1>4 DEF Check, CheckThen, Create
    <3> QED
      BY <1>0, <3>1
  <2>5. /\ \A q \in Procs \ {p} : ok'[q] = ok[q] /\ fn'[q] = fn[q]
        /\ ok'[p] /\ fn'[p] = "end" => keys' > 0
    <3>0. ok \in [Procs -> BOOLEAN] /\ fn \in [Procs -> {"none", "check", "create", "end"}]
      BY <1>0 DEF BootVarTypes
    <3>1. \/ fn' = [fn EXCEPT ![p] = "create"] /\ UNCHANGED ok
          \/ \E good \in BOOLEAN : FnEnds(p, good) /\ (good => keys' > 0)
      <4>1. CASE Check(p)
        BY <4>1 DEF Check, CheckThen
      <4>2. CASE Create(p)
        <5>1. \/ keys' = keys + 1 /\ \E good \in BOOLEAN : FnEnds(p, good)
              \/ FnEnds(p, FALSE)
          BY <4>2 DEF Create
        <5>2. keys' = keys + 1 => keys' > 0
          BY <1>0
        <5> QED
          BY <5>1, <5>2
      <4> QED
        BY <1>4, <4>1, <4>2
    <3> QED
      BY <3>0, <3>1 DEF FnEnds
  <2> QED
    BY <1>1, <1>2, <1>3, <2>1, <2>2, <2>3, <2>4, <2>5, OneBoots
<1>5. CASE Return(p) \/ Join(p) \/ Beat(p)
  <2>1. AcquireStep(p) \/ BeatStep(p) \/ EndStep(p)
    BY <1>5 DEF Return, Join, Beat, AcquireStep, EndStep
  <2>2. NoRow' /\ RowKept /\ \A q \in Procs \ {p} : run'[q] = run[q] /\ stmt'[q] = stmt[q] /\ callAge'[q] = callAge[q]
    BY <1>0, <2>1, RowStep, OthersRun, OthersCall
  <2>3. UNCHANGED keys /\ keys' >= keys
    BY <1>0, <1>5 DEF Return, Join, Beat, bootVars
  <2>4. \A q \in Procs \ {p} : ok'[q] = ok[q] /\ fn'[q] = fn[q]
    BY <1>0, <1>5 DEF Return, Join, Beat, bootVars, BootVarTypes
  <2>5. CASE Return(p)
    <3>1. run'[p] = "returned" /\ fn'[p] = "none" /\ fn[p] = "end" /\ (ok'[p] => ok[p])
      BY <1>0, <2>5 DEF Return, FnReturns, BootVarTypes, LeaseTypeOK
    <3>2. ok'[p] => keys' > 0
      BY <1>0, <2>3, <3>1 DEF KeyFound
    <3> QED
      BY <1>1, <1>2, <1>3, <2>2, <2>3, <2>4, <3>1, <3>2, OneBoots
  <2>6. CASE Join(p)
    <3>1. run[p] = "returned" /\ run'[p] = "returned" /\ fn'[p] = fn[p] /\ (ok'[p] => ok[p])
      BY <1>0, <2>6 DEF Join, RenewalCut, BootVarTypes
    <3>2. fn'[p] = "none" /\ (ok'[p] => keys' > 0)
      BY <1>0, <2>3, <3>1 DEF KeyFound, Stages
    <3> QED
      BY <1>1, <1>2, <1>3, <2>2, <2>3, <2>4, <3>1, <3>2, OneBoots
  <2>7. CASE Beat(p)
    <3>1. run'[p] \in {"running", "lost"} /\ UNCHANGED <<fn, ok>>
      BY <1>0, <2>7 DEF Beat, bootVars, BeatStep, InsertConflict, Heartbeat, Renewed, TakenOver, RenewalFails, LeaseTypeOK
    <3>2. ok'[p] /\ fn'[p] = "end" => keys' > 0
      BY <1>0, <2>3, <3>1 DEF KeyFound
    <3> QED
      BY <1>1, <1>2, <1>3, <2>2, <2>3, <2>4, <3>1, <3>2, OneBoots
  <2> QED
    BY <1>5, <2>5, <2>6, <2>7
<1> QED
  BY <1>4, <1>5

\* the run begins, or is over
LEMMA EnterOrLeaveKept ==
  ASSUME BootInd, LeaseInv', BootVarTypes', Observe, NEW p \in Procs,
         Enter(p) \/ TryFails(p) \/ Leave(p) \/ Die(p)
  PROVE  BootInd'
<1>0. LeaseTypeOK /\ BootVarTypes /\ NoRow /\ Stages /\ KeyFound /\ keys \in Nat /\ leaseLeft \in Int
  BY BootFacts DEF BootVarTypes, LeaseTypeOK
<1>1. AcquireStep(p) \/ EndStep(p) \/ Crash(p)
  BY DEF Enter, TryFails, Leave, Die, AcquireStep, EndStep
<1>2. NoRow' /\ RowKept /\ \A q \in Procs \ {p} : run'[q] = run[q] /\ stmt'[q] = stmt[q] /\ callAge'[q] = callAge[q]
  BY <1>0, <1>1, RowStep, OthersRun, OthersCall
<1>3. UNCHANGED keys /\ keys' >= keys
  BY <1>0 DEF Enter, TryFails, Leave, Die
<1>4. \A q \in Procs \ {p} : ok'[q] = ok[q] /\ fn'[q] = fn[q]
  BY <1>0 DEF Enter, TryFails, Leave, Die, BootVarTypes
<1>5. CASE Enter(p)
  <2>1. /\ boot'[p] = "leased" /\ run'[p] = "running" /\ fn'[p] = "check"
        /\ \A q \in Procs \ {p} : boot'[q] = boot[q] /\ patience'[q] = patience[q]
    BY <1>0, <1>5, BootSets DEF Enter, Won, BootVarTypes, LeaseTypeOK
  <2>2. WaitKnown(p)' /\ TimedOutKnown(p)'
    BY <2>1, NotWaiting DEF Waiting
  <2> QED
    BY <1>2, <1>3, <1>4, <2>1, <2>2, OneBoots
<1>6. CASE TryFails(p) \/ Leave(p) \/ Die(p)
  <2>1. PICK stage \in {"failed", "down", "ready"} : Boot(p, stage) /\ (stage = "ready" => ok[p] /\ run[p] = "returned")
    BY <1>6 DEF TryFails, Leave, Die, Release
  <2>2. boot'[p] = stage /\ \A q \in Procs \ {p} : boot'[q] = boot[q] /\ patience'[q] = patience[q]
    BY <1>0, <2>1, BootSets
  <2>3. run'[p] = "off"
    BY <1>0, <1>6 DEF TryFails, Leave, Die, AcquireFails, Release, Crash, LeaseTypeOK
  <2>4. fn'[p] = "none"
    <3>1. CASE Die(p)
      BY <1>0, <3>1 DEF Die, BootVarTypes
    <3>2. CASE TryFails(p) \/ Leave(p)
      <4>1. UNCHANGED fn /\ run[p] \in {"acquire", "returned"}
        BY <3>2 DEF TryFails, Leave, AcquireFails, Release
      <4> QED
        BY <1>0, <4>1 DEF Stages
    <3> QED
      BY <1>6, <3>1, <3>2
  <2>5. boot'[p] = "ready" => keys' > 0
    BY <1>0, <1>3, <2>1, <2>2 DEF KeyFound
  <2>6. WaitKnown(p)' /\ TimedOutKnown(p)'
    BY <2>2, NotWaiting DEF Waiting
  <2> QED
    BY <1>2, <1>3, <1>4, <2>2, <2>3, <2>4, <2>5, <2>6, OneBoots
<1> QED
  BY <1>5, <1>6

\* an Acquire of a replica that waits: it begins, its INSERT finds a row, it is beaten
LEMMA PollKept ==
  ASSUME PollsInTime, BootInd, LeaseInv', BootVarTypes', Observe, NEW p \in Procs, Try(p) \/ Conflict(p) \/ Wait(p)
  PROVE  BootInd'
<1>0. LeaseTypeOK /\ BootVarTypes /\ NoRow /\ Stages /\ KeyFound /\ keys \in Nat /\ leaseLeft \in Int
  BY BootFacts DEF BootVarTypes, LeaseTypeOK
<1>1. AcquireStep(p)
  BY DEF Try, Conflict, Wait, AcquireStep
<1>2. NoRow' /\ \A q \in Procs \ {p} : run'[q] = run[q] /\ stmt'[q] = stmt[q] /\ callAge'[q] = callAge[q]
  BY <1>0, <1>1, RowStep, OthersRun, OthersCall
<1>3. UNCHANGED <<keys, ok, fn, holder, leaseLeft>>
  BY DEF Try, Conflict, Wait, bootVars, StartRun, InsertConflict, Beaten, rowVars
<1>4. RowKept /\ keys' >= keys
  BY <1>0, <1>3 DEF RowKept
<1>5. boot[p] = "exclusive" /\ run[p] \in {"off", "acquire"} /\ fn[p] = "none" /\ WaitKnown(p)
  BY <1>0 DEF Try, Conflict, Wait, StartRun, Beaten, Stages, BootInd
<1>6. patience[p] \in Int /\ -1 <= patience[p] /\ Waited(p) \in Int /\ callAge[p] \in Int /\ 0 <= callAge[p] /\ callAge[p] <= MaxHang
  BY <1>0, WaitConstants DEF BootVarTypes, LeaseTypeOK, Waited
<1>7. CASE Try(p) \/ Conflict(p)
  <2>1. UNCHANGED <<boot, patience>> /\ run'[p] = "acquire" /\ stmt'[p] # "none"
    BY <1>0, <1>7 DEF Try, Conflict, bootVars, StartRun, InsertConflict, Call, LeaseTypeOK
  <2>2. ASSUME ~rewritten'[p] PROVE WaitKnown(p)'
    <3>1. ~rewritten[p] /\ Waited(p)' = Waited(p)
      BY <1>5, <2>1, <2>2, Observed DEF Waited
    <3>2. CASE Try(p)
      <4>1. run[p] = "off" /\ callAge'[p] = 0 /\ stmt'[p] = "insert"
        BY <1>0, <3>2 DEF Try, StartRun, Call, LeaseTypeOK
      <4> QED
        BY <1>3, <1>5, <1>6, <2>1, <3>1, <4>1 DEF WaitKnown, Waiting
    <3>3. CASE Conflict(p)
      <4>1. run[p] = "acquire" /\ callAge'[p] = callAge[p] /\ (stmt[p] = "insert" => holder # Nobody)
        BY <3>3 DEF Conflict, InsertConflict, Matches
      <4> QED
        BY <1>3, <1>5, <1>6, <2>1, <3>1, <4>1 DEF WaitKnown, Waiting
    <3> QED
      BY <1>7, <3>2, <3>3
  <2>3. WaitKnown(p)' /\ TimedOutKnown(p)'
    BY <1>5, <2>1, <2>2 DEF WaitKnown, TimedOutKnown
  <2> QED
    BY <1>2, <1>3, <1>4, <1>5, <2>1, <2>3, OneBoots
<1>8. CASE Wait(p)
  <2>1. run[p] = "acquire" /\ run'[p] = "off" /\ stmt[p] = "update" /\ ~Matches(p)
    BY <1>0, <1>8 DEF Wait, Beaten, LeaseTypeOK
  <2>2. PICK stage \in {"timedout", "sleep"} :
          Boot(p, stage) /\ (stage = "timedout" <=> patience[p] < 0)
    BY <1>8 DEF Wait
  <2>3. /\ boot'[p] = stage /\ \A q \in Procs \ {p} : boot'[q] = boot[q] /\ patience'[q] = patience[q]
        /\ stage = "sleep" => patience'[p] = patience[p]
    BY <1>0, <2>2, BootSets
  <2>4. ASSUME ~rewritten[p] PROVE stage = "sleep" /\ (Waited(p) > TTL + MaxHang => holder = Nobody)
    <3>1. ~(Waited(p) - callAge[p] > TTL + MaxHang + 1)
      BY <1>5, <2>1, <2>4 DEF WaitKnown, Waiting
    <3>2. ~(patience[p] < 0)
      BY <1>6, <3>1, Numbers, WaitConstants DEF Waited, PollsInTime
    <3>3. ASSUME Waited(p) > TTL + MaxHang, holder # Nobody PROVE FALSE
      <4>1. leaseLeft <= TTL - Waited(p) \/ leaseLeft <= -MaxHang - 1
        BY <1>5, <2>4, <3>3 DEF WaitKnown, Waiting
      <4>2. leaseLeft < -callAge[p]
        BY <1>0, <1>6, <3>3, <4>1, Numbers
      <4> QED
        BY <2>1, <3>3, <4>2 DEF Matches, Expired
    <3> QED
      BY <2>2, <3>2, <3>3
  <2>5. rewritten[p] => rewritten'[p]
    BY <2>3, Observed
  <2>6. TimedOutKnown(p)'
    BY <2>3, <2>4, <2>5 DEF TimedOutKnown
  <2>7. WaitKnown(p)'
    <3> SUFFICES ASSUME stage = "sleep", ~rewritten'[p] PROVE WaitKnown(p)'
      BY <2>3, <2>2 DEF WaitKnown, Waiting
    <3>1. ~rewritten[p] /\ Waited(p)' = Waited(p)
      BY <2>3, <2>5 DEF Waited
    <3> QED
      BY <1>3, <1>5, <2>1, <2>3, <2>4, <3>1 DEF WaitKnown, Waiting
  <2> QED
    BY <1>2, <1>3, <1>4, <1>5, <2>1, <2>3, <2>6, <2>7, OneBoots
<1> QED
  BY <1>7, <1>8

LEMMA PassKept ==
  ASSUME PollsInTime, BootInd, LeaseInv', BootVarTypes', Observe, Pass
  PROVE  BootInd'
<1>0. LeaseTypeOK /\ LeaseTypeOK' /\ BootVarTypes /\ NoRow /\ Stages /\ KeyFound /\ leaseLeft \in Int
  BY BootFacts DEF LeaseTypeOK, LeaseInv, CoverInv
<1>1. /\ UNCHANGED <<holder, run, stmt, keys, fn, ok>>
      /\ leaseLeft' = IF leaseLeft > -MaxHang - 1 THEN leaseLeft - 1 ELSE leaseLeft
      /\ callAge' = [p \in Procs |-> IF stmt[p] # "none" THEN callAge[p] + 1 ELSE callAge[p]]
      /\ boot' = [p \in Procs |-> IF boot[p] = "sleep" THEN "exclusive" ELSE boot[p]]
      /\ patience' = [p \in Procs |-> IF boot[p] \in Waiting /\ patience[p] >= 0
                                      THEN patience[p] - 1 ELSE patience[p]]
      /\ \A p \in Procs : ~(boot[p] = "exclusive" /\ run[p] = "off")
  BY DEF Pass, Tick
<1>2. leaseLeft' \in Int /\ leaseLeft' <= leaseLeft /\ (leaseLeft' = leaseLeft - 1 \/ leaseLeft <= -MaxHang - 1)
  BY <1>0, <1>1, Numbers
<1>3. NoRow'
  BY <1>0, <1>1, <1>2 DEF NoRow
<1>4. Stages' /\ KeyFound'
  BY <1>0, <1>1 DEF Stages, KeyFound
<1>5. ASSUME NEW p \in Procs PROVE WaitKnown(p)' /\ TimedOutKnown(p)'
  <2>0. WaitKnown(p) /\ TimedOutKnown(p)
    BY DEF BootInd
  <2>1. TimedOutKnown(p)'
    BY <1>1, <2>0, Observed DEF TimedOutKnown
  <2>2. ASSUME boot[p] \in Waiting, ~rewritten'[p] PROVE WaitKnown(p)'
    <3>1. boot'[p] = "exclusive" /\ ~rewritten[p]
      BY <1>1, <2>2, Observed DEF Waiting
    <3>2. patience[p] \in Int /\ -1 <= patience[p] /\ callAge[p] \in Int /\ 0 <= callAge[p] /\ callAge'[p] <= MaxHang
          /\ callAge'[p] \in Int
      BY <1>0, WaitConstants DEF BootVarTypes, LeaseTypeOK
    <3>3. patience'[p] = IF patience[p] >= 0 THEN patience[p] - 1 ELSE patience[p]
      BY <1>1, <2>2
    <3>4. /\ Waited(p) \in Int /\ Waited(p)' \in Int
          /\ Waited(p)' = Waited(p) + 1 \/ (Waited(p)' = Waited(p) /\ Waited(p) = WaitMax + 1)
      BY <3>2, <3>3, WaitConstants DEF Waited
    <3>5. holder' # Nobody => leaseLeft' <= TTL - Waited(p)' \/ leaseLeft' <= -MaxHang - 1
      <4> SUFFICES ASSUME holder # Nobody PROVE leaseLeft' <= TTL - Waited(p)' \/ leaseLeft' <= -MaxHang - 1
        BY <1>1
      <4>1. leaseLeft <= TTL - Waited(p) \/ leaseLeft <= -MaxHang - 1
        BY <2>0, <2>2, <3>1 DEF WaitKnown
      <4> QED
        BY <1>0, <1>2, <3>4, <4>1, Numbers, WaitConstants DEF PollsInTime
    <3>6. CASE boot[p] = "sleep"
      <4>1. run[p] = "off"
        <5>1. run[p] \in {"off", "acquire", "running", "lost", "returned"}
          BY <1>0 DEF LeaseTypeOK
        <5> QED
          BY <1>0, <3>6, <5>1 DEF Stages
      <4>2. Waited(p)' > TTL + MaxHang + 1 => Waited(p) > TTL + MaxHang
        BY <3>4, Numbers, WaitConstants DEF PollsInTime
      <4> QED
        BY <1>1, <2>0, <2>2, <3>1, <3>5, <3>6, <4>1, <4>2 DEF WaitKnown
    <3>7. CASE boot[p] = "exclusive"
      <4>1. run[p] = "acquire"
        <5>1. run[p] \in {"off", "acquire", "running", "lost", "returned"}
          BY <1>0 DEF LeaseTypeOK
        <5> QED
          BY <1>0, <1>1, <3>7, <5>1 DEF Stages
      <4>2. callAge'[p] = callAge[p] + 1 \/ stmt[p] = "none"
        BY <1>1
      <4>3. stmt[p] # "none"
        BY <1>0, <4>1 DEF Stages
      <4>4. Waited(p)' - callAge'[p] > TTL + MaxHang + 1 => Waited(p) - callAge[p] > TTL + MaxHang + 1
        BY <3>2, <3>4, <4>2, <4>3, Numbers, WaitConstants DEF PollsInTime
      <4> QED
        BY <1>1, <2>0, <2>2, <3>1, <3>5, <3>7, <4>1, <4>4 DEF WaitKnown
    <3> QED
      BY <2>2, <3>6, <3>7 DEF Waiting
  <2>3. boot'[p] \in Waiting => boot[p] \in Waiting
    BY <1>1 DEF Waiting
  <2> QED
    BY <2>1, <2>2, <2>3 DEF WaitKnown
<1> QED
  BY <1>3, <1>4, <1>5 DEF BootInd

LEMMA BootIndKept == PollsInTime /\ BootInd /\ [Next]_vars => BootInd'
<1> SUFFICES ASSUME PollsInTime, BootInd, [Next]_vars PROVE BootInd'
  OBVIOUS
<1>1. LeaseInv'
  BY BootIsLease, InvNext DEF BootInd
<1>2. CASE UNCHANGED vars
  BY <1>1, <1>2 DEF vars, leaseVars, bootVars, BootInd, BootVarTypes, NoRow, Stages, KeyFound, WaitKnown, TimedOutKnown, Waited
<1>3. CASE Next
  <2>1. BootVarTypes' /\ Observe
    BY <1>3, BootTypesKept, BootFacts DEF Next
  <2>2. ASSUME NEW p \in Procs, Start(p) \/ BootStep(p) \/ GiveUp(p) \/ Beat(p) \/ Die(p) PROVE BootInd'
    BY <1>1, <2>1, <2>2, LookKept, UnderLeaseKept, EnterOrLeaveKept, PollKept DEF BootStep
  <2> QED
    BY <1>1, <1>3, <2>1, <2>2, PassKept DEF Next
<1> QED
  BY <1>2, <1>3

(* Whatever replicas crash, fail or lose their lease, one that reports     *)
(* ready has a key, and one that times out waited behind a lease that was  *)
(* taken or renewed meanwhile (lease.go, leaseWaitMax), given that two     *)
(* polls fit between the end of a lease and the deadline.                  *)
THEOREM BootInvHolds == PollsInTime => (Spec => []BootInv)
<1> HAVE PollsInTime
<1>1. BootInd /\ [Next]_vars => BootInd'
  BY BootIndKept
<1>2. BootInd => BootInv
  BY DEF BootInd, LeaseInv, CoverInv, BootVarTypes, KeyFound, TimedOutKnown,
         BootInv, BootTypeOK, ReadyMeansKey, TimeoutMeansRewritten
<1> QED
  BY BootIndInit, <1>1, <1>2, PTL DEF Spec

=============================================================================
