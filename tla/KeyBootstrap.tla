---------------------------- MODULE KeyBootstrap ----------------------------
(***************************************************************************)
(* Replicas that boot together and agree on one signing key:               *)
(* EnsureActiveKey (auth/jwt.go) inside RunExclusive (store/lease.go), on  *)
(* top of the leased runs of Lease.                                        *)
(***************************************************************************)
EXTENDS Lease

CONSTANTS
    WaitMax   \* leaseWaitMax

ASSUME WaitConstants == WaitMax \in Nat /\ WaitMax > TTL

VARIABLES
    keys,       \* how many active keys there are
    boot,       \* where EnsureActiveKey is
    fn,         \* the function that runs under the lease
    ok,         \* whether the run has gone well so far
    patience,   \* the deadline of RunExclusive
    \* history
    rewritten,  \* the lease was taken or renewed while this replica waited
    over,       \* the run has been past its lease
    late        \* a key was minted by such a run

bootVars == <<keys, boot, fn, ok, patience, over, late>>
stepVars == <<leaseVars, bootVars>>
vars == <<leaseVars, bootVars, rewritten>>

Waiting == {"exclusive", "sleep"}

(* The types of the variables of a boot, on top of the lease's. *)
BootTypeOK ==
    /\ LeaseTypeOK
    /\ keys \in Nat
    /\ boot \in [Procs -> {"down", "look", "leased", "ready", "failed", "timedout"} \cup Waiting]
    /\ fn \in [Procs -> {"none", "check", "create", "end"}]
    /\ ok \in [Procs -> BOOLEAN]
    /\ patience \in [Procs -> -1..WaitMax]
    /\ rewritten \in [Procs -> BOOLEAN] /\ over \in [Procs -> BOOLEAN] /\ late \in BOOLEAN

Init ==
    /\ LeaseInit
    /\ keys = 0
    /\ boot = [p \in Procs |-> "down"]
    /\ fn = [p \in Procs |-> "none"]
    /\ ok = [p \in Procs |-> TRUE]
    /\ patience = [p \in Procs |-> 0]
    /\ rewritten = [p \in Procs |-> FALSE]
    /\ over = [p \in Procs |-> FALSE]
    /\ late = FALSE

-----------------------------------------------------------------------------
\* the deadline is set when RunExclusive starts
Boot(p, stage) ==
    /\ boot' = [boot EXCEPT ![p] = stage]
    /\ patience' = [patience EXCEPT ![p] = CASE stage = "exclusive" -> WaitMax
                                             [] stage = "sleep" -> @
                                             [] OTHER -> 0]

\* a replica comes up, or comes up again after a boot that failed
Start(p) ==
    /\ boot[p] \in {"down", "failed", "timedout"}
    /\ Boot(p, "look")
    /\ UNCHANGED <<leaseVars, keys, fn, ok, over, late>>

\* hasActiveKey before any lease: a key, no key, or an error
Look(p) ==
    /\ boot[p] = "look"
    /\ \/ keys > 0 /\ Boot(p, "ready")
       \/ keys = 0 /\ Boot(p, "exclusive")
       \/ Boot(p, "failed")
    /\ UNCHANGED <<leaseVars, keys, fn, ok, over, late>>

-----------------------------------------------------------------------------
(* RunExclusive *)

Try(p) ==
    /\ boot[p] = "exclusive"
    /\ StartRun(p)
    /\ UNCHANGED bootVars

Enter(p) ==
    /\ Won(p)
    /\ Boot(p, "leased")
    /\ fn' = [fn EXCEPT ![p] = "check"]
    /\ UNCHANGED <<keys, ok, over, late>>

Conflict(p) ==
    /\ run[p] = "acquire" /\ InsertConflict(p)
    /\ UNCHANGED bootVars

\* mutant: there is no deadline
WaitForever(p) ==
    /\ Beaten(p)
    /\ Boot(p, "sleep")
    /\ UNCHANGED <<keys, fn, ok, over, late>>

\* ran is false: sleep for leasePoll, or time out past the deadline
Wait(p) ==
    /\ Beaten(p)
    /\ Boot(p, IF patience[p] < 0 THEN "timedout" ELSE "sleep")
    /\ UNCHANGED <<keys, fn, ok, over, late>>

TryFails(p) ==
    /\ AcquireFails(p)
    /\ Boot(p, "failed")
    /\ UNCHANGED <<keys, fn, ok, over, late>>

-----------------------------------------------------------------------------
(* The function under the lease. A call whose context is cancelled fails.  *)

FnEnds(p, success) ==
    /\ fn' = [fn EXCEPT ![p] = "end"]
    /\ ok' = [ok EXCEPT ![p] = success]

\* hasActiveKey under the lease: no key, a key, or an error
CheckThen(p, onError) ==
    /\ fn[p] = "check"
    /\ \/ run[p] = "running" /\ keys = 0 /\ fn' = [fn EXCEPT ![p] = "create"] /\ UNCHANGED ok
       \/ run[p] = "running" /\ keys > 0 /\ FnEnds(p, TRUE)
       \/ FnEnds(p, onError)
    /\ UNCHANGED <<leaseVars, keys, boot, patience, over, late>>

\* mutant: the key is not looked for again
CheckSkipped(p) ==
    /\ fn[p] = "check"
    /\ fn' = [fn EXCEPT ![p] = "create"]
    /\ UNCHANGED <<leaseVars, ok, keys, boot, patience, over, late>>

\* mutant: a failed lookup is taken for success
CheckSwallowsError(p) == CheckThen(p, TRUE)

Check(p) == CheckThen(p, FALSE)

\* SigningKeys.Create: done, or failed with or without reaching the database
Create(p) ==
    /\ fn[p] = "create"
    /\ \/ /\ run[p] = "running"
          /\ keys' = keys + 1
          /\ late' = (late \/ over[p])
          /\ \E answered \in BOOLEAN : FnEnds(p, answered)
       \/ FnEnds(p, FALSE) /\ UNCHANGED <<keys, late>>
    /\ UNCHANGED <<leaseVars, boot, patience, over>>

\* a lost lease turns the run into an error, whatever fn returned
Return(p) ==
    /\ fn[p] = "end"
    /\ FnReturns(p)
    /\ ok' = [ok EXCEPT ![p] = @ /\ run[p] = "running"]
    /\ fn' = [fn EXCEPT ![p] = "none"]
    /\ over' = [over EXCEPT ![p] = FALSE]
    /\ UNCHANGED <<keys, boot, patience, late>>

\* the heartbeat is waited for; its last renewal may still report the lease lost
Join(p) ==
    /\ RenewalCut(p)
    /\ \E held \in BOOLEAN : ok' = [ok EXCEPT ![p] = @ /\ held]
    /\ UNCHANGED <<keys, boot, fn, patience, over, late>>

Leave(p) ==
    /\ Release(p)
    /\ Boot(p, IF ok[p] THEN "ready" ELSE "failed")
    /\ ok' = [ok EXCEPT ![p] = TRUE]
    /\ UNCHANGED <<keys, fn, over, late>>

Die(p) ==
    /\ Crash(p)
    /\ Boot(p, "down")
    /\ fn' = [fn EXCEPT ![p] = "none"]
    /\ ok' = [ok EXCEPT ![p] = TRUE]
    /\ over' = [over EXCEPT ![p] = FALSE]
    /\ UNCHANGED <<keys, late>>

Beat(p) ==
    /\ run[p] = "running" /\ (InsertConflict(p) \/ BeatStep(p))
    /\ UNCHANGED bootVars

\* ctx.Done() while waiting
GiveUp(p) ==
    /\ boot[p] = "sleep"
    /\ Boot(p, "failed")
    /\ UNCHANGED <<leaseVars, keys, fn, ok, over, late>>

\* a waiter polls at every tick
Pass ==
    /\ \A p \in Procs : ~(boot[p] = "exclusive" /\ run[p] = "off")
    /\ Tick
    /\ boot' = [p \in Procs |-> IF boot[p] = "sleep" THEN "exclusive" ELSE boot[p]]
    /\ patience' = [p \in Procs |-> IF boot[p] \in Waiting /\ patience[p] >= 0
                                      THEN patience[p] - 1 ELSE patience[p]]
    /\ over' = [p \in Procs |-> over[p] \/ (run[p] = "running" /\ left'[p] < 0)]
    /\ UNCHANGED <<keys, fn, ok, late>>

-----------------------------------------------------------------------------
BootStep(p) ==
    \/ Look(p) \/ Try(p) \/ Conflict(p) \/ Enter(p) \/ Wait(p) \/ TryFails(p)
    \/ Check(p) \/ Create(p) \/ Return(p) \/ Join(p) \/ Leave(p)

\* history: rewritten starts afresh with a boot
Observe ==
    rewritten' = [p \in Procs |->
        /\ boot'[p] # "look"
        /\ rewritten[p] \/ (boot[p] \in Waiting /\ holder' # Nobody /\ leaseLeft' > leaseLeft)]

Next ==
    /\ \/ \E p \in Procs : Start(p) \/ BootStep(p) \/ GiveUp(p) \/ Beat(p) \/ Die(p)
       \/ Pass
    /\ Observe

Spec == Init /\ [][Next]_vars

(* A replica that boots keeps going until EnsureActiveKey returns, and so  *)
(* does its heartbeat; database calls return; time passes whatever the     *)
(* replicas do.                                                            *)
FairSpec ==
    /\ Spec
    /\ SF_stepVars(Pass)
    /\ \A p \in Procs : WF_stepVars(BootStep(p)) /\ WF_stepVars(Beat(p))

-----------------------------------------------------------------------------
(* A cold start mints one key (jwt.go: "a cold start mints one key rather  *)
(* than one per replica"), unless a run minted one past its lease.         *)
OneKeyWithinLease == keys <= 1 \/ late

(* Whoever is ready has a key: a lease that is gone is never read as work  *)
(* that is done (lease.go, RunExclusive).                                  *)
ReadyMeansKey == \A p \in Procs : boot[p] = "ready" => keys > 0

\* a poll that begins as the lease lapses, and the one after it, are over in time
PollsInTime == TTL + 2 * MaxHang < WaitMax

(* A replica times out only if another took the lease, or renewed it,      *)
(* while it waited: it outlives a holder that died still holding the lease *)
(* (lease.go, leaseWaitMax).  It holds of calls with PollsInTime: a slower *)
(* one finds the row gone between its INSERT and its UPDATE when there is  *)
(* no time left for another.                                               *)
TimeoutMeansRewritten == \A p \in Procs : boot[p] = "timedout" => rewritten[p]

(* The replicas' state keeps its types; EnsureActiveKey answers neither    *)
(* with nothing to sign with nor, behind a dead holder, with a timeout.    *)
BootInv == BootTypeOK /\ ReadyMeansKey /\ TimeoutMeansRewritten

(* Booting is using the lease as RunLeased does, and so has its properties.*)
ImplementsLease == LeaseSpec

(* A boot comes to an end: no crash, failure or lost lease leaves a        *)
(* replica waiting for ever.                                               *)
BootEnds ==
    \A p \in Procs : boot[p] = "look" ~> boot[p] \in {"ready", "failed", "timedout", "down"}
=============================================================================
