------------------------------- MODULE Lease -------------------------------
(***************************************************************************)
(* Work that must happen once per cluster: RunLeased and its heartbeat     *)
(* (store/lease.go) over the lease row (store/gormstore/lease.go).         *)
(*                                                                         *)
(* Every RunLeased call draws a fresh owner id. The row's owner is kept as *)
(* the process whose current run has that id, or Orphan once the run is    *)
(* over without releasing: nobody matches `owner = ?` any more.            *)
(*                                                                         *)
(* Time is counted as in DeliveryQueue: expires_at is leaseLeft, the local *)
(* variable `expires` is left[p], and a call that is under way carries the *)
(* time since its `now` was read. The clocks of the processes agree.       *)
(***************************************************************************)
EXTENDS Integers, FiniteSets

CONSTANTS
    Procs,
    Nobody,    \* there is no row
    Orphan,    \* the row is owned by a run that is gone
    TTL,
    Every,     \* ttl / leaseRenewDivisor
    MaxHang,   \* longest time an Acquire is under way; the heartbeat bounds its own by Every
    MaxLag,    \* longest time from a tick to the call it leads to
    MaxFaults  \* bound on crashes and failed database calls

ASSUME LeaseConstants ==
    /\ Nobody \notin Procs /\ Orphan \notin Procs /\ Nobody # Orphan
    /\ TTL \in Nat /\ Every \in Nat /\ Every > 0 /\ 3 * Every <= TTL
    /\ MaxHang \in Nat /\ MaxHang <= Every
    /\ MaxLag \in Nat /\ MaxLag < Every
    /\ MaxFaults \in Nat

VARIABLES
    holder, leaseLeft,  \* the row
    run,                \* where RunLeased is
    stmt,               \* the statement of Acquire that is under way
    callAge,            \* time since the call's now was read
    tickIn, due,        \* the heartbeat's ticker: next tick, and the tick in its channel
    left,               \* the heartbeat's expires
    failing,            \* history: the run's latest renewal failed
    faults

rowVars == <<holder, leaseLeft>>
beatVars == <<tickIn, due, left, failing>>
leaseVars == <<holder, leaseLeft, run, stmt, callAge, tickIn, due, left, failing, faults>>

(* The types of the lease row and of the variables of a run. *)
LeaseTypeOK ==
    /\ holder \in Procs \cup {Nobody, Orphan}
    /\ leaseLeft \in (-MaxHang - 1)..TTL
    /\ run \in [Procs -> {"off", "acquire", "running", "lost", "returned"}]
    /\ stmt \in [Procs -> {"none", "insert", "update"}]
    /\ callAge \in [Procs -> 0..MaxHang]
    /\ tickIn \in [Procs -> 1..Every]
    /\ due \in [Procs -> BOOLEAN]
    /\ left \in [Procs -> Int]
    /\ failing \in [Procs -> BOOLEAN]
    /\ faults \in 0..MaxFaults

LeaseInit ==
    /\ holder = Nobody /\ leaseLeft = -1
    /\ run = [p \in Procs |-> "off"]
    /\ stmt = [p \in Procs |-> "none"]
    /\ callAge = [p \in Procs |-> 0]
    /\ tickIn = [p \in Procs |-> Every]
    /\ due = [p \in Procs |-> FALSE]
    /\ left = [p \in Procs |-> 0]
    /\ failing = [p \in Procs |-> FALSE]
    /\ faults = 0

Fault ==
    /\ faults < MaxFaults
    /\ faults' = faults + 1

-----------------------------------------------------------------------------
(* leaseRepo *)

\* mutant: the lease may be taken when it is about to expire
ExpiredEarly(p) == leaseLeft <= 1 - callAge[p]

\* mutant: a lease never lapses
ExpiredNever(p) == FALSE

\* expires_at < now, for the now of p's call
Expired(p) == leaseLeft < -callAge[p]

\* the row is p's, for TTL from its now
Own(p) == holder' = p /\ leaseLeft' = TTL - callAge[p]

\* whether the statement under way matches: INSERT .. DO NOTHING, or
\* UPDATE .. WHERE expires_at < now OR owner = ?
Matches(p) ==
    \/ stmt[p] = "insert" /\ holder = Nobody
    \/ stmt[p] = "update" /\ holder # Nobody /\ (Expired(p) \/ holder = p)

\* mutant: a run that overran its lease removes the row of its successor
DropAnyones(p) == holder' = Nobody /\ leaseLeft' = -1

\* Release: DELETE WHERE owner = ?
Drop(p) ==
    IF holder = p THEN holder' = Nobody /\ leaseLeft' = -1 ELSE UNCHANGED rowVars

\* p's owner id is forgotten, and the row stays
Forget(p) == holder' = (IF holder = p THEN Orphan ELSE holder) /\ UNCHANGED leaseLeft

-----------------------------------------------------------------------------
(* RunLeased *)

Call(p) ==
    /\ stmt' = [stmt EXCEPT ![p] = "insert"]
    /\ callAge' = [callAge EXCEPT ![p] = 0]

CallOver(p) ==
    /\ stmt' = [stmt EXCEPT ![p] = "none"]
    /\ callAge' = [callAge EXCEPT ![p] = 0]

NoBeat(p) ==
    /\ tickIn' = [tickIn EXCEPT ![p] = Every]
    /\ due' = [due EXCEPT ![p] = FALSE]
    /\ left' = [left EXCEPT ![p] = 0]
    /\ failing' = [failing EXCEPT ![p] = FALSE]

StartRun(p) ==
    /\ run[p] = "off"
    /\ run' = [run EXCEPT ![p] = "acquire"]
    /\ Call(p)
    /\ UNCHANGED <<rowVars, beatVars, faults>>

\* the INSERT finds a row: on to the UPDATE
InsertConflict(p) ==
    /\ stmt[p] = "insert" /\ ~Matches(p)
    /\ stmt' = [stmt EXCEPT ![p] = "update"]
    /\ UNCHANGED <<rowVars, run, callAge, beatVars, faults>>

\* Acquire reports true to RunLeased, which starts fn and the heartbeat
Won(p) ==
    /\ run[p] = "acquire" /\ Matches(p)
    /\ Own(p)
    /\ run' = [run EXCEPT ![p] = "running"]
    /\ left' = [left EXCEPT ![p] = TTL - callAge[p]]
    /\ CallOver(p)
    /\ UNCHANGED <<tickIn, due, failing, faults>>

\* Acquire reports false to RunLeased: ran is false
Beaten(p) ==
    /\ run[p] = "acquire" /\ stmt[p] = "update" /\ ~Matches(p)
    /\ run' = [run EXCEPT ![p] = "off"]
    /\ CallOver(p)
    /\ UNCHANGED <<rowVars, beatVars, faults>>

\* Acquire fails under RunLeased, whether or not the database got to it
AcquireFails(p) ==
    /\ run[p] = "acquire" /\ stmt[p] # "none"
    /\ Fault
    /\ \/ UNCHANGED rowVars
       \/ Matches(p) /\ holder' = Orphan /\ leaseLeft' = TTL - callAge[p]
    /\ run' = [run EXCEPT ![p] = "off"]
    /\ CallOver(p)
    /\ UNCHANGED beatVars

\* fn returns; cancel() ends the heartbeat
FnReturns(p) ==
    /\ run[p] \in {"running", "lost"}
    /\ run' = [run EXCEPT ![p] = "returned"]
    /\ NoBeat(p)
    /\ UNCHANGED <<rowVars, stmt, callAge, faults>>

\* <-done: a renewal cut short by cancel() may have reached the database
RenewalCut(p) ==
    /\ run[p] = "returned" /\ stmt[p] # "none"
    /\ \/ UNCHANGED rowVars
       \/ Matches(p) /\ Own(p)
    /\ CallOver(p)
    /\ UNCHANGED <<run, beatVars, faults>>

\* the deferred Release, whose error is ignored
Release(p) ==
    /\ run[p] = "returned" /\ stmt[p] = "none"
    /\ \/ Drop(p) /\ UNCHANGED faults
       \/ Forget(p) /\ Fault
    /\ run' = [run EXCEPT ![p] = "off"]
    /\ UNCHANGED <<stmt, callAge, beatVars>>

Crash(p) ==
    /\ run[p] # "off"
    /\ Fault
    /\ Forget(p)
    /\ run' = [run EXCEPT ![p] = "off"]
    /\ CallOver(p)
    /\ NoBeat(p)

-----------------------------------------------------------------------------
(* renew, the heartbeat of a run *)

Heartbeat(p) ==
    /\ run[p] = "running" /\ stmt[p] = "none" /\ due[p]
    /\ due' = [due EXCEPT ![p] = FALSE]
    /\ Call(p)
    /\ UNCHANGED <<rowVars, run, tickIn, left, failing, faults>>

\* held: expires = at + ttl
Renewed(p) ==
    /\ run[p] = "running" /\ Matches(p)
    /\ Own(p)
    /\ left' = [left EXCEPT ![p] = TTL - callAge[p]]
    /\ failing' = [failing EXCEPT ![p] = FALSE]
    /\ CallOver(p)
    /\ UNCHANGED <<run, tickIn, due, faults>>

\* mutant: the run goes on without its lease
TakenOverIgnored(p) ==
    /\ run[p] = "running" /\ stmt[p] = "update" /\ ~Matches(p)
    /\ CallOver(p)
    /\ UNCHANGED <<rowVars, run, beatVars, faults>>

\* not held: onLost cancels fn's context
TakenOver(p) ==
    /\ run[p] = "running" /\ stmt[p] = "update" /\ ~Matches(p)
    /\ run' = [run EXCEPT ![p] = "lost"]
    /\ CallOver(p)
    /\ NoBeat(p)
    /\ UNCHANGED <<rowVars, faults>>

\* the renewal fails, whether or not the database got to it: fatal past expires
RenewalFails(p) ==
    /\ run[p] = "running" /\ stmt[p] # "none"
    /\ Fault
    /\ \/ UNCHANGED rowVars
       \/ Matches(p) /\ Own(p)
    /\ CallOver(p)
    /\ \/ left[p] > 0 /\ failing' = [failing EXCEPT ![p] = TRUE] /\ UNCHANGED <<run, tickIn, due, left>>
       \/ left[p] <= 0 /\ run' = [run EXCEPT ![p] = "lost"] /\ NoBeat(p)

-----------------------------------------------------------------------------
(* Time. No call is under way for longer than MaxHang, and a heartbeat     *)
(* whose ticker has fired calls within MaxLag.                             *)

Beating(p) == run[p] = "running"

Tick ==
    /\ \A p \in Procs : /\ stmt[p] # "none" => callAge[p] < MaxHang
                        /\ (Beating(p) /\ stmt[p] = "none" /\ due[p]) => Every - tickIn[p] < MaxLag
    /\ leaseLeft' = IF leaseLeft > -MaxHang - 1 THEN leaseLeft - 1 ELSE leaseLeft
    /\ callAge' = [p \in Procs |-> IF stmt[p] # "none" THEN callAge[p] + 1 ELSE callAge[p]]
    /\ left' = [p \in Procs |-> IF Beating(p) THEN left[p] - 1 ELSE left[p]]
    /\ tickIn' = [p \in Procs |-> IF ~Beating(p) THEN tickIn[p]
                                  ELSE IF tickIn[p] > 1 THEN tickIn[p] - 1 ELSE Every]
    /\ due' = [p \in Procs |-> due[p] \/ (Beating(p) /\ tickIn[p] = 1)]
    /\ UNCHANGED <<holder, run, stmt, failing, faults>>

-----------------------------------------------------------------------------
AcquireStep(p) == StartRun(p) \/ InsertConflict(p) \/ Won(p) \/ Beaten(p) \/ AcquireFails(p)

BeatStep(p) == Heartbeat(p) \/ Renewed(p) \/ TakenOver(p) \/ RenewalFails(p)

EndStep(p) == FnReturns(p) \/ RenewalCut(p) \/ Release(p)

LeaseNext ==
    \/ \E p \in Procs : AcquireStep(p) \/ BeatStep(p) \/ EndStep(p) \/ Crash(p)
    \/ Tick

LeaseSpec == LeaseInit /\ [][LeaseNext]_leaseVars

-----------------------------------------------------------------------------
(* Until its `expires`, a run has the lease: the row is under its owner id *)
(* and does not lapse before. This is what lets the heartbeat ride out a   *)
(* failed renewal, even one that did reach the database.                   *)
LeaseCoversRun ==
    \A p \in Procs : (run[p] = "running" /\ left[p] >= 0) =>
        holder = p /\ leaseLeft >= left[p]

(* Two runs are never both within their lease, whatever the database does  *)
(* to the calls of either.                                                 *)
OneWithinLease ==
    \A p, q \in Procs :
        (p # q /\ run[p] = "running" /\ run[q] = "running") => left[p] < 0 \/ left[q] < 0

(* A run whose renewals fail is cancelled: the heartbeat that finds it     *)
(* past `expires` comes at most one period, a lag and a call after that.   *)
OverrunBounded ==
    \A p \in Procs : run[p] = "running" => left[p] > -(Every + MaxLag + MaxHang)

Prompt == 2 * MaxHang + MaxLag + Every <= TTL

(* As long as its renewals succeed, work of any length stays within its    *)
(* lease (RunLeased: "so work longer than ttl keeps its single owner").    *)
(* It holds of calls that are Prompt.                                      *)
RenewedInTime ==
    \A p \in Procs : (run[p] = "running" /\ ~failing[p]) => left[p] >= 0

\* what LeaseCoversRun rests on: a renewal under way never shortens the lease
CallWithinTTL ==
    \A p \in Procs : run[p] = "running" => left[p] + callAge[p] <= TTL

NoCallWhenOff ==
    \A p \in Procs : run[p] \in {"off", "lost"} => stmt[p] = "none"

\* the time since expires was set, or was last found ahead: how far the beat has got
SinceBeat(p) ==
    IF stmt[p] # "none" THEN Every + MaxLag + callAge[p]
    ELSE IF due[p] THEN 2 * Every - tickIn[p]
    ELSE Every - tickIn[p]

\* a tick that is waiting has not waited longer than MaxLag
TickPhase ==
    \A p \in Procs : run[p] = "running" =>
        LET waited == IF due[p] THEN 2 * Every - tickIn[p] ELSE Every - tickIn[p] IN
        /\ stmt[p] # "none" => waited <= callAge[p] + MaxLag
        /\ (stmt[p] = "none" /\ due[p]) => waited <= Every + MaxLag

BeatInTime ==
    \A p \in Procs : run[p] = "running" =>
        /\ left[p] >= 1 - SinceBeat(p)
        /\ ~failing[p] => left[p] >= TTL - MaxHang - SinceBeat(p)

\* the ticker starts with fn
BeatOff ==
    \A p \in Procs : run[p] # "running" => tickIn[p] = Every /\ ~due[p] /\ ~failing[p]

CoverInv == LeaseTypeOK /\ LeaseCoversRun /\ CallWithinTTL /\ NoCallWhenOff

(* What every step preserves: the row covers the run until its `expires`,  *)
(* and the beat comes in time to push `expires` out.                       *)
LeaseInv == CoverInv /\ BeatOff /\ TickPhase /\ BeatInTime
=============================================================================
