---------------------------- MODULE ArchiveSweep ----------------------------
(***************************************************************************)
(* The archive sweep (archive/job.go) under its lease, next to the people  *)
(* who go on writing to conversations. A conversation that is closed and   *)
(* idle is read, written to the cold sink, and then purged from the        *)
(* database. Every conversation is a support conversation: SendMessage     *)
(* refuses a closed conversation only when it is a peer conversation.      *)
(***************************************************************************)
EXTENDS Lease

CONSTANTS
    Tenants,
    Convs, NoConv,
    TenantOf,   \* the tenant of a conversation
    Msgs,       \* messages that may be sent
    ConvOf,     \* the conversation a message goes to
    NoTomb,     \* the conversation has no tombstone
    Limit,      \* batchSize: how many conversations one pass over a tenant takes
    MaxErrors   \* bound on failed reads and writes of the sweep

ASSUME ArchiveConstants ==
    /\ NoConv \notin Convs
    /\ TenantOf \in [Convs -> Tenants] /\ ConvOf \in [Msgs -> Convs]
    /\ NoTomb \notin Nat /\ Limit \in Nat \ {0} /\ MaxErrors \in Nat
    /\ IsFiniteSet(Msgs)

VARIABLES
    closed, idle, archivedAt,  \* conversations: status, age of the last message, archived_at
    hot,                       \* the messages table
    tomb,                      \* conversation_archives: message_count
    sink,                      \* the object under archive/{tenant}/{conversation}.json
    sweep,                     \* RunSweep and what it calls, and their local variables
    errors,
    \* history
    sent,                      \* messages whose send was confirmed
    missed,                    \* of these, the ones a sweep had gone past
    over,                      \* the run has been past its lease
    overlap                    \* such a run wrote to the sink or the database

convVars == <<closed, idle, archivedAt, hot>>
coldVars == <<tomb, sink>>
historyVars == <<sent, missed, over, overlap>>
archiveVars == <<convVars, coldVars, sweep, errors, historyVars>>
vars == <<leaseVars, archiveVars>>

Sweep == [stage : {"none", "tenants", "tenant", "conv", "read", "write", "commit", "end"},
          tenants : SUBSET Tenants,
          convs : SUBSET Convs,
          conv : Convs \cup {NoConv},
          copy : SUBSET Msgs]

NoSweep == [stage |-> "none", tenants |-> {}, convs |-> {}, conv |-> NoConv, copy |-> {}]

(* The types of the tables, of the sink and of the variables of a sweep,   *)
(* on top of the lease's.                                                  *)
ArchiveTypeOK ==
    /\ LeaseTypeOK
    /\ closed \subseteq Convs /\ idle \subseteq Convs /\ archivedAt \subseteq Convs
    /\ hot \subseteq Msgs
    /\ tomb \in [Convs -> Nat \cup {NoTomb}]
    /\ sink \in [Convs -> SUBSET Msgs]
    /\ sweep \in [Procs -> Sweep]
    /\ errors \in 0..MaxErrors
    /\ sent \subseteq Msgs /\ missed \subseteq sent
    /\ over \in [Procs -> BOOLEAN] /\ overlap \in BOOLEAN

Init ==
    /\ LeaseInit
    /\ closed = {} /\ idle = Convs /\ archivedAt = {} /\ hot = {}
    /\ tomb = [c \in Convs |-> NoTomb]
    /\ sink = [c \in Convs |-> {}]
    /\ sweep = [p \in Procs |-> NoSweep]
    /\ errors = 0
    /\ sent = {} /\ missed = {}
    /\ over = [p \in Procs |-> FALSE] /\ overlap = FALSE

Error ==
    /\ errors < MaxErrors
    /\ errors' = errors + 1

-----------------------------------------------------------------------------
(* The conversations *)

\* the sweep of p has read the messages of c and not purged them yet
GonePast(p, c) == sweep[p].conv = c /\ sweep[p].stage \in {"write", "commit"}

\* the transaction of SendMessage
SendMessage(m) ==
    /\ m \notin sent
    /\ hot' = hot \cup {m}
    /\ idle' = idle \ {ConvOf[m]}
    /\ sent' = sent \cup {m}
    /\ missed' = IF \E p \in Procs : GonePast(p, ConvOf[m]) THEN missed \cup {m} ELSE missed
    /\ UNCHANGED <<leaseVars, closed, archivedAt, coldVars, sweep, errors, over, overlap>>

CloseConversation(c) ==
    /\ c \notin closed
    /\ closed' = closed \cup {c}
    /\ UNCHANGED <<leaseVars, idle, archivedAt, hot, coldVars, sweep, errors, historyVars>>

\* idleDays go by without a message
GoIdle(c) ==
    /\ c \notin idle
    /\ idle' = idle \cup {c}
    /\ UNCHANGED <<leaseVars, closed, archivedAt, hot, coldVars, sweep, errors, historyVars>>

-----------------------------------------------------------------------------
(* RunSweep *)

StartSweep(p) == StartRun(p) /\ UNCHANGED archiveVars

\* the lease is another worker's: skip this tick
Skip(p) == (Beaten(p) \/ AcquireFails(p)) /\ UNCHANGED archiveVars

Conflict(p) ==
    /\ run[p] = "acquire" /\ InsertConflict(p)
    /\ UNCHANGED archiveVars

Enter(p) ==
    /\ Won(p)
    /\ sweep' = [sweep EXCEPT ![p].stage = "tenants"]
    /\ UNCHANGED <<convVars, coldVars, errors, historyVars>>

\* a call of the sweep that is cancelled with its context, or fails
Fails(p) ==
    \/ run[p] = "lost" /\ UNCHANGED errors
    \/ run[p] = "running" /\ Error

\* Tenants().AllIDs
AllIDs(p) ==
    /\ sweep[p].stage = "tenants"
    /\ \/ /\ run[p] = "running" /\ UNCHANGED errors
          /\ sweep' = [sweep EXCEPT ![p].tenants = Tenants, ![p].stage = "tenant"]
       \/ Fails(p) /\ sweep' = [sweep EXCEPT ![p].stage = "end"]
    /\ UNCHANGED <<leaseVars, convVars, coldVars, historyVars>>

\* mutant: conversations that were archived before are eligible again
ArchivableAgain(t) == {c \in Convs : TenantOf[c] = t /\ c \in closed \cap idle}

\* ListArchivable: closed, not archived, and no message since the cutoff
Archivable(t) == {c \in Convs : TenantOf[c] = t /\ c \in (closed \cap idle) \ archivedAt}

\* LIMIT, in no particular order
Batches(cs) == {b \in SUBSET cs : b = cs \/ Cardinality(b) = Limit}

\* RunOnce for the next tenant, or the end of the sweep; an error ends it too
NextTenant(p) ==
    /\ sweep[p].stage = "tenant"
    /\ \/ /\ sweep[p].tenants = {} /\ UNCHANGED errors
          /\ sweep' = [sweep EXCEPT ![p].stage = "end"]
       \/ \E t \in sweep[p].tenants :
            \/ /\ run[p] = "running" /\ UNCHANGED errors
               /\ \E b \in Batches(Archivable(t)) :
                    sweep' = [sweep EXCEPT ![p].tenants = @ \ {t},
                                           ![p].convs = b,
                                           ![p].stage = "conv"]
            \/ Fails(p) /\ sweep' = [sweep EXCEPT ![p].stage = "end"]
    /\ UNCHANGED <<leaseVars, convVars, coldVars, historyVars>>

\* the head of the loop over conversations: ctx.Err(), the next one, or the end
NextConv(p) ==
    /\ sweep[p].stage = "conv"
    /\ \/ /\ sweep[p].convs = {}
          /\ sweep' = [sweep EXCEPT ![p].stage = "tenant"]
       \/ /\ sweep[p].convs # {} /\ run[p] = "lost"
          /\ sweep' = [sweep EXCEPT ![p].stage = "end"]
       \/ \E c \in sweep[p].convs :
            /\ run[p] = "running"
            /\ sweep' = [sweep EXCEPT ![p].convs = @ \ {c}, ![p].conv = c, ![p].stage = "read"]
    /\ UNCHANGED <<leaseVars, convVars, coldVars, errors, historyVars>>

-----------------------------------------------------------------------------
(* archiveOne. An error leaves the conversation for the next sweep.        *)

ConvDone(p) == sweep' = [sweep EXCEPT ![p].stage = "conv", ![p].conv = NoConv, ![p].copy = {}]

InConv(c) == {m \in hot : ConvOf[m] = c}

\* ListActive and allMessages
ReadMessages(p) ==
    /\ sweep[p].stage = "read"
    /\ \/ /\ run[p] = "running" /\ UNCHANGED errors
          /\ sweep' = [sweep EXCEPT ![p].copy = InConv(sweep[p].conv), ![p].stage = "write"]
       \/ Fails(p) /\ ConvDone(p)
    /\ UNCHANGED <<leaseVars, convVars, coldVars, historyVars>>

\* the write of the sink: the object of the conversation is overwritten
Put(p) == sink' = [sink EXCEPT ![sweep[p].conv] = sweep[p].copy]

Past(p) == overlap' = (overlap \/ over[p] \/ run[p] = "lost")

\* mutant: the conversation is purged whether or not the sink has it
WriteUnverified(p) ==
    /\ sweep[p].stage = "write"
    /\ \/ /\ Put(p)
          /\ Past(p) /\ UNCHANGED errors
       \/ Fails(p) /\ UNCHANGED <<sink, overlap>>
    /\ sweep' = [sweep EXCEPT ![p].stage = "commit"]
    /\ UNCHANGED <<leaseVars, convVars, tomb, sent, missed, over>>

\* sink.Write: the object is overwritten, perhaps without the sweep hearing of it
WriteSink(p) ==
    /\ sweep[p].stage = "write"
    /\ \/ /\ Put(p)
          /\ Past(p)
          /\ \/ /\ run[p] = "running" /\ UNCHANGED errors
                /\ sweep' = [sweep EXCEPT ![p].stage = "commit"]
             \/ Fails(p) /\ ConvDone(p)
       \/ Fails(p) /\ ConvDone(p) /\ UNCHANGED <<sink, overlap>>
    /\ UNCHANGED <<leaseVars, convVars, tomb, sent, missed, over>>

CreateTombstone(p, c) == tomb' = [tomb EXCEPT ![c] = Cardinality(sweep[p].copy)]

\* the messages there are by now go, not only the ones that were copied
PurgeHot(c) ==
    /\ hot' = hot \ InConv(c)
    /\ archivedAt' = archivedAt \cup {c}

\* CreateTombstone and PurgeHot in one transaction: a second tombstone aborts it
Commit(p) ==
    LET c == sweep[p].conv IN
    /\ sweep[p].stage = "commit"
    /\ \/ /\ run[p] = "running" /\ tomb[c] = NoTomb
          /\ CreateTombstone(p, c) /\ PurgeHot(c)
          /\ Past(p)
          /\ UNCHANGED errors \/ Error
       \/ /\ run[p] = "running" /\ tomb[c] # NoTomb
          /\ UNCHANGED <<tomb, hot, archivedAt, overlap, errors>>
       \/ /\ Fails(p)
          /\ UNCHANGED <<tomb, hot, archivedAt, overlap>>
    /\ ConvDone(p)
    /\ UNCHANGED <<leaseVars, closed, idle, sink, sent, missed, over>>

-----------------------------------------------------------------------------
\* fn returns to RunLeased, and RunLeased to sweepOnce
Return(p) ==
    /\ sweep[p].stage = "end"
    /\ FnReturns(p)
    /\ sweep' = [sweep EXCEPT ![p] = NoSweep]
    /\ over' = [over EXCEPT ![p] = FALSE]
    /\ UNCHANGED <<convVars, coldVars, errors, sent, missed, overlap>>

Join(p) == RenewalCut(p) /\ UNCHANGED archiveVars

Leave(p) == Release(p) /\ UNCHANGED archiveVars

Die(p) ==
    /\ Crash(p)
    /\ sweep' = [sweep EXCEPT ![p] = NoSweep]
    /\ over' = [over EXCEPT ![p] = FALSE]
    /\ UNCHANGED <<convVars, coldVars, errors, sent, missed, overlap>>

Beat(p) ==
    /\ run[p] = "running" /\ (InsertConflict(p) \/ BeatStep(p))
    /\ UNCHANGED archiveVars

Pass ==
    /\ Tick
    /\ over' = [p \in Procs |-> over[p] \/ (run[p] = "running" /\ left'[p] < 0)]
    /\ UNCHANGED <<convVars, coldVars, sweep, errors, sent, missed, overlap>>

SweepStep(p) ==
    \/ StartSweep(p) \/ Skip(p) \/ Conflict(p) \/ Enter(p)
    \/ AllIDs(p) \/ NextTenant(p) \/ NextConv(p)
    \/ ReadMessages(p) \/ WriteSink(p) \/ Commit(p)
    \/ Return(p) \/ Join(p) \/ Leave(p)

Next ==
    \/ \E m \in Msgs : SendMessage(m)
    \/ \E c \in Convs : CloseConversation(c) \/ GoIdle(c)
    \/ \E p \in Procs : SweepStep(p) \/ Beat(p) \/ Die(p)
    \/ Pass

Spec == Init /\ [][Next]_vars

(* Every worker's ticker starts a sweep every hour, and a sweep keeps      *)
(* going; time passes, and a closed conversation grows old.                *)
FairSpec ==
    /\ Spec
    /\ SF_vars(Pass)
    /\ \A p \in Procs : WF_vars(SweepStep(p)) /\ WF_vars(Beat(p))
    /\ \A c \in Convs : WF_vars(GoIdle(c))

-----------------------------------------------------------------------------
(* What was sent is in the database or in the sink: a purge deletes only   *)
(* what the sink has (job.go: "VERIFY before deleting anything"), whatever *)
(* fails or crashes between the two. Two cases are left out: a message     *)
(* sent after the sweep read its conversation, and a sweep that went on    *)
(* past its lease.                                                         *)
NothingLost == overlap \/ sent \subseteq hot \cup missed \cup UNION {sink[c] : c \in Convs}

(* A tombstone describes the object it refers to: nothing overwrites the   *)
(* sink object of a conversation that is archived.                         *)
TombstoneMatchesSink ==
    overlap \/ \A c \in Convs : tomb[c] # NoTomb => tomb[c] = Cardinality(sink[c])

(* The sweep's state keeps its types, and archiveOne (job.go) leaves no    *)
(* tombstone that counts other messages than the sink holds.               *)
ArchiveInv == ArchiveTypeOK /\ TombstoneMatchesSink

(* The sweep uses the lease as RunLeased does, and so has its properties. *)
ImplementsLease == LeaseSpec

(* A closed conversation nobody writes to any more is archived in the end, *)
(* crashes, lost leases and failed writes notwithstanding.                 *)
EventuallyArchived ==
    \A c \in Convs : c \in closed ~> c \in archivedAt

(* Write-then-delete: no message is ever in neither place                  *)
(* (docs/chat-platform-spec.md, Section 12: "Write-then-delete, verified   *)
(* -- never the reverse").                                                 *)
NoMessageLost == sent \subseteq hot \cup UNION {sink[c] : c \in Convs}
=============================================================================
