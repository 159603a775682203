--------------------------- MODULE ArchiveProofs ---------------------------
(***************************************************************************)
(* The sweep uses the lease as RunLeased does, and what it deletes from    *)
(* the database is in the sink, for any number of workers, tenants and     *)
(* conversations.                                                          *)
(***************************************************************************)
EXTENDS ArchiveSweep, LeaseProofs, FiniteSetTheorems

-----------------------------------------------------------------------------
(* Every step is a step of the lease, or none.                             *)

LEMMA SweepIsLease == [Next]_vars => [LeaseNext]_leaseVars
<1> SUFFICES ASSUME [Next]_vars PROVE [LeaseNext]_leaseVars
  OBVIOUS
<1>1. CASE UNCHANGED vars
  BY <1>1 DEF vars
<1>2. CASE Pass
  BY <1>2 DEF Pass, LeaseNext
<1>3. ASSUME NEW m \in Msgs, SendMessage(m) PROVE UNCHANGED leaseVars
  BY <1>3 DEF SendMessage
<1>4. ASSUME NEW c \in Convs, CloseConversation(c) \/ GoIdle(c) PROVE UNCHANGED leaseVars
  BY <1>4 DEF CloseConversation, GoIdle
<1>5. ASSUME NEW p \in Procs,
             AllIDs(p) \/ NextTenant(p) \/ NextConv(p) \/ ReadMessages(p) \/ WriteSink(p) \/ Commit(p)
      PROVE  UNCHANGED leaseVars
  BY <1>5 DEF AllIDs, NextTenant, NextConv, ReadMessages, WriteSink, Commit
<1>6. ASSUME NEW p \in Procs, StartSweep(p) \/ Skip(p) \/ Conflict(p) \/ Enter(p) PROVE LeaseNext
  BY <1>6 DEF StartSweep, Skip, Conflict, Enter, LeaseNext, AcquireStep
<1>7. ASSUME NEW p \in Procs, Return(p) \/ Join(p) \/ Leave(p) PROVE LeaseNext
  BY <1>7 DEF Return, Join, Leave, LeaseNext, EndStep
<1>8. ASSUME NEW p \in Procs, Beat(p) \/ Die(p) PROVE LeaseNext
  BY <1>8 DEF Beat, Die, LeaseNext, AcquireStep
<1> QED BY <1>1, <1>2, <1>3, <1>4, <1>5, <1>6, <1>7, <1>8 DEF Next, SweepStep

(* RunSweep (jobs.go, job.go) uses the lease as RunLeased does, so what is *)
(* proved of the lease holds of the sweeps.                                *)
THEOREM SweepImplementsLease == Spec => ImplementsLease
<1>1. Init => LeaseInit
  BY DEF Init
<1> QED
  BY <1>1, SweepIsLease, PTL DEF Spec, ImplementsLease, LeaseSpec

-----------------------------------------------------------------------------
(* Nothing is lost. A sweep that is not past its lease is alone, so the    *)
(* conversation it is on is not archived under it, and the object it wrote *)
(* is the one it purges by.                                                *)

\* within its lease, as far as the history knows
Inside(p) == run[p] = "running" /\ ~over[p]

OverKnown == \A p \in Procs : Inside(p) => left[p] >= 0

SweepShape ==
    \A p \in Procs :
        /\ sweep[p].stage # "none" => run[p] \in {"running", "lost"}
        /\ sweep[p].stage = "none" => sweep[p] = NoSweep
        /\ sweep[p].conv \in Convs <=> sweep[p].stage \in {"read", "write", "commit"}
        /\ sweep[p].conv \notin sweep[p].convs

\* what a sweep within its lease has listed is not archived yet
ListedIsHot ==
    \A p \in Procs : Inside(p) =>
        overlap \/ (sweep[p].convs \cup {sweep[p].conv}) \cap archivedAt = {}

\* what the copy lacks was sent behind the sweep's back
CopyCurrent ==
    \A p \in Procs : sweep[p].stage \in {"write", "commit"} =>
        InConv(sweep[p].conv) \subseteq sweep[p].copy \cup missed

Written ==
    \A p \in Procs : (sweep[p].stage = "commit" /\ Inside(p)) =>
        overlap \/ sink[sweep[p].conv] = sweep[p].copy

HotUntilPurged == \A m \in sent : ConvOf[m] \notin archivedAt => m \in hot

SentIsSomewhere == overlap \/ \A m \in sent : m \in hot \cup missed \cup sink[ConvOf[m]]

TombMeansArchived == \A c \in Convs : tomb[c] # NoTomb => c \in archivedAt

DataInv ==
    /\ CopyCurrent /\ Written /\ HotUntilPurged /\ SentIsSomewhere
    /\ TombMeansArchived /\ TombstoneMatchesSink

SweepInv == LeaseInv /\ ArchiveTypeOK /\ OverKnown /\ SweepShape /\ ListedIsHot /\ DataInv

LEMMA SweepInit == Init => SweepInv
<1> SUFFICES ASSUME Init PROVE SweepInv
  OBVIOUS
<1>1. LeaseInv
  BY InvInit DEF Init
<1>2. \A p \in Procs : run[p] = "off" /\ sweep[p] = NoSweep
  BY DEF Init, LeaseInit
<1>3. ArchiveTypeOK
  <2>1. NoSweep \in Sweep
    BY DEF NoSweep, Sweep
  <2>2. /\ LeaseTypeOK /\ errors \in 0..MaxErrors
        /\ tomb \in [Convs -> Nat \cup {NoTomb}] /\ sink \in [Convs -> SUBSET Msgs]
        /\ sweep \in [Procs -> Sweep] /\ over \in [Procs -> BOOLEAN]
    BY <1>1, <2>1, ArchiveConstants DEF Init, LeaseInv, CoverInv
  <2> QED BY <2>2 DEF Init, ArchiveTypeOK
<1>4. OverKnown /\ SweepShape /\ ListedIsHot
  BY <1>2, ArchiveConstants DEF OverKnown, SweepShape, ListedIsHot, Inside, NoSweep
<1>5. DataInv
  BY <1>2 DEF Init, DataInv, CopyCurrent, Written, HotUntilPurged, SentIsSomewhere, TombMeansArchived,
              TombstoneMatchesSink, Inside, NoSweep
<1> QED BY <1>1, <1>3, <1>4, <1>5 DEF SweepInv

LEMMA OneInside ==
    ASSUME LeaseInv, OverKnown, NEW p \in Procs, NEW q \in Procs, p # q, Inside(p) PROVE ~Inside(q)
<1> SUFFICES ASSUME Inside(q) PROVE FALSE
  OBVIOUS
<1>1. left[p] >= 0 /\ left[q] >= 0 /\ left[p] \in Int /\ left[q] \in Int
  BY DEF OverKnown, LeaseInv, CoverInv, LeaseTypeOK
<1>2. left[p] < 0 \/ left[q] < 0
  BY InvOneWithinLease DEF Inside, OneWithinLease
<1> QED BY <1>1, <1>2

\* a step of the lease under which the sweep stays where it is, starts or ends
LEMMA LeaseOnly ==
    ASSUME SweepInv, LeaseInv', NEW p \in Procs,
           AcquireStep(p) \/ BeatStep(p) \/ EndStep(p) \/ Crash(p),
           UNCHANGED <<convVars, coldVars, errors, sent, missed, overlap>>,
           sweep' \in [Procs -> Sweep], over' \in [Procs -> BOOLEAN],
           \A q \in Procs \ {p} : sweep'[q] = sweep[q] /\ over'[q] = over[q],
           \/ sweep'[p] = NoSweep
           \/ sweep'[p] = sweep[p] /\ run'[p] \in {"running", "lost"} /\ run[p] = "running"
           \/ sweep'[p] = [NoSweep EXCEPT !.stage = "tenants"] /\ run'[p] = "running",
           over'[p] = over[p] \/ run'[p] # "running"
    PROVE  SweepInv'
<1>1. LeaseTypeOK /\ LeaseTypeOK'
  BY DEF SweepInv, LeaseInv, CoverInv
<1>2. \A q \in Procs \ {p} : run'[q] = run[q]
  BY <1>1, OthersRun
<1>3. ArchiveTypeOK'
  BY <1>1 DEF SweepInv, ArchiveTypeOK, convVars, coldVars
<1>4. OverKnown'
  <2> SUFFICES ASSUME NEW q \in Procs, run'[q] = "running", ~over'[q] PROVE left'[q] >= 0
    BY DEF OverKnown, Inside
  <2>1. ~over[q]
    OBVIOUS
  <2>2. (run[q] = "running" /\ left'[q] = left[q]) \/ left'[q] >= 0
    BY ExpiresKept DEF SweepInv
  <2> QED BY <2>1, <2>2 DEF SweepInv, OverKnown, Inside
<1>5. SweepShape'
  BY <1>2, ArchiveConstants DEF SweepInv, SweepShape, NoSweep
<1>6. archivedAt \subseteq Convs
  BY DEF SweepInv, ArchiveTypeOK
<1>7. ListedIsHot'
  BY <1>2, <1>6, ArchiveConstants DEF SweepInv, ListedIsHot, Inside, NoSweep, convVars
<1>8. DataInv'
  BY <1>2 DEF SweepInv, DataInv, CopyCurrent, Written, HotUntilPurged, SentIsSomewhere, TombMeansArchived,
              TombstoneMatchesSink, Inside, InConv, NoSweep, convVars, coldVars
<1> QED BY <1>3, <1>4, <1>5, <1>7, <1>8 DEF SweepInv

\* a step of the sweep that touches its own variables only
LEMMA Stays ==
    ASSUME SweepInv, NEW p \in Procs, UNCHANGED <<leaseVars, convVars, coldVars, historyVars>>,
           errors' \in 0..MaxErrors, sweep' \in [Procs -> Sweep],
           \A q \in Procs \ {p} : sweep'[q] = sweep[q],
           sweep[p].stage # "none", sweep'[p].stage # "none",
           sweep'[p].conv \in Convs <=> sweep'[p].stage \in {"read", "write", "commit"},
           sweep'[p].conv \notin sweep'[p].convs,
           (sweep'[p].convs \cup {sweep'[p].conv}) \cap archivedAt \subseteq
               sweep[p].convs \cup {sweep[p].conv},
           sweep'[p].stage # "commit",
           sweep'[p].stage = "write" => sweep'[p].copy = InConv(sweep'[p].conv)
    PROVE  SweepInv'
<1>1. LeaseInv' /\ LeaseTypeOK'
  BY DEF SweepInv, LeaseInv, CoverInv, LeaseTypeOK, LeaseCoversRun, CallWithinTTL, NoCallWhenOff,
         BeatOff, TickPhase, BeatInTime, SinceBeat, leaseVars
<1>2. UNCHANGED <<run, left>>
  BY DEF leaseVars
<1>3. ArchiveTypeOK'
  BY <1>1 DEF SweepInv, ArchiveTypeOK, convVars, coldVars, historyVars
<1>4. OverKnown'
  BY <1>2 DEF SweepInv, OverKnown, Inside, historyVars
<1>5. SweepShape'
  BY <1>2 DEF SweepInv, SweepShape
<1>6. ListedIsHot'
  BY <1>2 DEF SweepInv, ListedIsHot, Inside, convVars, historyVars
<1>7. CopyCurrent' /\ Written'
  BY <1>2 DEF SweepInv, DataInv, CopyCurrent, Written, Inside, InConv, convVars, coldVars, historyVars
<1>8. DataInv'
  BY <1>7 DEF SweepInv, DataInv, HotUntilPurged, SentIsSomewhere, TombMeansArchived,
              TombstoneMatchesSink, convVars, coldVars, historyVars
<1> QED BY <1>1, <1>3, <1>4, <1>5, <1>6, <1>8 DEF SweepInv

LEMMA ErrorType == ASSUME errors \in 0..MaxErrors, Error \/ UNCHANGED errors PROVE errors' \in 0..MaxErrors
BY ArchiveConstants DEF Error

\* what a step that names sweep[p] only leaves of the others
LEMMA SweepPointwise ==
    ASSUME sweep \in [Procs -> Sweep], NEW p \in Procs, NEW s \in Sweep,
           sweep' = [sweep EXCEPT ![p] = s]
    PROVE  sweep' \in [Procs -> Sweep] /\ sweep'[p] = s /\ \A q \in Procs \ {p} : sweep'[q] = sweep[q]
OBVIOUS

LEMMA Facts ==
    ASSUME SweepInv, NEW p \in Procs
    PROVE  /\ ArchiveTypeOK /\ LeaseInv /\ LeaseTypeOK
           /\ sweep \in [Procs -> Sweep] /\ sweep[p] \in Sweep
           /\ sweep[p].convs \subseteq Convs /\ sweep[p].copy \subseteq Msgs
           /\ sweep[p].tenants \subseteq Tenants
           /\ NoConv \notin archivedAt /\ archivedAt \subseteq Convs /\ errors \in 0..MaxErrors
BY ArchiveConstants DEF SweepInv, ArchiveTypeOK, Sweep

LEMMA DoneStays ==
    ASSUME SweepInv, NEW p \in Procs, UNCHANGED <<leaseVars, convVars, coldVars, historyVars>>,
           errors' \in 0..MaxErrors, sweep[p].stage # "none", ConvDone(p)
    PROVE  SweepInv'
<1>1. sweep[p] \in Sweep /\ sweep \in [Procs -> Sweep] /\ NoConv \notin archivedAt
  BY Facts
<1>2. /\ sweep'[p] = [sweep[p] EXCEPT !.stage = "conv", !.conv = NoConv, !.copy = {}]
      /\ \A q \in Procs \ {p} : sweep'[q] = sweep[q]
  BY <1>1 DEF ConvDone
<1>3. sweep' \in [Procs -> Sweep]
  BY <1>1 DEF ConvDone, Sweep
<1>4. sweep'[p].stage = "conv" /\ sweep'[p].conv = NoConv /\ sweep'[p].convs = sweep[p].convs
  BY <1>1, <1>2 DEF Sweep
<1>5. sweep[p].convs \subseteq Convs
  BY Facts
<1> QED BY <1>1, <1>3, <1>4, <1>2, <1>5, Stays, ArchiveConstants

LEMMA ListSteps ==
    ASSUME SweepInv, NEW p \in Procs, AllIDs(p) \/ NextTenant(p) \/ NextConv(p) \/ ReadMessages(p)
    PROVE  SweepInv'
<1>1. /\ sweep[p] \in Sweep /\ sweep \in [Procs -> Sweep] /\ NoConv \notin archivedAt
      /\ sweep[p].convs \subseteq Convs /\ errors \in 0..MaxErrors /\ SweepShape
  BY Facts DEF SweepInv
<1>2. UNCHANGED <<leaseVars, convVars, coldVars, historyVars>>
  BY DEF AllIDs, NextTenant, NextConv, ReadMessages
<1>3. errors' \in 0..MaxErrors
  BY <1>1, ErrorType DEF AllIDs, NextTenant, NextConv, ReadMessages, Fails
<1>4. sweep[p].stage \notin {"none", "read", "write", "commit"} => sweep[p].conv = NoConv
  BY <1>1, ArchiveConstants DEF SweepShape, Sweep
<1>5. ASSUME NEW s \in Sweep, sweep' = [sweep EXCEPT ![p] = s],
             s.stage \in {"tenant", "end", "conv"}, s.conv = NoConv, s.convs \subseteq (Convs \ archivedAt) \cup sweep[p].convs,
             sweep[p].stage # "none"
      PROVE  SweepInv'
  <2>1. s.convs \subseteq Convs /\ s.convs \cap archivedAt \subseteq sweep[p].convs
    BY <1>1, <1>5
  <2>2. s.conv \notin s.convs /\ s.conv \notin Convs
    BY <1>5, <2>1, ArchiveConstants
  <2>3. sweep' \in [Procs -> Sweep] /\ sweep'[p] = s /\ \A q \in Procs \ {p} : sweep'[q] = sweep[q]
    BY <1>1, <1>5, SweepPointwise
  <2>4. (sweep'[p].convs \cup {sweep'[p].conv}) \cap archivedAt \subseteq sweep[p].convs \cup {sweep[p].conv}
    BY <1>1, <1>5, <2>1, <2>3
  <2> QED BY <1>2, <1>3, <1>5, <2>2, <2>3, <2>4, Stays
<1>6. CASE AllIDs(p)
  <2>1. CASE sweep' = [sweep EXCEPT ![p].tenants = Tenants, ![p].stage = "tenant"]
    <3> DEFINE s == [sweep[p] EXCEPT !.tenants = Tenants, !.stage = "tenant"]
    <3>1. s \in Sweep /\ s.stage = "tenant" /\ s.conv = sweep[p].conv /\ s.convs = sweep[p].convs
      BY <1>1 DEF Sweep
    <3>2. sweep' = [sweep EXCEPT ![p] = s]
      BY <1>1, <2>1 DEF Sweep
    <3>4. sweep[p].stage # "none" /\ s.conv = NoConv /\ s.convs \subseteq (Convs \ archivedAt) \cup sweep[p].convs
      BY <1>4, <1>6, <3>1, <3>2, <1>1 DEF AllIDs
    <3> HIDE DEF s
    <3> QED BY <1>5, <3>1, <3>2, <3>4
  <2>2. CASE sweep' = [sweep EXCEPT ![p].stage = "end"]
    <3> DEFINE s == [sweep[p] EXCEPT !.stage = "end"]
    <3>1. s \in Sweep /\ s.stage = "end" /\ s.conv = sweep[p].conv /\ s.convs = sweep[p].convs
      BY <1>1 DEF Sweep
    <3>2. sweep' = [sweep EXCEPT ![p] = s]
      BY <1>1, <2>2 DEF Sweep
    <3>4. sweep[p].stage # "none" /\ s.conv = NoConv /\ s.convs \subseteq (Convs \ archivedAt) \cup sweep[p].convs
      BY <1>4, <1>6, <3>1, <3>2, <1>1 DEF AllIDs
    <3> HIDE DEF s
    <3> QED BY <1>5, <3>1, <3>2, <3>4
  <2> QED BY <1>6, <2>1, <2>2 DEF AllIDs
<1>7. CASE NextTenant(p)
  <2>1. CASE sweep' = [sweep EXCEPT ![p].stage = "end"]
    <3> DEFINE s == [sweep[p] EXCEPT !.stage = "end"]
    <3>1. s \in Sweep /\ s.stage = "end" /\ s.conv = sweep[p].conv /\ s.convs = sweep[p].convs
      BY <1>1 DEF Sweep
    <3>2. sweep' = [sweep EXCEPT ![p] = s]
      BY <1>1, <2>1 DEF Sweep
    <3>4. sweep[p].stage # "none" /\ s.conv = NoConv /\ s.convs \subseteq (Convs \ archivedAt) \cup sweep[p].convs
      BY <1>4, <1>7, <3>1, <3>2, <1>1 DEF NextTenant
    <3> HIDE DEF s
    <3> QED BY <1>5, <3>1, <3>2, <3>4
  <2>2. ASSUME NEW t \in sweep[p].tenants, NEW b \in Batches(Archivable(t)),
               sweep' = [sweep EXCEPT ![p].tenants = @ \ {t}, ![p].convs = b, ![p].stage = "conv"]
        PROVE  SweepInv'
    <3> DEFINE s == [sweep[p] EXCEPT !.tenants = @ \ {t}, !.convs = b, !.stage = "conv"]
    <3>1. b \subseteq Convs \ archivedAt
      BY DEF Batches, Archivable
    <3>2. s \in Sweep /\ s.stage = "conv" /\ s.conv = sweep[p].conv /\ s.convs = b
      BY <1>1, <3>1 DEF Sweep
    <3>3. sweep' = [sweep EXCEPT ![p] = s]
      BY <1>1, <2>2 DEF Sweep
    <3>4. sweep[p].stage # "none" /\ s.conv = NoConv /\ s.convs \subseteq (Convs \ archivedAt) \cup sweep[p].convs
      BY <1>4, <1>7, <3>1, <3>2, <3>3 DEF NextTenant
    <3> HIDE DEF s
    <3> QED BY <1>5, <3>1, <3>2, <3>3, <3>4
  <2> QED BY <1>7, <2>1, <2>2 DEF NextTenant
<1>8. CASE NextConv(p)
  <2>1. ASSUME NEW stage \in {"tenant", "end"}, sweep' = [sweep EXCEPT ![p].stage = stage] PROVE SweepInv'
    <3> DEFINE s == [sweep[p] EXCEPT !.stage = stage]
    <3>1. s \in Sweep /\ s.stage = stage /\ s.conv = sweep[p].conv /\ s.convs = sweep[p].convs
      BY <1>1 DEF Sweep
    <3>2. sweep' = [sweep EXCEPT ![p] = s]
      BY <1>1, <2>1 DEF Sweep
    <3>4. sweep[p].stage # "none" /\ s.conv = NoConv /\ s.convs \subseteq (Convs \ archivedAt) \cup sweep[p].convs
      BY <1>4, <1>8, <3>1, <3>2, <1>1 DEF NextConv
    <3> HIDE DEF s
    <3> QED BY <1>5, <3>1, <3>2, <3>4
  <2>2. ASSUME NEW c \in sweep[p].convs,
               sweep' = [sweep EXCEPT ![p].convs = @ \ {c}, ![p].conv = c, ![p].stage = "read"]
        PROVE  SweepInv'
    <3> DEFINE s == [sweep[p] EXCEPT !.convs = @ \ {c}, !.conv = c, !.stage = "read"]
    <3>1. s \in Sweep /\ s.stage = "read" /\ s.conv = c /\ s.convs = sweep[p].convs \ {c}
      BY <1>1 DEF Sweep
    <3>2. sweep' = [sweep EXCEPT ![p] = s]
      BY <1>1, <2>2 DEF Sweep
    <3>3. sweep' \in [Procs -> Sweep] /\ sweep'[p] = s /\ \A q \in Procs \ {p} : sweep'[q] = sweep[q]
      BY <1>1, <3>1, <3>2, SweepPointwise
    <3>4. sweep[p].stage # "none"
      BY <1>8 DEF NextConv
    <3> QED BY <1>1, <1>2, <1>3, <3>1, <3>3, <3>4, Stays
  <2> QED BY <1>8, <2>1, <2>2 DEF NextConv
<1>9. CASE ReadMessages(p)
  <2>1. CASE ConvDone(p)
    BY <1>2, <1>3, <1>9, <2>1, DoneStays DEF ReadMessages
  <2>2. CASE sweep' = [sweep EXCEPT ![p].copy = InConv(sweep[p].conv), ![p].stage = "write"]
    <3> DEFINE s == [sweep[p] EXCEPT !.copy = InConv(sweep[p].conv), !.stage = "write"]
    <3>1. InConv(sweep[p].conv) \subseteq Msgs
      BY Facts DEF InConv, ArchiveTypeOK
    <3>2. /\ s \in Sweep /\ s.stage = "write" /\ s.conv = sweep[p].conv /\ s.convs = sweep[p].convs
          /\ s.copy = InConv(s.conv)
      BY <1>1, <3>1 DEF Sweep
    <3>3. sweep' = [sweep EXCEPT ![p] = s]
      BY <1>1, <2>2 DEF Sweep
    <3>4. sweep' \in [Procs -> Sweep] /\ sweep'[p] = s /\ \A q \in Procs \ {p} : sweep'[q] = sweep[q]
      BY <1>1, <3>2, <3>3, SweepPointwise
    <3>5. sweep[p].stage = "read" /\ sweep[p].conv \in Convs /\ sweep[p].conv \notin sweep[p].convs
      BY <1>1, <1>9 DEF ReadMessages, SweepShape
    <3> QED BY <1>2, <1>3, <3>2, <3>4, <3>5, Stays
  <2> QED BY <1>9, <2>1, <2>2 DEF ReadMessages
<1> QED BY <1>6, <1>7, <1>8, <1>9

LEMMA SendKeeps == ASSUME SweepInv, NEW m \in Msgs, SendMessage(m) PROVE SweepInv'
<1>1. /\ UNCHANGED <<leaseVars, closed, archivedAt, coldVars, sweep, errors, over, overlap>>
      /\ hot' = hot \cup {m} /\ sent' = sent \cup {m} /\ missed \subseteq missed' /\ missed' \subseteq missed \cup {m}
      /\ idle' = idle \ {ConvOf[m]}
  BY DEF SendMessage
<1>2. LeaseInv' /\ LeaseTypeOK'
  BY <1>1, InvNext DEF SweepInv, LeaseInv, CoverInv
<1>3. ArchiveTypeOK'
  BY <1>1, <1>2 DEF SweepInv, ArchiveTypeOK, coldVars
<1>4. OverKnown' /\ SweepShape' /\ ListedIsHot'
  BY <1>1 DEF SweepInv, OverKnown, SweepShape, ListedIsHot, Inside, leaseVars
<1>5. CopyCurrent'
  <2> SUFFICES ASSUME NEW p \in Procs, sweep[p].stage \in {"write", "commit"}, NEW n \in hot',
                      ConvOf[n] = sweep[p].conv
               PROVE  n \in sweep[p].copy \cup missed'
    BY <1>1 DEF CopyCurrent, InConv
  <2>1. CASE n \in hot
    BY <1>1, <2>1 DEF SweepInv, DataInv, CopyCurrent, InConv
  <2>2. CASE n = m
    BY <2>2 DEF SendMessage, GonePast
  <2> QED BY <1>1, <2>1, <2>2
<1>6. DataInv'
  BY <1>1, <1>5 DEF SweepInv, DataInv, Written, HotUntilPurged, SentIsSomewhere, TombMeansArchived,
                    TombstoneMatchesSink, Inside, coldVars, leaseVars
<1> QED BY <1>2, <1>3, <1>4, <1>6 DEF SweepInv

LEMMA AgeKeeps ==
    ASSUME SweepInv, NEW c \in Convs, CloseConversation(c) \/ GoIdle(c) PROVE SweepInv'
<1>1. /\ UNCHANGED <<leaseVars, archivedAt, hot, coldVars, sweep, errors, historyVars>>
      /\ closed' \subseteq closed \cup {c} /\ idle' \subseteq idle \cup {c}
  BY DEF CloseConversation, GoIdle
<1>2. LeaseInv' /\ LeaseTypeOK'
  BY <1>1, InvNext DEF SweepInv, LeaseInv, CoverInv
<1>3. ArchiveTypeOK'
  BY <1>1, <1>2 DEF SweepInv, ArchiveTypeOK, coldVars, historyVars
<1>4. OverKnown' /\ SweepShape' /\ ListedIsHot'
  BY <1>1 DEF SweepInv, OverKnown, SweepShape, ListedIsHot, Inside, leaseVars, historyVars
<1>5. DataInv'
  BY <1>1 DEF SweepInv, DataInv, CopyCurrent, Written, HotUntilPurged, SentIsSomewhere, TombMeansArchived,
              TombstoneMatchesSink, Inside, InConv, coldVars, leaseVars, historyVars
<1> QED BY <1>2, <1>3, <1>4, <1>5 DEF SweepInv

LEMMA WriteKeeps == ASSUME SweepInv, NEW p \in Procs, WriteSink(p) PROVE SweepInv'
<1> DEFINE c == sweep[p].conv
<1>1. /\ sweep[p] \in Sweep /\ sweep \in [Procs -> Sweep] /\ NoConv \notin archivedAt /\ ArchiveTypeOK
      /\ sweep[p].convs \subseteq Convs /\ errors \in 0..MaxErrors /\ SweepShape /\ OverKnown /\ LeaseInv
  BY Facts DEF SweepInv
<1>2. UNCHANGED <<leaseVars, convVars, tomb, sent, missed, over>> /\ sweep[p].stage = "write"
  BY DEF WriteSink
<1>3. errors' \in 0..MaxErrors
  BY <1>1, ErrorType DEF WriteSink, Fails
<1>4. CASE ConvDone(p) /\ UNCHANGED <<sink, overlap>>
  BY <1>2, <1>3, <1>4, DoneStays DEF coldVars, historyVars
<1>5. ASSUME Put(p), Past(p), ConvDone(p) \/ sweep' = [sweep EXCEPT ![p].stage = "commit"] PROVE SweepInv'
  <2>1. c \in Convs /\ c \notin sweep[p].convs /\ run[p] \in {"running", "lost"}
    BY <1>1, <1>2 DEF SweepShape
  <2>2. /\ sweep' \in [Procs -> Sweep] /\ \A q \in Procs \ {p} : sweep'[q] = sweep[q]
        /\ sweep'[p].convs = sweep[p].convs
        /\ \/ sweep'[p].stage = "conv" /\ sweep'[p].conv = NoConv
           \/ sweep'[p].stage = "commit" /\ sweep'[p].conv = c /\ sweep'[p].copy = sweep[p].copy
    <3>1. CASE ConvDone(p)
      <4> DEFINE s == [sweep[p] EXCEPT !.stage = "conv", !.conv = NoConv, !.copy = {}]
      <4>1. s \in Sweep /\ s.stage = "conv" /\ s.conv = NoConv /\ s.convs = sweep[p].convs
        BY <1>1 DEF Sweep
      <4>2. sweep' = [sweep EXCEPT ![p] = s]
        BY <1>1, <3>1 DEF ConvDone
      <4> QED BY <1>1, <4>1, <4>2, SweepPointwise
    <3>2. CASE sweep' = [sweep EXCEPT ![p].stage = "commit"]
      <4> DEFINE s == [sweep[p] EXCEPT !.stage = "commit"]
      <4>1. s \in Sweep /\ s.stage = "commit" /\ s.conv = c /\ s.convs = sweep[p].convs /\ s.copy = sweep[p].copy
        BY <1>1 DEF Sweep
      <4>2. sweep' = [sweep EXCEPT ![p] = s]
        BY <1>1, <3>2
      <4> QED BY <1>1, <4>1, <4>2, SweepPointwise
    <3> QED BY <1>5, <3>1, <3>2
  <2>3. /\ sink' \in [Convs -> SUBSET Msgs] /\ sink'[c] = sweep[p].copy
        /\ \A d \in Convs \ {c} : sink'[d] = sink[d]
    BY <1>1, <1>5, <2>1, Facts DEF Put, ArchiveTypeOK
  <2>4. overlap' \in BOOLEAN /\ (overlap => overlap') /\ (~overlap' => Inside(p))
    BY <1>1, <1>5, <2>1 DEF Past, Inside, ArchiveTypeOK
  <2>5. LeaseInv' /\ LeaseTypeOK'
    BY <1>1, <1>2, InvNext DEF LeaseInv, CoverInv
  <2>6. ArchiveTypeOK'
    BY <1>1, <1>2, <1>3, <2>2, <2>3, <2>4, <2>5 DEF ArchiveTypeOK, convVars
  <2>7. OverKnown' /\ SweepShape'
    BY <1>1, <1>2, <2>1, <2>2, ArchiveConstants DEF OverKnown, SweepShape, Inside, leaseVars
  <2>8. ListedIsHot'
    BY <1>1, <1>2, <2>2, <2>4 DEF SweepInv, ListedIsHot, Inside, leaseVars, convVars
  <2>9. CopyCurrent'
    BY <1>2, <2>2 DEF SweepInv, DataInv, CopyCurrent, InConv, convVars
  <2>10. ~overlap' => c \notin archivedAt
    BY <2>4 DEF SweepInv, ListedIsHot
  <2>11. Written'
    <3> SUFFICES ASSUME NEW q \in Procs, sweep'[q].stage = "commit", Inside(q)', ~overlap'
                 PROVE  sink'[sweep'[q].conv] = sweep'[q].copy
      BY DEF Written
    <3>1. Inside(p) /\ Inside(q)
      BY <1>2, <2>4 DEF Inside, leaseVars
    <3>2. q = p
      BY <1>1, <3>1, OneInside
    <3> QED BY <2>2, <2>3, <3>2
  <2>12. HotUntilPurged'
    BY <1>2 DEF SweepInv, DataInv, HotUntilPurged, convVars
  <2>13. SentIsSomewhere'
    <3> SUFFICES ASSUME ~overlap', NEW m \in sent PROVE m \in hot \cup missed \cup sink'[ConvOf[m]]
      BY <1>2 DEF SentIsSomewhere, convVars
    <3>1. ConvOf[m] \in Convs
      BY <1>1, ArchiveConstants DEF ArchiveTypeOK
    <3>2. CASE ConvOf[m] = c
      BY <2>10, <3>2 DEF SweepInv, DataInv, HotUntilPurged
    <3>3. CASE ConvOf[m] # c
      BY <2>3, <2>4, <3>1, <3>3 DEF SweepInv, DataInv, SentIsSomewhere
    <3> QED BY <3>2, <3>3
  <2>14. TombMeansArchived'
    BY <1>2 DEF SweepInv, DataInv, TombMeansArchived, convVars
  <2>15. TombstoneMatchesSink'
    <3> SUFFICES ASSUME ~overlap', NEW d \in Convs, tomb[d] # NoTomb PROVE tomb[d] = Cardinality(sink'[d])
      BY <1>2 DEF TombstoneMatchesSink
    <3>1. d # c
      BY <2>10 DEF SweepInv, DataInv, TombMeansArchived
    <3> QED BY <2>3, <2>4, <3>1 DEF SweepInv, DataInv, TombstoneMatchesSink
  <2> QED BY <2>5, <2>6, <2>7, <2>8, <2>9, <2>11, <2>12, <2>13, <2>14, <2>15 DEF SweepInv, DataInv
<1> QED BY <1>4, <1>5 DEF WriteSink

LEMMA CommitKeeps == ASSUME SweepInv, NEW p \in Procs, Commit(p) PROVE SweepInv'
<1> DEFINE c == sweep[p].conv
<1>1. /\ sweep[p] \in Sweep /\ sweep \in [Procs -> Sweep] /\ NoConv \notin archivedAt /\ ArchiveTypeOK
      /\ sweep[p].convs \subseteq Convs /\ sweep[p].copy \subseteq Msgs
      /\ errors \in 0..MaxErrors /\ SweepShape /\ OverKnown /\ LeaseInv
  BY Facts DEF SweepInv
<1>2. UNCHANGED <<leaseVars, closed, idle, sink, sent, missed, over>> /\ sweep[p].stage = "commit" /\ ConvDone(p)
  BY DEF Commit
<1>3. errors' \in 0..MaxErrors
  BY <1>1, ErrorType DEF Commit, Fails
<1>4. CASE UNCHANGED <<tomb, hot, archivedAt, overlap>>
  BY <1>2, <1>3, <1>4, DoneStays DEF convVars, coldVars, historyVars
<1>5. ASSUME run[p] = "running", tomb[c] = NoTomb, CreateTombstone(p, c), PurgeHot(c), Past(p) PROVE SweepInv'
  <2>1. c \in Convs /\ c \notin sweep[p].convs
    BY <1>1, <1>2 DEF SweepShape
  <2>2. /\ sweep' \in [Procs -> Sweep] /\ \A q \in Procs \ {p} : sweep'[q] = sweep[q]
        /\ sweep'[p].convs = sweep[p].convs /\ sweep'[p].stage = "conv" /\ sweep'[p].conv = NoConv
    <3> DEFINE s == [sweep[p] EXCEPT !.stage = "conv", !.conv = NoConv, !.copy = {}]
    <3>1. s \in Sweep /\ s.stage = "conv" /\ s.conv = NoConv /\ s.convs = sweep[p].convs
      BY <1>1 DEF Sweep
    <3>2. sweep' = [sweep EXCEPT ![p] = s]
      BY <1>1, <1>2 DEF ConvDone
    <3> QED BY <1>1, <3>1, <3>2, SweepPointwise
  <2>3. Cardinality(sweep[p].copy) \in Nat
    BY <1>1, FS_Subset, FS_CardinalityType, ArchiveConstants
  <2>4. /\ tomb' \in [Convs -> Nat \cup {NoTomb}] /\ tomb'[c] = Cardinality(sweep[p].copy)
        /\ \A d \in Convs \ {c} : tomb'[d] = tomb[d]
        /\ archivedAt' = archivedAt \cup {c} /\ hot' = hot \ InConv(c)
    BY <1>1, <1>5, <2>1, <2>3 DEF CreateTombstone, PurgeHot, ArchiveTypeOK
  <2>5. overlap' \in BOOLEAN /\ (overlap => overlap') /\ (~overlap' => Inside(p))
    BY <1>1, <1>5 DEF Past, Inside, ArchiveTypeOK
  <2>6. LeaseInv' /\ LeaseTypeOK'
    BY <1>1, <1>2, InvNext DEF LeaseInv, CoverInv
  <2>7. ArchiveTypeOK'
    BY <1>1, <1>2, <1>3, <2>1, <2>2, <2>4, <2>5, <2>6 DEF ArchiveTypeOK
  <2>8. OverKnown' /\ SweepShape'
    BY <1>1, <1>2, <2>2, ArchiveConstants DEF OverKnown, SweepShape, Inside, leaseVars
  <2>9. ListedIsHot'
    <3> SUFFICES ASSUME NEW q \in Procs, Inside(q)', ~overlap'
                 PROVE  (sweep'[q].convs \cup {sweep'[q].conv}) \cap archivedAt' = {}
      BY DEF ListedIsHot
    <3>1. Inside(p) /\ Inside(q)
      BY <1>2, <2>5 DEF Inside, leaseVars
    <3>2. q = p
      BY <1>1, <3>1, OneInside
    <3>3. sweep[p].convs \cap archivedAt = {}
      BY <2>5, <3>1 DEF SweepInv, ListedIsHot
    <3>4. NoConv # c
      BY <2>1, ArchiveConstants
    <3> QED BY <1>1, <2>1, <2>2, <2>4, <3>2, <3>3, <3>4
  <2>10. CopyCurrent'
    BY <1>2, <2>2, <2>4 DEF SweepInv, DataInv, CopyCurrent, InConv
  <2>11. Written'
    BY <1>2, <2>2, <2>5 DEF SweepInv, DataInv, Written, Inside, leaseVars
  <2>12. HotUntilPurged'
    BY <1>2, <2>4 DEF SweepInv, DataInv, HotUntilPurged, InConv
  <2>13. ~overlap' => sink[c] = sweep[p].copy
    BY <1>2, <2>5 DEF SweepInv, DataInv, Written
  <2>14. SentIsSomewhere'
    <3> SUFFICES ASSUME ~overlap', NEW m \in sent PROVE m \in hot' \cup missed \cup sink[ConvOf[m]]
      BY <1>2 DEF SentIsSomewhere
    <3>1. CASE m \in InConv(c)
      <4>1. m \in sweep[p].copy \cup missed /\ ConvOf[m] = c
        BY <1>2, <3>1 DEF SweepInv, DataInv, CopyCurrent, InConv
      <4> QED BY <2>13, <4>1
    <3>2. CASE m \notin InConv(c)
      BY <2>4, <2>5, <3>2 DEF SweepInv, DataInv, SentIsSomewhere
    <3> QED BY <3>1, <3>2
  <2>15. TombMeansArchived'
    BY <2>4 DEF SweepInv, DataInv, TombMeansArchived
  <2>16. TombstoneMatchesSink'
    BY <1>2, <2>4, <2>5, <2>13 DEF SweepInv, DataInv, TombstoneMatchesSink
  <2> QED BY <2>6, <2>7, <2>8, <2>9, <2>10, <2>11, <2>12, <2>14, <2>15, <2>16 DEF SweepInv, DataInv
<1> QED BY <1>4, <1>5 DEF Commit

LEMMA LeaseSteps ==
    ASSUME SweepInv, LeaseInv', NEW p \in Procs,
           \/ StartSweep(p) \/ Skip(p) \/ Conflict(p) \/ Enter(p)
           \/ Return(p) \/ Join(p) \/ Leave(p) \/ Beat(p) \/ Die(p)
    PROVE  SweepInv'
<1>1. /\ LeaseTypeOK /\ ArchiveTypeOK /\ SweepShape
      /\ sweep \in [Procs -> Sweep] /\ over \in [Procs -> BOOLEAN]
  BY Facts DEF SweepInv, ArchiveTypeOK
<1>2. NoSweep \in Sweep /\ [NoSweep EXCEPT !.stage = "tenants"] \in Sweep
  BY DEF NoSweep, Sweep
<1>3. CASE StartSweep(p) \/ Skip(p) \/ Conflict(p) \/ Join(p) \/ Leave(p)
  <2>1. /\ AcquireStep(p) \/ EndStep(p)
        /\ UNCHANGED archiveVars
        /\ run[p] \in {"off", "acquire", "returned"}
    BY <1>3 DEF StartSweep, Skip, Conflict, Join, Leave, AcquireStep, EndStep,
                StartRun, Beaten, AcquireFails, RenewalCut, Release
  <2>2. sweep'[p] = NoSweep
    BY <1>1, <2>1 DEF SweepShape, archiveVars
  <2>3. UNCHANGED <<convVars, coldVars, errors, sent, missed, overlap, sweep, over>>
    BY <2>1 DEF archiveVars, historyVars
  <2> QED BY <1>1, <2>1, <2>2, <2>3, LeaseOnly
<1>4. CASE Enter(p)
  <2>1. /\ AcquireStep(p) /\ run[p] = "acquire" /\ run'[p] = "running"
        /\ UNCHANGED <<convVars, coldVars, errors, sent, missed, overlap, over>>
        /\ sweep' = [sweep EXCEPT ![p].stage = "tenants"]
    BY <1>1, <1>4 DEF Enter, Won, AcquireStep, LeaseTypeOK, historyVars
  <2>2. sweep[p] = NoSweep
    BY <1>1, <2>1 DEF SweepShape
  <2>3. sweep' = [sweep EXCEPT ![p] = [NoSweep EXCEPT !.stage = "tenants"]]
    BY <1>1, <2>1, <2>2
  <2> QED BY <1>1, <1>2, <2>1, <2>3, LeaseOnly
<1>5. CASE Return(p) \/ Die(p)
  <2>1. /\ EndStep(p) \/ Crash(p)
        /\ run'[p] \in {"returned", "off"}
        /\ UNCHANGED <<convVars, coldVars, errors, sent, missed, overlap>>
        /\ sweep' = [sweep EXCEPT ![p] = NoSweep] /\ over' = [over EXCEPT ![p] = FALSE]
    BY <1>1, <1>5 DEF Return, Die, FnReturns, Crash, EndStep, LeaseTypeOK
  <2> QED BY <1>1, <1>2, <2>1, LeaseOnly
<1>6. CASE Beat(p)
  <2>1. /\ AcquireStep(p) \/ BeatStep(p)
        /\ run[p] = "running" /\ run'[p] \in {"running", "lost"}
        /\ UNCHANGED archiveVars
    BY <1>1, <1>6 DEF Beat, AcquireStep, BeatStep, InsertConflict, Heartbeat, Renewed,
                      TakenOver, RenewalFails, LeaseTypeOK
  <2>2. UNCHANGED <<convVars, coldVars, errors, sent, missed, overlap, sweep, over>>
    BY <2>1 DEF archiveVars, historyVars
  <2> QED BY <1>1, <2>1, <2>2, LeaseOnly
<1> QED BY <1>3, <1>4, <1>5, <1>6

LEMMA PassKeeps == ASSUME SweepInv, LeaseInv', Pass PROVE SweepInv'
<1>1. /\ UNCHANGED <<run, convVars, coldVars, sweep, errors, sent, missed, overlap>>
      /\ over' = [p \in Procs |-> over[p] \/ (run[p] = "running" /\ left'[p] < 0)]
      /\ left' \in [Procs -> Int] /\ LeaseTypeOK'
  BY DEF Pass, Tick, LeaseInv, CoverInv, LeaseTypeOK
<1>2. over \in [Procs -> BOOLEAN]
  BY DEF SweepInv, ArchiveTypeOK
<1>3. over' \in [Procs -> BOOLEAN] /\ \A p \in Procs : over[p] => over'[p]
  BY <1>1, <1>2
<1>4. ArchiveTypeOK'
  BY <1>1, <1>3 DEF SweepInv, ArchiveTypeOK, convVars, coldVars
<1>5. OverKnown'
  <2> SUFFICES ASSUME NEW p \in Procs, run'[p] = "running", ~over'[p] PROVE left'[p] >= 0
    BY DEF OverKnown, Inside
  <2>1. ~(left'[p] < 0) /\ left'[p] \in Int
    BY <1>1
  <2> QED BY <2>1
<1>6. SweepShape' /\ ListedIsHot'
  BY <1>1, <1>3 DEF SweepInv, SweepShape, ListedIsHot, Inside, convVars
<1>7. DataInv'
  BY <1>1, <1>3 DEF SweepInv, DataInv, CopyCurrent, Written, HotUntilPurged, SentIsSomewhere,
                    TombMeansArchived, TombstoneMatchesSink, Inside, InConv, convVars, coldVars
<1> QED BY <1>4, <1>5, <1>6, <1>7 DEF SweepInv

LEMMA SweepNext == SweepInv /\ [Next]_vars => SweepInv'
<1> SUFFICES ASSUME SweepInv, [Next]_vars PROVE SweepInv'
  OBVIOUS
<1>1. LeaseInv'
  BY SweepIsLease, InvNext DEF SweepInv
<1>2. CASE UNCHANGED vars
  <2>1. LeaseTypeOK'
    BY <1>1 DEF LeaseInv, CoverInv
  <2>2. ArchiveTypeOK'
    BY <1>2, <2>1 DEF vars, archiveVars, convVars, coldVars, historyVars, SweepInv, ArchiveTypeOK
  <2>3. OverKnown' /\ SweepShape' /\ ListedIsHot'
    BY <1>2 DEF vars, leaseVars, archiveVars, convVars, historyVars, SweepInv, OverKnown, SweepShape,
                ListedIsHot, Inside
  <2>4. DataInv'
    BY <1>2 DEF vars, leaseVars, archiveVars, convVars, coldVars, historyVars, SweepInv, DataInv,
                CopyCurrent, Written, HotUntilPurged, SentIsSomewhere, TombMeansArchived,
                TombstoneMatchesSink, Inside, InConv
  <2> QED BY <1>1, <2>2, <2>3, <2>4 DEF SweepInv
<1>3. ASSUME NEW p \in Procs, SweepStep(p) PROVE SweepInv'
  BY <1>1, <1>3, LeaseSteps, ListSteps, WriteKeeps, CommitKeeps DEF SweepStep
<1>4. ASSUME NEW p \in Procs, Beat(p) \/ Die(p) PROVE SweepInv'
  BY <1>1, <1>4, LeaseSteps
<1> QED BY <1>1, <1>2, <1>3, <1>4, SendKeeps, AgeKeeps, PassKeeps DEF Next

LEMMA SweepHeld == Spec => []SweepInv
BY SweepInit, SweepNext, PTL DEF Spec

(* Write-then-delete (job.go, archiveOne): for any number of workers that  *)
(* crash, fail and lose their lease, what was sent is in the database or   *)
(* in the sink, unless it was sent behind a sweep's back or a sweep wrote  *)
(* past its lease.                                                         *)
THEOREM NothingLostHolds == Spec => []NothingLost
<1>1. SweepInv => NothingLost
  <2> SUFFICES ASSUME SweepInv, ~overlap, NEW m \in sent
               PROVE  m \in hot \cup missed \cup UNION {sink[c] : c \in Convs}
    BY DEF NothingLost
  <2>1. ConvOf[m] \in Convs
    BY ArchiveConstants DEF SweepInv, ArchiveTypeOK
  <2>2. m \in hot \cup missed \cup sink[ConvOf[m]]
    BY DEF SweepInv, DataInv, SentIsSomewhere
  <2> QED BY <2>1, <2>2
<1> QED BY <1>1, SweepHeld, PTL

(* The tombstone of archiveOne (job.go) counts what the object in the sink *)
(* holds: no later sweep overwrites it, unless one ran past its lease.     *)
THEOREM ArchiveInvHolds == Spec => []ArchiveInv
<1>1. SweepInv => ArchiveInv
  BY DEF SweepInv, DataInv, ArchiveInv
<1> QED BY <1>1, SweepHeld, PTL
=============================================================================
